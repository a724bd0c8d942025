-------------------------------- MODULE Chat --------------------------------
(***************************************************************************)
(* The chat of "Task - 4": the server, its clients and the connections     *)
(* between them.                                                           *)
(***************************************************************************)
EXTENDS ChatClient, ChatServer

vars == <<wire, clientVars, serverVars>>

Init == WireInit /\ ClientInit /\ ServerInit

\* Everybody has left, and the server waits for the next client.
Idle ==
  /\ \A c \in Client : cpc[c] = "closed" /\ far[c] # "open"
  /\ UNCHANGED vars

Next ==
  \/ \E c \in Client : (ClientStep(c) \/ KillClient(c)) /\ UNCHANGED serverVars
  \/ Main /\ UNCHANGED clientVars
  \/ \E t \in Client : client_handler(t) /\ UNCHANGED clientVars
  \/ (StopServer \/ RestartServer) /\ UNCHANGED clientVars
  \/ Idle

\* Threads and processes are scheduled, and users type: nobody is delayed for
\* ever.  Neither the server nor a client has to be killed.
Fairness ==
  /\ \A c \in Client : WF_vars(ClientStep(c) /\ UNCHANGED serverVars)
  /\ WF_vars(Main /\ UNCHANGED clientVars)
  /\ \A t \in Client : WF_vars(client_handler(t) /\ UNCHANGED clientVars)

Spec == Init /\ [][Next]_vars /\ Fairness
-----------------------------------------------------------------------------
Serving(t) == hpc[t] \in {"header", "payload", "process"}

(* Type correctness.  bytes_read indexes the buffer (server.c:70), so it     *)
(* stays below BUFFER_SIZE, and so does the length of the payload that a     *)
(* thread is about to read (server.c:55).                                    *)
TypeOK ==
  /\ listening \in BOOLEAN /\ mpc \in {"accept", "spawn", "gone"}
  /\ Len(backlog) \in 0..Backlog /\ \A i \in DOMAIN backlog : backlog[i] \in Client
  /\ near \in [Client -> {"none", "open", "closed"}]
  /\ far \in [Client -> {"none", "open", "closed"}]
  /\ cpc \in [Client -> {"start", "forged", "password", "authBody", "authReply",
                         "prompt", "body", "ack", "closed"}]
  /\ hpc \in [Client -> {"none", "new", "header", "payload", "process", "returned"}]
  /\ sock \in [Client -> Client \union {NoSocket}]
  /\ is_authenticated \in [Client -> BOOLEAN]
  /\ bytes_read \in [Client -> 0..(BUFFER_SIZE - 1)]
  /\ \A t \in Client : hpc[t] = "payload" => header[t].payload_length \in 0..(BUFFER_SIZE - 1)

\* Who answers for the server's end of a connection: the listen queue, main
\* between accept and pthread_create, or the thread made for it.
Queued(c) == c \in Range(backlog)
Accepted(c) == mpc = "spawn" /\ client_socket = c
Serves(t, c) ==
  \/ hpc[t] = "new" /\ worker_sock[t] = c
  \/ Serving(t) /\ sock[t] = c

(* Every connection that is open at the server's end is answered for, in one *)
(* place at a time, and no other is: none is forgotten when a thread cannot  *)
(* be created, none is served twice when main accepts the next one first,    *)
(* none is used after its close, nor by a server started again               *)
(* (server.c:30, 111, 185-205).                                              *)
OneOwnerPerConnection ==
  \A c \in Client :
    /\ far[c] = "open" <=> Queued(c) \/ Accepted(c) \/ \E t \in Client : Serves(t, c)
    /\ ~(Queued(c) /\ Accepted(c))
    /\ \A t \in Client : Serves(t, c) => ~Queued(c) /\ ~Accepted(c)
    /\ \A t, u \in Client : Serves(t, c) /\ Serves(u, c) => t = u

\* The texts that the server printed for a connection.  An entry without one
\* may only come last, from a connection that ended before its payload.
Heard(c) == IF log[c] # <<>> /\ Last(log[c]).text = "" THEN Front(log[c]) ELSE log[c]

(* Server, clients and sockets together are the conversation they stand for: *)
(* a message is taken only from a user who gave the password, sent only when *)
(* the one before was printed, and printed as it was sent, in order, whoever *)
(* is killed and started again (server.c:73-106, client.c:94-155).           *)
Talk == INSTANCE Conversation WITH
  Speaker <- Client, Word <- Text, Secret <- Password,
  Message <- [text : Text, sealed : BOOLEAN],
  word <- secret,
  admitted <- {sock[t] : t \in {u \in Client : is_authenticated[u]}},
  said <- typed,
  heard <- [c \in Client |-> Heard(c)]
ImplementsConversation == Talk!Spec

(* Frames never slip against one another: a thread that reads a header meets *)
(* a header, one that reads a payload meets a payload, and the log of a      *)
(* connection, an empty last entry aside, is a prefix of what its user       *)
(* typed, or its client repeated, in that order and decrypted                *)
(* (server.c:40-98, client.c:129-141).                                       *)
LoggedAsTyped ==
  /\ \A t \in Client :
       hpc[t] \in {"header", "payload"} /\ up[sock[t]] # <<>> => Head(up[sock[t]]).kind = hpc[t]
  /\ \A c \in Client : IsPrefix(Heard(c), typed[c])

(* When the user is asked for the next message, the server has logged every  *)
(* message so far, and no confirmation of an earlier one is left to be taken *)
(* for that of the next (client.c:149-155).                                  *)
AcksPaired ==
  \A c \in Client : cpc[c] = "prompt" => down[c] = <<>> /\ Len(log[c]) = Len(typed[c])

(* A client and its thread never wait for each other with nothing on the way *)
(* (client.c:95, 149 against server.c:40, 64).                               *)
NoMutualWait ==
  \A c, t \in Client :
    cpc[c] \in {"authReply", "ack"} /\ down[c] = <<>>
    /\ hpc[t] \in {"header", "payload"} /\ sock[t] = c => up[c] # <<>>

(* Every client whose input does not end leaves, and the server closes every *)
(* connection it accepted, whoever is killed in between, whether threads can *)
(* be created or not, and also when the server is started again              *)
(* (server.c:110-111, 147, 198-201; client.c:158).                           *)
SessionsEnd ==
  \A c \in Client : <>[](ended[c] \/ (cpc[c] = "closed" /\ far[c] # "open"))

(* README.md:332: "Read-return checks (`<= 0`) on every `read()` to detect   *)
(* disconnects": a connection that ends before the payload is not taken for  *)
(* an empty message.                                                         *)
DisconnectsDetected ==
  \A c \in Client : \A i \in DOMAIN log[c] : log[c][i].text # ""

(* server.c:95 on a message: "Decrypt the encrypted message back to normal   *)
(* text": what is printed is never XORed text.                               *)
LoggedInNormalText ==
  \A c \in Client : \A i \in DOMAIN log[c] : ~log[c][i].sealed
=============================================================================
