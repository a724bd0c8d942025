----------------------------- MODULE ChatProofs -----------------------------
(***************************************************************************)
(* The chat of "Task - 4" for any number of clients, messages and restarts *)
(* of the server.  The first invariant, OwnerInv, says who answers for a   *)
(* connection: the listen queue, main, or the thread named after it and no *)
(* other.  The second, ChatInv, goes by the place of the client: what is   *)
(* on its way, where the thread stands and what it has printed.  From it   *)
(* follow the log, the acknowledgements, that the two sides never wait for *)
(* each other, and the refinement of Conversation.                         *)
(***************************************************************************)
EXTENDS Chat, SequenceTheorems, TLAPS

\* What travels on a connection, and what the two buffers hold.
Headers == {Header("AUTH", Size), Header("MSG", Size), Header("EXIT", 0), Header("MSG", BUFFER_SIZE)}
Spoken == [text : Text, sealed : BOOLEAN]
Contents == [text : Text \union {""}, sealed : BOOLEAN]
Frames == Headers \union [kind : {"payload"}, of : Contents]

Replies == {"AUTH_SUCCESS", "AUTH_FAILED", "SERVER_RECEIVED_OK"}

\* The types of the listening socket, of the clients and the bytes on the way,
\* and of the threads.
ListenTypes ==
  /\ listening \in BOOLEAN /\ mpc \in {"accept", "spawn", "gone"}
  /\ listening <=> mpc # "gone"
  /\ backlog \in Seq(Client) /\ Len(backlog) <= Backlog
  /\ \A i, j \in 1..Len(backlog) : backlog[i] = backlog[j] => i = j
  /\ mpc = "gone" => backlog = <<>>
  /\ mpc = "spawn" => client_socket \in Client

Ends == {"none", "open", "closed"}
ClientPlaces ==
  {"start", "forged", "password", "authBody", "authReply", "prompt", "body", "ack", "closed"}
Said == {"authBody", "authReply", "prompt", "body", "ack"}

ClientTypes ==
  /\ near \in [Client -> Ends] /\ far \in [Client -> Ends]
  /\ up \in [Client -> Seq(Frames)] /\ down \in [Client -> Seq(Replies)]
  /\ cpc \in [Client -> ClientPlaces]
  /\ message \in [Client -> Contents]
  /\ secret \in [Client -> Text \union {""}]
  /\ typed \in [Client -> Seq(Spoken)]
  /\ \A c \in Client : cpc[c] \in Said => message[c] \in Spoken

ThreadPlaces == {"none", "new", "header", "payload", "process", "returned"}

ThreadTypes ==
  /\ hpc \in [Client -> ThreadPlaces]
  /\ sock \in [Client -> Client \union {NoSocket}]
  /\ worker_sock \in [Client -> Client \union {NoSocket}]
  /\ header \in [Client -> Headers]
  /\ buffer \in [Client -> Contents]
  /\ bytes_read \in [Client -> 0..(BUFFER_SIZE - 1)]
  /\ is_authenticated \in [Client -> BOOLEAN]
  /\ log \in [Client -> Seq(Contents)]
  /\ \A t \in Client : hpc[t] = "payload" => header[t].payload_length < BUFFER_SIZE

\* The thread of a connection serves that connection and no other.
Owned(c) ==
  /\ hpc[c] = "new" => worker_sock[c] = c
  /\ Serving(c) => sock[c] = c
  /\ is_authenticated[c] => sock[c] = c
  /\ cpc[c] = "start" => far[c] = "none"
  /\ far[c] = "none" => hpc[c] = "none"
  /\ ~(Queued(c) /\ Accepted(c))
  /\ Queued(c) \/ Accepted(c) => hpc[c] = "none"
  /\ far[c] = "open" <=> Queued(c) \/ Accepted(c) \/ hpc[c] = "new" \/ Serving(c)

OwnerInv == ListenTypes /\ ClientTypes /\ ThreadTypes /\ \A c \in Client : Owned(c)

-----------------------------------------------------------------------------
\* Frames and contents.
LEMMA FrameTypes ==
  /\ Header("AUTH", Size) \in Headers /\ Header("MSG", Size) \in Headers
  /\ Header("EXIT", 0) \in Headers /\ Header("MSG", BUFFER_SIZE) \in Headers
  /\ Headers \subseteq Frames
  /\ \A h \in Headers : h.kind = "header" /\ h.payload_length \in Nat
  /\ \A p \in Contents : Body(p) \in Frames /\ Body(p).kind = "payload" /\ Body(p).of = p
  /\ \A f \in Frames : f.kind = "header" => f \in Headers
  /\ \A f \in Frames : f.kind = "payload" => f.of \in Contents
BY SizeAssumption DEF Headers, Header, Frames, Body

LEMMA ContentTypes ==
  /\ \A p \in Contents : custom_crypt(p) \in Contents /\ custom_crypt(p).text = p.text
                         /\ custom_crypt(custom_crypt(p)) = p
  /\ \A text \in Text \union {""} : Plain(text) \in Contents /\ Plain(text).text = text
  /\ \A text \in Text : Plain(text) \in Spoken
  /\ Plain("") \in Contents
  /\ Spoken \subseteq Contents
  /\ \A p \in Contents : p.text \in Text => p \in Spoken
  /\ \A p \in Spoken : p.text # ""
BY TextAssumption DEF Contents, Spoken, custom_crypt, Plain

LEMMA SentType ==
  ASSUME up \in [Client -> Seq(Frames)], NEW c \in Client, NEW items \in Seq(Frames)
  PROVE  Sent(c, items) \in [Client -> Seq(Frames)]
BY ConcatProperties DEF Sent

LEMMA SingleTypes ==
  /\ <<Header("AUTH", Size)>> \in Seq(Frames) /\ <<Header("MSG", Size)>> \in Seq(Frames)
  /\ <<Header("EXIT", 0)>> \in Seq(Frames) /\ <<Header("MSG", BUFFER_SIZE)>> \in Seq(Frames)
  /\ \A p \in Contents : <<Body(p)>> \in Seq(Frames)
BY FrameTypes

LEMMA AnsweredType ==
  ASSUME down \in [Client -> Seq(Replies)], NEW c \in Client, NEW answer \in Replies
  PROVE  Answered(c, answer) \in [Client -> Seq(Replies)]
BY AppendProperties DEF Answered
-----------------------------------------------------------------------------
\* Type correctness of the client's steps.
LEMMA LeaveTypes ==
  ASSUME ClientTypes, NEW c \in Client, Leave(c),
         message' \in [Client -> Contents], secret' \in [Client -> Text \union {""}],
         typed' \in [Client -> Seq(Spoken)],
         \A d \in Client \ {c} : message'[d] = message[d]
  PROVE  ClientTypes'
BY EmptySeq DEF ClientTypes, Leave, Goto, HangUp, Ends, ClientPlaces, Said

LEMMA SendTypes ==
  ASSUME ClientTypes, NEW c \in Client, NEW items \in Seq(Frames),
         NEW label \in {"authBody", "authReply", "body", "ack"},
         SendAnd(c, items, label),
         message' \in [Client -> Contents], secret' \in [Client -> Text \union {""}],
         typed' \in [Client -> Seq(Spoken)],
         message'[c] \in Spoken, \A d \in Client \ {c} : message'[d] = message[d]
  PROVE  ClientTypes'
<1>1. CASE Leave(c)
  BY <1>1, LeaveTypes
<1>2. CASE up' = Sent(c, items) /\ Goto(c, label) /\ UNCHANGED <<near, far, down>>
  <2>1. up' \in [Client -> Seq(Frames)]
    BY <1>2, SentType DEF ClientTypes
  <2> QED BY <1>2, <2>1 DEF ClientTypes, Goto, ClientPlaces, Said
<1> QED BY <1>1, <1>2 DEF SendAnd

LEMMA TransmitTypes ==
  ASSUME ClientTypes, NEW c \in Client, NEW content \in Spoken, Transmit(c, content)
  PROVE  ClientTypes'
<1>1. typed' \in [Client -> Seq(Spoken)] /\ secret' = secret
  BY AppendProperties DEF Transmit, ClientTypes
<1>2. custom_crypt(content) \in Spoken /\ custom_crypt(content) \in Contents
  BY DEF Spoken, Contents, custom_crypt
<1>3. /\ message' \in [Client -> Contents] /\ message'[c] \in Spoken
      /\ \A d \in Client \ {c} : message'[d] = message[d]
  BY <1>2 DEF Transmit, ClientTypes
<1>4. SendAnd(c, <<Header("MSG", Size)>>, "body")
  BY DEF Transmit
<1> QED BY <1>1, <1>3, <1>4, SendTypes, SingleTypes DEF ClientTypes

LEMMA ClientStepTypes ==
  ASSUME ClientTypes, NEW c \in Client, ClientStep(c) \/ KillClient(c)
  PROVE  ClientTypes'
<1>1. CASE Connect(c)
  <2>1. /\ near' \in [Client -> Ends] /\ far' \in [Client -> Ends]
        /\ UNCHANGED <<up, down, message, secret, typed>>
    BY <1>1 DEF Connect, Dial, wire, ClientTypes, Ends
  <2>2. PICK label \in ClientPlaces \ Said : Goto(c, label)
    BY <1>1 DEF Connect, ClientPlaces, Said
  <2> QED BY <2>1, <2>2 DEF Goto, ClientTypes
<1>2. CASE SendForged(c) \/ TypeExit(c)
  <2>1. /\ Sent(c, <<Header("EXIT", 0)>>) \in [Client -> Seq(Frames)]
        /\ Sent(c, <<Header("MSG", BUFFER_SIZE)>>) \in [Client -> Seq(Frames)]
    BY SentType, SingleTypes DEF ClientTypes
  <2>2. up' \in [Client -> Seq(Frames)]
    BY <1>2, <2>1 DEF SendForged, TypeExit
  <2>3. /\ HangUp(c) /\ Goto(c, "closed")
        /\ UNCHANGED <<far, message, secret, typed>>
    BY <1>2 DEF SendForged, TypeExit
  <2> QED BY <2>2, <2>3, EmptySeq DEF ClientTypes, Goto, HangUp, Ends, ClientPlaces, Said
<1>3. CASE TypePassword(c)
  <2>1. PICK text \in Text : /\ secret' = [secret EXCEPT ![c] = text]
                             /\ message' = [message EXCEPT ![c] = custom_crypt(Plain(text))]
    BY <1>3 DEF TypePassword
  <2>2. custom_crypt(Plain(text)) \in Spoken /\ custom_crypt(Plain(text)) \in Contents
    BY DEF Spoken, Contents, custom_crypt, Plain
  <2>3. /\ secret' \in [Client -> Text \union {""}] /\ message' \in [Client -> Contents]
        /\ message'[c] \in Spoken /\ \A d \in Client \ {c} : message'[d] = message[d]
    BY <2>1, <2>2 DEF ClientTypes
  <2> QED BY <1>3, <2>3, SendTypes, SingleTypes DEF TypePassword, ClientTypes
<1>4. CASE SendPassword(c) \/ SendMessage(c)
  <2>1. <<Body(message[c])>> \in Seq(Frames) /\ message[c] \in Spoken
    BY <1>4, SingleTypes DEF ClientTypes, SendPassword, SendMessage, Said
  <2> QED BY <1>4, <2>1, SendTypes DEF SendPassword, SendMessage, ClientTypes
<1>5. CASE ReadVerdict(c) \/ ReadAck(c) \/ KillClient(c)
  <2>1. CASE Leave(c)
    BY <1>5, <2>1, LeaveTypes DEF ReadVerdict, ReadAck, KillClient, ClientTypes
  <2>2. CASE /\ cpc[c] \in Said
             /\ down' = [down EXCEPT ![c] = <<>>] /\ Goto(c, "prompt")
             /\ UNCHANGED <<near, far, up>>
    BY <1>5, <2>2, EmptySeq DEF ReadVerdict, ReadAck, KillClient, Goto, ClientTypes, ClientPlaces, Said
  <2> QED BY <1>5, <2>1, <2>2 DEF ReadVerdict, ReadAck, KillClient, Said
<1>6. CASE TypeMessage(c)
  BY <1>6, TransmitTypes, ContentTypes DEF TypeMessage
<1>7. CASE Repeat(c)
  BY <1>7, TransmitTypes DEF Repeat, ClientTypes, Said
<1> QED BY <1>1, <1>2, <1>3, <1>4, <1>5, <1>6, <1>7 DEF ClientStep

-----------------------------------------------------------------------------
\* Who answers for a connection: the client's steps.
LEMMA OwnedSame ==
  ASSUME NEW d \in Client, Owned(d),
         cpc'[d] = "start" => cpc[d] = "start", far'[d] = far[d], hpc'[d] = hpc[d],
         worker_sock'[d] = worker_sock[d], sock'[d] = sock[d],
         is_authenticated'[d] = is_authenticated[d],
         Queued(d)' <=> Queued(d), Accepted(d)' <=> Accepted(d)
  PROVE  Owned(d)'
BY DEF Owned, Serving

LEMMA ThreadTypesSame ==
  ASSUME ThreadTypes, UNCHANGED serverVars
  PROVE  ThreadTypes'
BY DEF ThreadTypes, serverVars

\* All steps of a client but the successful connect().
LEMMA ClientStepKeeps ==
  ASSUME ClientTypes, NEW c \in Client,
         ClientStep(c) \/ KillClient(c), ~(cpc[c] = "start" /\ Dial(c))
  PROVE  /\ UNCHANGED <<listening, backlog, far>>
         /\ \A d \in Client : cpc'[d] = "start" => cpc[d] = "start"
<1>1. UNCHANGED <<listening, backlog, far>>
  BY DEF ClientStep, KillClient, Connect, SendForged, TypePassword, SendPassword, ReadVerdict,
         TypeMessage, Repeat, Transmit, SendMessage, ReadAck, TypeExit, SendAnd, Leave, wire
<1>2. PICK label \in ClientPlaces \ {"start"} : Goto(c, label)
  BY DEF ClientStep, KillClient, Connect, SendForged, TypePassword, SendPassword, ReadVerdict,
         TypeMessage, Repeat, Transmit, SendMessage, ReadAck, TypeExit, SendAnd, Leave, ClientPlaces
<1> QED BY <1>1, <1>2 DEF Goto, ClientTypes

\* The listen queue grows by a connection that was not in it.
LEMMA DialQueue ==
  ASSUME OwnerInv, NEW c \in Client, cpc[c] = "start", Dial(c), UNCHANGED <<mpc, client_socket>>
  PROVE  ListenTypes' /\ \A d \in Client : Queued(d)' <=> Queued(d) \/ d = c
<1>1. backlog \in Seq(Client) /\ Len(backlog) \in Nat /\ Len(backlog) < Backlog
  BY LenProperties DEF OwnerInv, ListenTypes, Dial
<1>2. \A i \in 1..Len(backlog) : backlog[i] # c
  BY <1>1, LenProperties DEF OwnerInv, Owned, Queued, Range
<1>3. /\ backlog' \in Seq(Client) /\ Len(backlog') = Len(backlog) + 1
      /\ \A i \in 1..Len(backlog) : backlog'[i] = backlog[i]
      /\ backlog'[Len(backlog) + 1] = c
  BY <1>1, AppendProperties DEF Dial
<1>4. \A i, j \in 1..Len(backlog') : backlog'[i] = backlog'[j] => i = j
  <2> SUFFICES ASSUME NEW i \in 1..Len(backlog'), NEW j \in 1..Len(backlog'), backlog'[i] = backlog'[j]
               PROVE  i = j
    OBVIOUS
  <2>1. i \in 1..Len(backlog) \/ i = Len(backlog) + 1
    BY <1>1, <1>3
  <2>2. j \in 1..Len(backlog) \/ j = Len(backlog) + 1
    BY <1>1, <1>3
  <2>3. \A x, y \in 1..Len(backlog) : backlog[x] = backlog[y] => x = y
    BY DEF OwnerInv, ListenTypes
  <2> QED BY <1>2, <1>3, <2>1, <2>2, <2>3
<1>5. Len(backlog') <= Backlog
  BY <1>1, <1>3, BacklogAssumption
<1>9. mpc # "gone"
  BY DEF Dial, OwnerInv, ListenTypes
<1>6. ListenTypes'
  BY <1>3, <1>4, <1>5, <1>9 DEF OwnerInv, ListenTypes, Dial
<1>7. DOMAIN backlog = 1..Len(backlog) /\ DOMAIN backlog' = 1..(Len(backlog) + 1)
  BY <1>1, <1>3, LenProperties
<1>8. ASSUME NEW d \in Client PROVE Queued(d)' <=> Queued(d) \/ d = c
  BY <1>1, <1>3, <1>7 DEF Queued, Range
<1> QED BY <1>6, <1>8

LEMMA ClientStepOwned ==
  ASSUME OwnerInv, NEW c \in Client, ClientStep(c) \/ KillClient(c), UNCHANGED serverVars
  PROVE  OwnerInv'
<1>1. ClientTypes' /\ ThreadTypes'
  BY ClientStepTypes, ThreadTypesSame DEF OwnerInv
<1>2. CASE cpc[c] = "start" /\ Dial(c)
  <2>1. ListenTypes' /\ \A d \in Client : Queued(d)' <=> Queued(d) \/ d = c
    BY <1>2, DialQueue DEF serverVars
  <2>2. \A d \in Client : Accepted(d)' <=> Accepted(d)
    BY DEF Accepted, serverVars
  <2>3. far[c] = "none" /\ hpc[c] = "none" /\ ~Queued(c) /\ ~Accepted(c)
    BY <1>2 DEF OwnerInv, Owned
  <2>4. /\ far'[c] = "open" /\ \A d \in Client \ {c} : far'[d] = far[d]
        /\ \A d \in Client : cpc'[d] = "start" => cpc[d] = "start" /\ d # c
    <3>1. far' = [far EXCEPT ![c] = "open"]
      BY <1>2 DEF Dial
    <3>2. Goto(c, "password") \/ Goto(c, "forged") \/ Goto(c, "closed")
      BY <1>2 DEF ClientStep, KillClient, Connect, SendForged, TypePassword, SendPassword,
         ReadVerdict, TypeMessage, Repeat, SendMessage, ReadAck, TypeExit, Leave
    <3> QED BY <3>1, <3>2 DEF Goto, OwnerInv, ClientTypes
  <2>5. Owned(c)'
    BY <2>1, <2>2, <2>3, <2>4 DEF Owned, Serving, serverVars, OwnerInv
  <2>6. \A d \in Client \ {c} : Owned(d)'
    BY <2>1, <2>2, <2>4, OwnedSame DEF OwnerInv, serverVars
  <2> QED BY <1>1, <2>1, <2>5, <2>6 DEF OwnerInv
<1>3. CASE ~(cpc[c] = "start" /\ Dial(c))
  <2>1. /\ UNCHANGED <<listening, backlog, far>>
        /\ \A d \in Client : cpc'[d] = "start" => cpc[d] = "start"
    BY <1>3, ClientStepKeeps DEF OwnerInv
  <2>2. ListenTypes'
    BY <2>1 DEF OwnerInv, ListenTypes, serverVars
  <2>3. \A d \in Client : (Queued(d)' <=> Queued(d)) /\ (Accepted(d)' <=> Accepted(d))
    BY <2>1 DEF Queued, Accepted, serverVars
  <2>4. \A d \in Client : Owned(d)'
    BY <2>1, <2>3, OwnedSame DEF OwnerInv, serverVars
  <2> QED BY <1>1, <2>2, <2>4 DEF OwnerInv
<1> QED BY <1>2, <1>3

-----------------------------------------------------------------------------
\* Who answers for a connection: main's steps, stop and start.
LEMMA AcceptOwned ==
  ASSUME OwnerInv, Accept, UNCHANGED clientVars
  PROVE  OwnerInv' /\ client_socket' \in Client
<1>1. /\ backlog \in Seq(Client) /\ backlog # <<>> /\ Len(backlog) \in Nat /\ Len(backlog) # 0
      /\ DOMAIN backlog = 1..Len(backlog)
  BY LenProperties, EmptySeq DEF OwnerInv, ListenTypes, Accept
<1>2. /\ backlog' \in Seq(Client) /\ Len(backlog') = Len(backlog) - 1
      /\ \A i \in 1..(Len(backlog) - 1) : backlog'[i] = backlog[i + 1]
      /\ client_socket' = backlog[1] /\ client_socket' \in Client
  BY <1>1, HeadTailProperties DEF Accept
<1>3. \A i, j \in 1..Len(backlog) : backlog[i] = backlog[j] => i = j
  BY DEF OwnerInv, ListenTypes
<1>4. \A i, j \in 1..Len(backlog') : backlog'[i] = backlog'[j] => i = j
  <2> SUFFICES ASSUME NEW i \in 1..Len(backlog'), NEW j \in 1..Len(backlog'), backlog'[i] = backlog'[j]
               PROVE  i = j
    OBVIOUS
  <2>1. i + 1 \in 1..Len(backlog) /\ j + 1 \in 1..Len(backlog) /\ backlog[i + 1] = backlog[j + 1]
    BY <1>1, <1>2
  <2> QED BY <1>3, <2>1
<1>5. Len(backlog') <= Backlog
  BY <1>1, <1>2, BacklogAssumption DEF OwnerInv, ListenTypes
<1>6. ListenTypes'
  BY <1>2, <1>4, <1>5 DEF OwnerInv, ListenTypes, Accept
<1>7. \A d \in Client : Queued(d)' <=> Queued(d) /\ d # client_socket'
  <2>1. DOMAIN backlog' = 1..(Len(backlog) - 1)
    BY <1>1, <1>2, LenProperties
  <2>2. ASSUME NEW d \in Client, Queued(d)' PROVE Queued(d) /\ d # client_socket'
    <3>1. PICK i \in 1..(Len(backlog) - 1) : d = backlog'[i]
      BY <2>1, <2>2 DEF Queued, Range
    <3>2. i + 1 \in 1..Len(backlog) /\ 1 \in 1..Len(backlog) /\ d = backlog[i + 1] /\ i + 1 # 1
      BY <1>1, <1>2, <3>1
    <3> QED BY <1>1, <1>2, <1>3, <3>2 DEF Queued, Range
  <2>3. ASSUME NEW d \in Client, Queued(d), d # client_socket' PROVE Queued(d)'
    <3>1. PICK i \in 1..Len(backlog) : d = backlog[i]
      BY <1>1, <2>3 DEF Queued, Range
    <3>2. i - 1 \in 1..(Len(backlog) - 1) /\ d = backlog'[i - 1]
      BY <1>1, <1>2, <2>3, <3>1
    <3> QED BY <2>1, <3>2 DEF Queued, Range
  <2> QED BY <2>2, <2>3
<1>8. Queued(client_socket')
  BY <1>1, <1>2 DEF Queued, Range
<1>9. \A d \in Client : ~Accepted(d) /\ (Accepted(d)' <=> d = client_socket')
  BY DEF Accepted, Accept
<1>10. ClientTypes' /\ ThreadTypes'
  BY DEF Accept, OwnerInv, ClientTypes, ThreadTypes, clientVars
<1>11. UNCHANGED <<cpc, far, hpc, worker_sock, sock, is_authenticated>>
  BY DEF Accept, clientVars
<1>12. ASSUME NEW d \in Client PROVE Owned(d)'
  <2>1. Owned(d)
    BY DEF OwnerInv
  <2>2. Queued(d)' \/ Accepted(d)' <=> Queued(d) \/ Accepted(d)
    BY <1>7, <1>8, <1>9
  <2>3. ~(Queued(d)' /\ Accepted(d)')
    BY <1>7, <1>9
  <2> QED BY <1>11, <2>1, <2>2, <2>3 DEF Owned, Serving
<1> QED BY <1>2, <1>6, <1>10, <1>12 DEF OwnerInv

LEMMA DropTypes ==
  ASSUME ClientTypes, NEW c \in Client, Drop(c), UNCHANGED <<near, down, clientVars>>
  PROVE  ClientTypes'
BY EmptySeq DEF ClientTypes, Drop, clientVars, Ends

LEMMA SpawnOwned ==
  ASSUME OwnerInv, Spawn, UNCHANGED clientVars
  PROVE  OwnerInv'
<1>0. PICK c \in Client : c = client_socket
  BY DEF OwnerInv, ListenTypes, Spawn
<1>1. c \in Client /\ hpc[c] = "none" /\ far[c] = "open" /\ ~Queued(c) /\ Accepted(c)
  BY <1>0 DEF OwnerInv, Owned, Spawn, Accepted
<1>2. ListenTypes'
  BY DEF OwnerInv, ListenTypes, Spawn
<1>3. \A d \in Client : /\ Queued(d)' <=> Queued(d)
                        /\ ~Accepted(d)' /\ (Accepted(d) <=> d = c)
  BY <1>0 DEF Queued, Accepted, Spawn
<1>6. UNCHANGED <<cpc, sock, is_authenticated>>
  BY DEF Spawn, clientVars
<1>7. \A d \in Client : Owned(d)
  BY DEF OwnerInv
<1>4. CASE Drop(c) /\ UNCHANGED <<worker_sock, hpc>>
  <2>1. ClientTypes' /\ ThreadTypes'
    BY <1>1, <1>4, DropTypes DEF OwnerInv, Spawn, ThreadTypes
  <2>2. far'[c] = "closed" /\ \A d \in Client \ {c} : far'[d] = far[d]
    BY <1>1, <1>4 DEF Drop, OwnerInv, ClientTypes
  <2>3. Owned(c)'
    BY <1>1, <1>3, <1>4, <1>6, <1>7, <2>2 DEF Owned, Serving
  <2>4. \A d \in Client \ {c} : Owned(d)'
    BY <1>3, <1>4, <1>6, <1>7, <2>2, OwnedSame
  <2> QED BY <1>2, <2>1, <2>3, <2>4 DEF OwnerInv
<1>5. CASE /\ worker_sock' = [worker_sock EXCEPT ![c] = c]
           /\ hpc' = [hpc EXCEPT ![c] = "new"]
           /\ UNCHANGED <<far, up>>
  <2>1. ClientTypes' /\ ThreadTypes'
    BY <1>1, <1>5 DEF OwnerInv, Spawn, ClientTypes, ThreadTypes, ThreadPlaces, clientVars
  <2>2. /\ hpc'[c] = "new" /\ worker_sock'[c] = c
        /\ \A d \in Client \ {c} : hpc'[d] = hpc[d] /\ worker_sock'[d] = worker_sock[d]
    BY <1>1, <1>5 DEF OwnerInv, ThreadTypes
  <2>3. Owned(c)'
    BY <1>1, <1>3, <1>5, <1>6, <1>7, <2>2 DEF Owned, Serving
  <2>4. \A d \in Client \ {c} : Owned(d)'
    BY <1>3, <1>5, <1>6, <1>7, <2>2, OwnedSame
  <2> QED BY <1>2, <2>1, <2>3, <2>4 DEF OwnerInv
<1> QED BY <1>0, <1>4, <1>5 DEF Spawn

LEMMA StopOwned ==
  ASSUME OwnerInv, StopServer, UNCHANGED clientVars
  PROVE  OwnerInv'
<1>1. ListenTypes'
  <2>1. /\ backlog' = <<>> /\ backlog' \in Seq(Client) /\ Len(backlog') = 0
        /\ \A i, j \in 1..Len(backlog') : backlog'[i] = backlog'[j] => i = j
    BY EmptySeq DEF StopServer
  <2>2. listening' = FALSE /\ mpc' = "gone"
    BY DEF StopServer
  <2>3. Len(backlog') <= Backlog
    BY <2>1, BacklogAssumption
  <2>4. listening' \in BOOLEAN /\ (listening' <=> mpc' # "gone")
    BY <2>2
  <2> QED BY <2>1, <2>2, <2>3, <2>4 DEF ListenTypes
<1>2. ClientTypes'
  <2>1. up' \in [Client -> Seq(Frames)] /\ down' \in [Client -> Seq(Replies)]
    BY EmptySeq DEF StopServer, OwnerInv, ClientTypes
  <2>2. far' \in [Client -> Ends]
    BY DEF StopServer, OwnerInv, ClientTypes, Ends
  <2> QED BY <2>1, <2>2 DEF StopServer, OwnerInv, ClientTypes, clientVars
<1>3. ThreadTypes'
  BY DEF StopServer, OwnerInv, ThreadTypes, ThreadPlaces
<1>4. ASSUME NEW d \in Client PROVE Owned(d)'
  <2>1. ~Queued(d)' /\ ~Accepted(d)'
    BY EmptySeq DEF StopServer, Queued, Accepted, Range
  <2>2. /\ hpc'[d] \in {"none", "returned"} /\ (hpc[d] = "none" => hpc'[d] = "none")
        /\ far'[d] # "open" /\ (far'[d] = "none" <=> far[d] = "none")
        /\ sock'[d] = sock[d] /\ cpc'[d] = cpc[d] /\ is_authenticated'[d] = is_authenticated[d]
    BY DEF StopServer, OwnerInv, ThreadTypes, ClientTypes, clientVars
  <2> QED BY <2>1, <2>2 DEF Owned, Serving, OwnerInv
<1> QED BY <1>1, <1>2, <1>3, <1>4 DEF OwnerInv

LEMMA RestartOwned ==
  ASSUME OwnerInv, RestartServer, UNCHANGED clientVars
  PROVE  OwnerInv'
<1>1. ListenTypes'
  BY DEF ListenTypes, RestartServer, OwnerInv
<1>2. ClientTypes' /\ ThreadTypes'
  BY DEF ClientTypes, ThreadTypes, RestartServer, OwnerInv, clientVars
<1>3. \A d \in Client : (Queued(d)' <=> Queued(d)) /\ (Accepted(d)' <=> Accepted(d))
  BY DEF Queued, Accepted, RestartServer
<1>4. \A d \in Client : Owned(d)'
  BY <1>3, OwnedSame DEF OwnerInv, RestartServer, clientVars
<1> QED BY <1>1, <1>2, <1>4 DEF OwnerInv

-----------------------------------------------------------------------------
\* A step of a thread, seen from each connection: nothing changes for the
\* others, and for its own what follows.
SameWire(d) == near'[d] = near[d] /\ far'[d] = far[d] /\ up'[d] = up[d] /\ down'[d] = down[d]
SameThread(d) ==
  /\ hpc'[d] = hpc[d] /\ sock'[d] = sock[d]
  /\ header'[d] = header[d] /\ buffer'[d] = buffer[d] /\ bytes_read'[d] = bytes_read[d]
  /\ is_authenticated'[d] = is_authenticated[d] /\ log'[d] = log[d]

Aside(t) ==
  /\ UNCHANGED <<listening, backlog, mpc, client_socket, worker_sock, clientVars>>
  /\ \A d \in Client \ {t} : SameWire(d) /\ SameThread(d)
  /\ near'[t] = near[t]

Closes(t) == hpc'[t] = "returned" /\ far'[t] = "closed" /\ up'[t] = <<>>

LEMMA ReturnEffect ==
  ASSUME OwnerInv, NEW t \in Client, Serving(t), Return(t)
  PROVE  /\ Closes(t)
         /\ \A d \in Client \ {t} : hpc'[d] = hpc[d] /\ far'[d] = far[d] /\ up'[d] = up[d]
<1>1. sock[t] = t
  BY DEF OwnerInv, Owned
<1>2. Return(t) /\ far \in [Client -> Ends] /\ up \in [Client -> Seq(Frames)] /\ hpc \in [Client -> ThreadPlaces]
  BY DEF OwnerInv, ClientTypes, ThreadTypes
<1> QED BY <1>1, <1>2 DEF Return, HGoto, Drop, Closes

LEMMA GotoEffect ==
  ASSUME OwnerInv, NEW t \in Client, NEW label, HGoto(t, label)
  PROVE  hpc'[t] = label /\ \A d \in Client \ {t} : hpc'[d] = hpc[d]
BY DEF OwnerInv, HGoto, ThreadTypes

LEMMA StartEffect ==
  ASSUME OwnerInv, NEW t \in Client, Start(t), UNCHANGED clientVars
  PROVE  /\ Aside(t) /\ hpc[t] = "new" /\ hpc'[t] = "header" /\ sock'[t] = t
         /\ SameWire(t) /\ UNCHANGED <<header, buffer, bytes_read, is_authenticated, log>>
<1>1. worker_sock[t] = t
  BY DEF OwnerInv, Owned, Start
<1> QED BY <1>1, GotoEffect DEF Start, OwnerInv, ThreadTypes, Aside, SameWire, SameThread, wire

LEMMA ReadHeaderEffect ==
  ASSUME OwnerInv, NEW t \in Client, ReadHeader(t), UNCHANGED clientVars
  PROVE  /\ Aside(t) /\ hpc[t] = "header" /\ sock[t] = t
         /\ UNCHANGED <<down, sock, buffer, bytes_read, is_authenticated, log>>
         /\ \/ /\ up[t] # <<>> /\ Head(up[t]).kind = "header" /\ header'[t] = Head(up[t])
               /\ \/ Closes(t)
                  \/ /\ ~Oversized(Head(up[t])) /\ Head(up[t]).command # "EXIT"
                     /\ hpc'[t] = "payload" /\ far'[t] = far[t] /\ up'[t] = Tail(up[t])
            \/ near[t] = "closed" /\ Closes(t) /\ header'[t] = header[t]
<1>1. hpc[t] = "header" /\ Serving(t) /\ sock[t] = t
  BY DEF OwnerInv, Owned, Serving, ReadHeader
<1>2. /\ UNCHANGED <<listening, backlog, near, down, mpc, client_socket, worker_sock, clientVars>>
      /\ UNCHANGED <<sock, buffer, bytes_read, is_authenticated, log>>
  BY DEF ReadHeader
<1>3. CASE /\ up[t] # <<>> /\ Head(up[t]).kind = "header"
           /\ header' = [header EXCEPT ![t] = Head(up[t])]
           /\ IF Head(up[t]).command = "EXIT" \/ Oversized(Head(up[t]))
                THEN Return(t)
                ELSE /\ HGoto(t, "payload") /\ UNCHANGED far
                     /\ up' = [up EXCEPT ![t] = Tail(@)]
  <2>1. header'[t] = Head(up[t]) /\ \A d \in Client \ {t} : header'[d] = header[d]
    BY <1>3 DEF OwnerInv, ThreadTypes
  <2>2. CASE Return(t)
    BY <1>1, <1>2, <1>3, <2>1, <2>2, ReturnEffect DEF Aside, SameWire, SameThread
  <2>3. CASE /\ ~Oversized(Head(up[t])) /\ Head(up[t]).command # "EXIT"
             /\ HGoto(t, "payload") /\ UNCHANGED far /\ up' = [up EXCEPT ![t] = Tail(@)]
    <3>1. up'[t] = Tail(up[t]) /\ \A d \in Client \ {t} : up'[d] = up[d]
      BY <2>3 DEF OwnerInv, ClientTypes
    <3> QED BY <1>1, <1>2, <1>3, <2>1, <2>3, <3>1, GotoEffect DEF Aside, SameWire, SameThread
  <2> QED BY <1>3, <2>2, <2>3
<1>4. CASE near[t] = "closed" /\ Return(t) /\ UNCHANGED header
  BY <1>1, <1>2, <1>4, ReturnEffect DEF Aside, SameWire, SameThread
<1> QED BY <1>1, <1>3, <1>4 DEF ReadHeader, ReadFails

LEMMA ReadPayloadEffect ==
  ASSUME OwnerInv, NEW t \in Client, ReadPayload(t), UNCHANGED clientVars
  PROVE  /\ Aside(t) /\ hpc[t] = "payload" /\ sock[t] = t
         /\ UNCHANGED <<down, sock, header, is_authenticated, log>>
         /\ \/ /\ up[t] # <<>> /\ Head(up[t]).kind = "payload" /\ buffer'[t] = Head(up[t]).of
               /\ bytes_read'[t] = header[t].payload_length
               /\ hpc'[t] = "process" /\ far'[t] = far[t] /\ up'[t] = Tail(up[t])
            \/ /\ near[t] = "closed" /\ up[t] = <<>> /\ buffer'[t] = Plain("") /\ bytes_read'[t] = 0
               /\ hpc'[t] = "process" /\ far'[t] = far[t] /\ up'[t] = up[t]
            \/ near[t] = "closed" /\ Closes(t) /\ buffer'[t] = buffer[t] /\ bytes_read'[t] = bytes_read[t]
<1>1. hpc[t] = "payload" /\ Serving(t) /\ sock[t] = t
  BY DEF OwnerInv, Owned, Serving, ReadPayload
<1>2. /\ UNCHANGED <<listening, backlog, near, down, mpc, client_socket, worker_sock, clientVars>>
      /\ UNCHANGED <<sock, header, is_authenticated, log>>
  BY DEF ReadPayload
<1>3. CASE /\ up[t] # <<>> /\ Head(up[t]).kind = "payload"
           /\ bytes_read' = [bytes_read EXCEPT ![t] = header[t].payload_length]
           /\ buffer' = [buffer EXCEPT ![t] = Head(up[t]).of]
           /\ up' = [up EXCEPT ![t] = Tail(@)]
           /\ HGoto(t, "process") /\ UNCHANGED far
  <2>1. /\ bytes_read'[t] = header[t].payload_length /\ buffer'[t] = Head(up[t]).of
        /\ up'[t] = Tail(up[t])
        /\ \A d \in Client \ {t} :
             bytes_read'[d] = bytes_read[d] /\ buffer'[d] = buffer[d] /\ up'[d] = up[d]
    BY <1>3 DEF OwnerInv, ThreadTypes, ClientTypes
  <2> QED BY <1>1, <1>2, <1>3, <2>1, GotoEffect DEF Aside, SameWire, SameThread
<1>4. CASE /\ near[t] = "closed" /\ up[t] = <<>>
           /\ bytes_read' = [bytes_read EXCEPT ![t] = 0]
           /\ buffer' = [buffer EXCEPT ![t] = Plain("")]
           /\ HGoto(t, "process") /\ UNCHANGED <<far, up>>
  <2>1. /\ bytes_read'[t] = 0 /\ buffer'[t] = Plain("")
        /\ \A d \in Client \ {t} : bytes_read'[d] = bytes_read[d] /\ buffer'[d] = buffer[d]
    BY <1>4 DEF OwnerInv, ThreadTypes
  <2> QED BY <1>1, <1>2, <1>4, <2>1, GotoEffect DEF Aside, SameWire, SameThread
<1>5. CASE near[t] = "closed" /\ Return(t) /\ UNCHANGED <<buffer, bytes_read>>
  BY <1>1, <1>2, <1>5, ReturnEffect DEF Aside, SameWire, SameThread
<1> QED BY <1>1, <1>3, <1>4, <1>5 DEF ReadPayload, ReadFails, AtEnd

LEMMA AnsweredEffect ==
  ASSUME OwnerInv, NEW t \in Client, NEW answer, down' = Answered(t, answer)
  PROVE  /\ down'[t] = IF near[t] = "open" THEN Append(down[t], answer) ELSE down[t]
         /\ \A d \in Client \ {t} : down'[d] = down[d]
BY DEF OwnerInv, ClientTypes, Answered

LEMMA AuthenticateEffect ==
  ASSUME OwnerInv, NEW t \in Client, Authenticate(t), UNCHANGED clientVars
  PROVE  /\ Aside(t) /\ hpc[t] = "process" /\ sock[t] = t /\ ~is_authenticated[t]
         /\ UNCHANGED <<sock, header, buffer, bytes_read, log>>
         /\ \/ /\ Admitted(t) /\ is_authenticated'[t] = TRUE
               /\ down'[t] = IF near[t] = "open" THEN Append(down[t], "AUTH_SUCCESS") ELSE down[t]
               /\ hpc'[t] = "header" /\ far'[t] = far[t] /\ up'[t] = up[t]
            \/ /\ ~Admitted(t) /\ is_authenticated'[t] = is_authenticated[t]
               /\ down'[t] = IF near[t] = "open" THEN Append(down[t], "AUTH_FAILED") ELSE down[t]
               /\ Closes(t)
<1>1. hpc[t] = "process" /\ Serving(t) /\ sock[t] = t /\ ~is_authenticated[t]
  BY DEF OwnerInv, Owned, Serving, Authenticate
<1>2. /\ UNCHANGED <<listening, backlog, near, mpc, client_socket, worker_sock, clientVars>>
      /\ UNCHANGED <<sock, header, buffer, bytes_read, log>>
  BY DEF Authenticate
<1>3. CASE /\ Admitted(t) /\ is_authenticated' = [is_authenticated EXCEPT ![t] = TRUE]
           /\ down' = Answered(t, "AUTH_SUCCESS")
           /\ HGoto(t, "header") /\ UNCHANGED <<far, up>>
  <2>1. /\ is_authenticated'[t] = TRUE
        /\ \A d \in Client \ {t} : is_authenticated'[d] = is_authenticated[d]
    BY <1>3 DEF OwnerInv, ThreadTypes
  <2> QED BY <1>1, <1>2, <1>3, <2>1, GotoEffect, AnsweredEffect DEF Aside, SameWire, SameThread
<1>4. CASE /\ ~Admitted(t) /\ down' = Answered(t, "AUTH_FAILED")
           /\ Return(t) /\ UNCHANGED is_authenticated
  BY <1>1, <1>2, <1>4, ReturnEffect, AnsweredEffect DEF Aside, SameWire, SameThread
<1> QED BY <1>1, <1>3, <1>4 DEF Authenticate

LEMMA ReceiveEffect ==
  ASSUME OwnerInv, NEW t \in Client, Receive(t), UNCHANGED clientVars
  PROVE  /\ Aside(t) /\ hpc[t] = "process" /\ sock[t] = t /\ is_authenticated[t]
         /\ UNCHANGED <<sock, header, buffer, bytes_read, is_authenticated>>
         /\ \/ /\ header[t].command = "MSG" /\ log'[t] = Append(log[t], LogEntry(t))
               /\ \/ /\ down'[t] = IF near[t] = "open" THEN Append(down[t], "SERVER_RECEIVED_OK")
                                                       ELSE down[t]
                     /\ hpc'[t] = "header" /\ far'[t] = far[t] /\ up'[t] = up[t]
                  \/ near[t] = "closed" /\ Closes(t) /\ down'[t] = down[t]
            \/ /\ header[t].command # "MSG" /\ hpc'[t] = "header"
               /\ SameWire(t) /\ log'[t] = log[t]
<1>1. hpc[t] = "process" /\ Serving(t) /\ sock[t] = t /\ is_authenticated[t]
  BY DEF OwnerInv, Owned, Serving, Receive
<1>2. /\ UNCHANGED <<listening, backlog, near, mpc, client_socket, worker_sock, clientVars>>
      /\ UNCHANGED <<sock, header, buffer, bytes_read, is_authenticated>>
  BY DEF Receive
<1>3. CASE /\ header[t].command = "MSG"
           /\ log' = [log EXCEPT ![t] = Append(@, LogEntry(t))]
           /\ \/ /\ down' = Answered(t, "SERVER_RECEIVED_OK")
                 /\ HGoto(t, "header") /\ UNCHANGED <<far, up>>
              \/ near[t] = "closed" /\ Return(t) /\ UNCHANGED down
  <2>1. log'[t] = Append(log[t], LogEntry(t)) /\ \A d \in Client \ {t} : log'[d] = log[d]
    BY <1>3 DEF OwnerInv, ThreadTypes
  <2>2. CASE down' = Answered(t, "SERVER_RECEIVED_OK") /\ HGoto(t, "header") /\ UNCHANGED <<far, up>>
    BY <1>1, <1>2, <1>3, <2>1, <2>2, GotoEffect, AnsweredEffect DEF Aside, SameWire, SameThread
  <2>3. CASE near[t] = "closed" /\ Return(t) /\ UNCHANGED down
    BY <1>1, <1>2, <1>3, <2>1, <2>3, ReturnEffect DEF Aside, SameWire, SameThread
  <2> QED BY <1>3, <2>2, <2>3
<1>4. CASE header[t].command # "MSG" /\ HGoto(t, "header") /\ UNCHANGED <<log, far, up, down>>
  BY <1>1, <1>2, <1>4, GotoEffect DEF Aside, SameWire, SameThread
<1> QED BY <1>1, <1>3, <1>4 DEF Receive

-----------------------------------------------------------------------------
\* Who answers for a connection: the threads' steps.
LEMMA ThreadStepOwned ==
  ASSUME OwnerInv, NEW t \in Client, hpc[t] = "new" \/ Serving(t), Aside(t),
         ClientTypes', ThreadTypes', sock'[t] = t,
         \/ hpc'[t] = "returned" /\ far'[t] = "closed"
         \/ hpc'[t] \in {"header", "payload", "process"} /\ far'[t] = far[t]
  PROVE  OwnerInv'
<1>1. ListenTypes'
  BY DEF OwnerInv, ListenTypes, Aside
<1>2. \A d \in Client : (Queued(d)' <=> Queued(d)) /\ (Accepted(d)' <=> Accepted(d))
  BY DEF Queued, Accepted, Aside
<1>3. UNCHANGED cpc /\ Owned(t)
  BY DEF Aside, clientVars, OwnerInv
<1>4. ~Queued(t) /\ ~Accepted(t) /\ far[t] = "open" /\ cpc[t] # "start"
  BY <1>3 DEF Owned, Serving
<1>5. Owned(t)'
  BY <1>2, <1>3, <1>4 DEF Owned, Serving
<1>6. ASSUME NEW d \in Client \ {t} PROVE Owned(d)'
  <2>1. /\ Owned(d) /\ UNCHANGED <<cpc, worker_sock>>
        /\ far'[d] = far[d] /\ hpc'[d] = hpc[d] /\ sock'[d] = sock[d]
        /\ is_authenticated'[d] = is_authenticated[d]
    BY DEF OwnerInv, Aside, clientVars, SameWire, SameThread
  <2> QED BY <1>2, <2>1, OwnedSame
<1> QED BY <1>1, <1>5, <1>6 DEF OwnerInv

LEMMA ReturnTypes ==
  ASSUME ClientTypes, NEW t \in Client, sock[t] = t, Return(t), UNCHANGED <<near, clientVars>>,
         down' \in [Client -> Seq(Replies)]
  PROVE  ClientTypes' /\ hpc' = [hpc EXCEPT ![t] = "returned"]
BY EmptySeq DEF ClientTypes, Return, HGoto, Drop, clientVars, Ends

LEMMA TailTypes ==
  ASSUME ClientTypes, NEW t \in Client, up[t] # <<>>
  PROVE  /\ [up EXCEPT ![t] = Tail(@)] \in [Client -> Seq(Frames)]
         /\ Head(up[t]) \in Frames
BY HeadTailProperties DEF ClientTypes

LEMMA StartOwned ==
  ASSUME OwnerInv, NEW t \in Client, Start(t), UNCHANGED clientVars
  PROVE  OwnerInv'
<1>1. /\ Aside(t) /\ hpc[t] = "new" /\ hpc'[t] = "header" /\ sock'[t] = t /\ far'[t] = far[t]
  BY StartEffect DEF SameWire
<1>2. ClientTypes'
  BY DEF Start, OwnerInv, ClientTypes, wire, clientVars
<1>3. ThreadTypes'
  BY DEF Start, HGoto, OwnerInv, ThreadTypes, ThreadPlaces
<1> QED BY <1>1, <1>2, <1>3, ThreadStepOwned

LEMMA ReadHeaderOwned ==
  ASSUME OwnerInv, NEW t \in Client, ReadHeader(t), UNCHANGED clientVars
  PROVE  OwnerInv'
<1>1. /\ Aside(t) /\ hpc[t] = "header" /\ sock[t] = t /\ sock' = sock
      /\ \/ hpc'[t] = "returned" /\ far'[t] = "closed"
         \/ hpc'[t] = "payload" /\ far'[t] = far[t]
  BY ReadHeaderEffect DEF Closes
<1>2. UNCHANGED <<near, down, sock, worker_sock, buffer, bytes_read, is_authenticated, log>>
  BY DEF ReadHeader
<1>3. down' \in [Client -> Seq(Replies)]
  BY <1>2 DEF OwnerInv, ClientTypes
<1>4. CASE Return(t) /\ UNCHANGED header
  <2>1. ClientTypes' /\ hpc' = [hpc EXCEPT ![t] = "returned"]
    BY <1>1, <1>2, <1>3, <1>4, ReturnTypes DEF OwnerInv
  <2>2. ThreadTypes'
    BY <1>2, <1>4, <2>1 DEF OwnerInv, ThreadTypes, ThreadPlaces
  <2> QED BY <1>1, <2>1, <2>2, ThreadStepOwned DEF Serving
<1>5. CASE /\ up[t] # <<>> /\ Head(up[t]).kind = "header"
           /\ header' = [header EXCEPT ![t] = Head(up[t])]
           /\ \/ Return(t)
              \/ /\ ~Oversized(Head(up[t]))
                 /\ HGoto(t, "payload") /\ UNCHANGED far
                 /\ up' = [up EXCEPT ![t] = Tail(@)]
  <2>1. Head(up[t]) \in Headers /\ header' \in [Client -> Headers]
    BY <1>5, TailTypes, FrameTypes DEF OwnerInv, ThreadTypes
  <2>2. CASE Return(t)
    <3>1. ClientTypes' /\ hpc' = [hpc EXCEPT ![t] = "returned"]
      BY <1>1, <1>2, <1>3, <2>2, ReturnTypes DEF OwnerInv
    <3>2. ThreadTypes'
      BY <1>2, <1>5, <2>1, <3>1 DEF OwnerInv, ThreadTypes, ThreadPlaces
    <3> QED BY <1>1, <3>1, <3>2, ThreadStepOwned DEF Serving
  <2>3. CASE /\ ~Oversized(Head(up[t]))
             /\ HGoto(t, "payload") /\ UNCHANGED far
             /\ up' = [up EXCEPT ![t] = Tail(@)]
    <3>1. up' \in [Client -> Seq(Frames)]
      BY <1>5, <2>3, TailTypes DEF OwnerInv
    <3>2. ClientTypes'
      BY <1>2, <2>3, <3>1 DEF OwnerInv, ClientTypes, clientVars
    <3>3. Head(up[t]).payload_length < BUFFER_SIZE
      BY <2>1, <2>3, FrameTypes, SizeAssumption DEF Oversized
    <3>4. ThreadTypes'
      BY <1>2, <1>5, <2>1, <2>3, <3>3 DEF OwnerInv, ThreadTypes, ThreadPlaces, HGoto
    <3> QED BY <1>1, <3>2, <3>4, ThreadStepOwned DEF Serving
  <2> QED BY <1>5, <2>2, <2>3
<1> QED BY <1>1, <1>4, <1>5 DEF ReadHeader

LEMMA ReadPayloadOwned ==
  ASSUME OwnerInv, NEW t \in Client, ReadPayload(t), UNCHANGED clientVars
  PROVE  OwnerInv'
<1>1. /\ Aside(t) /\ hpc[t] = "payload" /\ sock[t] = t /\ sock' = sock
      /\ \/ hpc'[t] = "returned" /\ far'[t] = "closed"
         \/ hpc'[t] = "process" /\ far'[t] = far[t]
  BY ReadPayloadEffect DEF Closes
<1>2. UNCHANGED <<near, down, sock, worker_sock, header, is_authenticated, log>>
  BY DEF ReadPayload
<1>3. down' \in [Client -> Seq(Replies)]
  BY <1>2 DEF OwnerInv, ClientTypes
<1>4. CASE Return(t) /\ UNCHANGED <<buffer, bytes_read>>
  <2>1. ClientTypes' /\ hpc' = [hpc EXCEPT ![t] = "returned"]
    BY <1>1, <1>2, <1>3, <1>4, ReturnTypes DEF OwnerInv
  <2>2. ThreadTypes'
    BY <1>2, <1>4, <2>1 DEF OwnerInv, ThreadTypes, ThreadPlaces
  <2> QED BY <1>1, <2>1, <2>2, ThreadStepOwned DEF Serving
<1>5. CASE /\ up[t] # <<>> /\ Head(up[t]).kind = "payload"
           /\ bytes_read' = [bytes_read EXCEPT ![t] = header[t].payload_length]
           /\ buffer' = [buffer EXCEPT ![t] = Head(up[t]).of]
           /\ up' = [up EXCEPT ![t] = Tail(@)]
           /\ HGoto(t, "process") /\ UNCHANGED far
  <2>1. up' \in [Client -> Seq(Frames)] /\ Head(up[t]).of \in Contents
    BY <1>5, TailTypes, FrameTypes DEF OwnerInv
  <2>2. ClientTypes'
    BY <1>2, <1>5, <2>1 DEF OwnerInv, ClientTypes, clientVars
  <2>3. header[t].payload_length \in 0..(BUFFER_SIZE - 1)
    <3>1. header[t] \in Headers /\ header[t].payload_length < BUFFER_SIZE
      BY <1>1 DEF OwnerInv, ThreadTypes
    <3> QED BY <3>1, FrameTypes, SizeAssumption
  <2>4. ThreadTypes'
    BY <1>2, <1>5, <2>1, <2>3 DEF OwnerInv, ThreadTypes, ThreadPlaces, HGoto
  <2> QED BY <1>1, <2>2, <2>4, ThreadStepOwned DEF Serving
<1>6. CASE /\ bytes_read' = [bytes_read EXCEPT ![t] = 0]
           /\ buffer' = [buffer EXCEPT ![t] = Plain("")]
           /\ HGoto(t, "process") /\ UNCHANGED <<far, up>>
  <2>1. ClientTypes'
    BY <1>2, <1>6 DEF OwnerInv, ClientTypes, clientVars
  <2>2. 0 \in 0..(BUFFER_SIZE - 1)
    BY SizeAssumption
  <2>3. ThreadTypes'
    BY <1>2, <1>6, <2>2, ContentTypes DEF OwnerInv, ThreadTypes, ThreadPlaces, HGoto
  <2> QED BY <1>1, <2>1, <2>3, ThreadStepOwned DEF Serving
<1> QED BY <1>1, <1>4, <1>5, <1>6 DEF ReadPayload

LEMMA AuthenticateOwned ==
  ASSUME OwnerInv, NEW t \in Client, Authenticate(t), UNCHANGED clientVars
  PROVE  OwnerInv'
<1>1. /\ Aside(t) /\ hpc[t] = "process" /\ sock[t] = t /\ sock' = sock
      /\ \/ hpc'[t] = "returned" /\ far'[t] = "closed"
         \/ hpc'[t] = "header" /\ far'[t] = far[t]
  BY AuthenticateEffect DEF Closes
<1>2. UNCHANGED <<near, sock, worker_sock, header, buffer, bytes_read, log>>
  BY DEF Authenticate
<1>3. down' \in [Client -> Seq(Replies)]
  <2>1. \A answer \in Replies : Answered(t, answer) \in [Client -> Seq(Replies)]
    BY AnsweredType DEF OwnerInv, ClientTypes
  <2>2. down' = Answered(t, "AUTH_SUCCESS") \/ down' = Answered(t, "AUTH_FAILED")
    BY <1>1 DEF Authenticate
  <2> QED BY <2>1, <2>2 DEF Replies
<1>4. CASE Return(t) /\ UNCHANGED is_authenticated
  <2>1. ClientTypes' /\ hpc' = [hpc EXCEPT ![t] = "returned"]
    BY <1>1, <1>2, <1>3, <1>4, ReturnTypes DEF OwnerInv
  <2>2. ThreadTypes'
    BY <1>2, <1>4, <2>1 DEF OwnerInv, ThreadTypes, ThreadPlaces
  <2> QED BY <1>1, <2>1, <2>2, ThreadStepOwned DEF Serving
<1>5. CASE /\ is_authenticated' = [is_authenticated EXCEPT ![t] = TRUE]
           /\ HGoto(t, "header") /\ UNCHANGED <<far, up>>
  <2>1. ClientTypes'
    BY <1>2, <1>3, <1>5 DEF OwnerInv, ClientTypes, clientVars
  <2>2. ThreadTypes'
    BY <1>2, <1>5 DEF OwnerInv, ThreadTypes, ThreadPlaces, HGoto
  <2> QED BY <1>1, <2>1, <2>2, ThreadStepOwned DEF Serving
<1> QED BY <1>1, <1>4, <1>5 DEF Authenticate

LEMMA ReceiveOwned ==
  ASSUME OwnerInv, NEW t \in Client, Receive(t), UNCHANGED clientVars
  PROVE  OwnerInv'
<1>1. /\ Aside(t) /\ hpc[t] = "process" /\ sock[t] = t /\ sock' = sock
      /\ \/ hpc'[t] = "returned" /\ far'[t] = "closed"
         \/ hpc'[t] = "header" /\ far'[t] = far[t]
  BY ReceiveEffect DEF Closes, SameWire
<1>2. UNCHANGED <<near, sock, worker_sock, header, buffer, bytes_read, is_authenticated>>
  BY DEF Receive
<1>3. down' \in [Client -> Seq(Replies)]
  <2>1. \A answer \in Replies : Answered(t, answer) \in [Client -> Seq(Replies)]
    BY AnsweredType DEF OwnerInv, ClientTypes
  <2>2. down' = Answered(t, "SERVER_RECEIVED_OK") \/ down' = down
    BY <1>1 DEF Receive
  <2> QED BY <2>1, <2>2 DEF Replies, OwnerInv, ClientTypes
<1>4. log' \in [Client -> Seq(Contents)]
  <2>1. LogEntry(t) \in Contents
    BY ContentTypes DEF LogEntry, Decrypted, OwnerInv, ThreadTypes
  <2>2. Append(log[t], LogEntry(t)) \in Seq(Contents)
    BY <2>1, AppendProperties DEF OwnerInv, ThreadTypes
  <2>3. log' = [log EXCEPT ![t] = Append(log[t], LogEntry(t))] \/ log' = log
    BY <1>1 DEF Receive
  <2> QED BY <2>2, <2>3 DEF OwnerInv, ThreadTypes
<1>5. CASE Return(t)
  <2>1. ClientTypes' /\ hpc' = [hpc EXCEPT ![t] = "returned"]
    BY <1>1, <1>2, <1>3, <1>5, ReturnTypes DEF OwnerInv
  <2>2. ThreadTypes'
    BY <1>2, <1>4, <2>1 DEF OwnerInv, ThreadTypes, ThreadPlaces
  <2> QED BY <1>1, <2>1, <2>2, ThreadStepOwned DEF Serving
<1>6. CASE HGoto(t, "header") /\ UNCHANGED <<far, up>>
  <2>1. ClientTypes'
    BY <1>2, <1>3, <1>6 DEF OwnerInv, ClientTypes, clientVars
  <2>2. ThreadTypes'
    BY <1>2, <1>4, <1>6 DEF OwnerInv, ThreadTypes, ThreadPlaces, HGoto
  <2> QED BY <1>1, <2>1, <2>2, ThreadStepOwned DEF Serving
<1> QED BY <1>1, <1>5, <1>6 DEF Receive

LEMMA NextOwned == OwnerInv /\ [Next]_vars => OwnerInv'
<1> SUFFICES ASSUME OwnerInv, [Next]_vars PROVE OwnerInv'
  OBVIOUS
<1>1. ASSUME NEW c \in Client, (ClientStep(c) \/ KillClient(c)) /\ UNCHANGED serverVars PROVE OwnerInv'
  BY <1>1, ClientStepOwned
<1>2. CASE Main /\ UNCHANGED clientVars
  BY <1>2, AcceptOwned, SpawnOwned DEF Main
<1>3. ASSUME NEW t \in Client, client_handler(t) /\ UNCHANGED clientVars PROVE OwnerInv'
  BY <1>3, StartOwned, ReadHeaderOwned, ReadPayloadOwned, AuthenticateOwned, ReceiveOwned
  DEF client_handler
<1>4. CASE (StopServer \/ RestartServer) /\ UNCHANGED clientVars
  BY <1>4, StopOwned, RestartOwned
<1>5. CASE UNCHANGED vars
  <2>1. UNCHANGED <<wire, clientVars, serverVars>>
    BY <1>5 DEF vars
  <2>2. ListenTypes'
    BY <2>1 DEF wire, serverVars, OwnerInv, ListenTypes
  <2>3. ClientTypes'
    BY <2>1 DEF wire, clientVars, OwnerInv, ClientTypes
  <2>4. ThreadTypes'
    BY <2>1, ThreadTypesSame DEF OwnerInv
  <2>5. \A d \in Client : (Queued(d)' <=> Queued(d)) /\ (Accepted(d)' <=> Accepted(d))
    BY <2>1 DEF wire, serverVars, Queued, Accepted
  <2>6. \A d \in Client : Owned(d)'
    BY <2>1, <2>5, OwnedSame DEF OwnerInv, wire, clientVars, serverVars
  <2> QED BY <2>2, <2>3, <2>4, <2>6 DEF OwnerInv
<1> QED BY <1>1, <1>2, <1>3, <1>4, <1>5 DEF Next, Idle

LEMMA InitOwned == Init => OwnerInv
<1> SUFFICES ASSUME Init PROVE OwnerInv
  OBVIOUS
<1>1. ListenTypes
  <2>1. backlog = <<>> /\ listening = TRUE /\ mpc = "accept"
    BY DEF Init, WireInit, ServerInit
  <2>2. /\ backlog \in Seq(Client) /\ Len(backlog) = 0
        /\ \A i, j \in 1..Len(backlog) : backlog[i] = backlog[j] => i = j
    BY <2>1, EmptySeq
  <2>3. Len(backlog) <= Backlog
    BY <2>2, BacklogAssumption
  <2> QED BY <2>1, <2>2, <2>3 DEF ListenTypes
<1>2. ClientTypes
  <2>1. /\ near \in [Client -> Ends] /\ far \in [Client -> Ends]
        /\ up \in [Client -> Seq(Frames)] /\ down \in [Client -> Seq(Replies)]
    BY EmptySeq DEF Init, WireInit, Ends
  <2>2. /\ cpc \in [Client -> ClientPlaces] /\ \A c \in Client : cpc[c] \notin Said
        /\ message \in [Client -> Contents] /\ secret \in [Client -> Text \union {""}]
        /\ typed \in [Client -> Seq(Spoken)]
    BY EmptySeq, ContentTypes DEF Init, ClientInit, ClientPlaces, Said
  <2> QED BY <2>1, <2>2 DEF ClientTypes
<1>3. ThreadTypes
  <2>1. 0 \in 0..(BUFFER_SIZE - 1)
    BY SizeAssumption
  <2> QED BY <2>1, EmptySeq, ContentTypes, FrameTypes DEF Init, ServerInit, ThreadTypes, ThreadPlaces
<1>4. \A c \in Client : ~Queued(c) /\ ~Accepted(c)
  <2>1. backlog = <<>> /\ mpc = "accept"
    BY DEF Init, WireInit, ServerInit
  <2> QED BY <2>1 DEF Queued, Accepted, Range
<1>5. ASSUME NEW c \in Client PROVE Owned(c)
  <2>1. /\ hpc[c] = "none" /\ is_authenticated[c] = FALSE /\ cpc[c] = "start" /\ far[c] = "none"
    BY DEF Init, WireInit, ClientInit, ServerInit
  <2> QED BY <1>4, <2>1 DEF Owned, Serving
<1> QED BY <1>1, <1>2, <1>3, <1>5 DEF OwnerInv

LEMMA OwnerInvariance == Spec => []OwnerInv
<1> QED BY InitOwned, NextOwned, PTL DEF Spec

(* Whatever the number of clients and restarts, every variable keeps its     *)
(* type, and bytes_read stays below the size of the buffer it indexes, since *)
(* the length in the header is tested before the payload is read             *)
(* (server.c:55, 70).                                                        *)
THEOREM Typing == Spec => []TypeOK
<1>1. OwnerInv => TypeOK
  <2> SUFFICES ASSUME OwnerInv PROVE TypeOK
    OBVIOUS
  <2>1. Len(backlog) \in 0..Backlog /\ \A i \in DOMAIN backlog : backlog[i] \in Client
    BY LenProperties, BacklogAssumption DEF OwnerInv, ListenTypes
  <2>2. \A t \in Client : hpc[t] = "payload" => header[t].payload_length \in 0..(BUFFER_SIZE - 1)
    BY FrameTypes, SizeAssumption DEF OwnerInv, ThreadTypes
  <2>3. listening \in BOOLEAN /\ mpc \in {"accept", "spawn", "gone"}
    BY DEF OwnerInv, ListenTypes
  <2> QED BY <2>1, <2>2, <2>3 DEF OwnerInv, ClientTypes, ThreadTypes, TypeOK, Ends, ClientPlaces, ThreadPlaces
<1> QED BY <1>1, OwnerInvariance, PTL

(* For any number of clients: whether threads can be created or not, and     *)
(* whoever is killed and started again, a connection that is open at the     *)
(* server's end is in the listen queue, with main, or with one thread, and   *)
(* no other connection is with any of them (server.c:30, 111, 185-205).      *)
THEOREM Ownership == Spec => []OneOwnerPerConnection
<1>1. OwnerInv => OneOwnerPerConnection
  <2> SUFFICES ASSUME OwnerInv, NEW c \in Client
               PROVE  /\ far[c] = "open" <=> Queued(c) \/ Accepted(c) \/ \E t \in Client : Serves(t, c)
                      /\ ~(Queued(c) /\ Accepted(c))
                      /\ \A t \in Client : Serves(t, c) => ~Queued(c) /\ ~Accepted(c)
                      /\ \A t, u \in Client : Serves(t, c) /\ Serves(u, c) => t = u
    BY DEF OneOwnerPerConnection
  <2>1. \A d \in Client : Owned(d)
    BY DEF OwnerInv
  <2>2. \A t \in Client : Serves(t, c) <=> t = c /\ (hpc[c] = "new" \/ Serving(c))
    BY <2>1 DEF Owned, Serves
  <2> QED BY <2>1, <2>2 DEF Owned, Serving
<1> QED BY <1>1, OwnerInvariance, PTL

-----------------------------------------------------------------------------
\* The command of the frame that is due on a connection.
Due(c) == Header(IF is_authenticated[c] THEN "MSG" ELSE "AUTH", Size)

\* How far a frame has come: nothing is due, its header is, both parts are.
AtHeader(c) == hpc[c] \in {"none", "new", "header"}
AtPayload(c) == hpc[c] = "payload" /\ header[c] = Due(c)
Quiet(c) == AtHeader(c) /\ up[c] = <<>>
HeadSent(c) ==
  \/ AtHeader(c) /\ up[c] = <<Due(c)>>
  \/ AtPayload(c) /\ up[c] = <<>>
BodySent(c) ==
  \/ AtHeader(c) /\ up[c] = <<Due(c), Body(message[c])>>
  \/ AtPayload(c) /\ up[c] = <<Body(message[c])>>
  \/ /\ hpc[c] = "process" /\ header[c] = Due(c) /\ up[c] = <<>>
     /\ buffer[c] = message[c] /\ bytes_read[c] = Size
BodyLost(c) ==
  /\ hpc[c] = "process" /\ header[c] = Due(c) /\ up[c] = <<>>
  /\ buffer[c] = Plain("") /\ bytes_read[c] = 0

\* How log and input compare: nothing said, all printed, all but the last,
\* and all but the last with an empty entry in its place.
Silent(c) == ~is_authenticated[c] /\ typed[c] = <<>> /\ log[c] = <<>>
Settled(c) == is_authenticated[c] /\ log[c] = typed[c]
Pending(c) == is_authenticated[c] /\ typed[c] = Append(log[c], custom_crypt(message[c]))
Aborted(c) ==
  /\ is_authenticated[c] /\ log[c] # <<>> /\ Last(log[c]).text = ""
  /\ typed[c] = Append(Front(log[c]), custom_crypt(message[c]))
Introduced(c) == secret[c] \in Text /\ message[c] = custom_crypt(Plain(secret[c]))

\* A connection with both ends open, by the place of its client.
Talking(c) ==
  /\ cpc[c] \in {"password", "forged"} => Quiet(c) /\ Silent(c) /\ secret[c] = "" /\ down[c] = <<>>
  /\ cpc[c] = "authBody" => HeadSent(c) /\ Silent(c) /\ Introduced(c) /\ down[c] = <<>>
  /\ cpc[c] = "authReply" =>
       \/ BodySent(c) /\ Silent(c) /\ Introduced(c) /\ down[c] = <<>>
       \/ Quiet(c) /\ Settled(c) /\ typed[c] = <<>> /\ down[c] = <<"AUTH_SUCCESS">>
  /\ cpc[c] = "prompt" => Quiet(c) /\ Settled(c) /\ down[c] = <<>>
  /\ cpc[c] = "body" => HeadSent(c) /\ Pending(c) /\ down[c] = <<>>
  /\ cpc[c] = "ack" =>
       \/ BodySent(c) /\ Pending(c) /\ down[c] = <<>>
       \/ Quiet(c) /\ Settled(c) /\ down[c] = <<"SERVER_RECEIVED_OK">>

\* What a client that leaves may leave behind for the thread to work off.
Residue(c) ==
  \/ Quiet(c) /\ (Silent(c) \/ Settled(c) \/ Aborted(c))
  \/ /\ AtHeader(c) /\ (Silent(c) \/ Settled(c))
     /\ up[c] \in {<<Header("EXIT", 0)>>, <<Header("MSG", BUFFER_SIZE)>>}
  \/ /\ HeadSent(c) \/ BodySent(c) \/ BodyLost(c)
     /\ Pending(c) \/ (Silent(c) /\ Introduced(c))
Parting(c) == cpc[c] = "closed" /\ down[c] = <<>> /\ Residue(c)

\* The server has closed, and the client has yet to notice.
Dropped(c) ==
  /\ up[c] = <<>>
  /\ cpc[c] \in {"password", "forged"} => Silent(c) /\ secret[c] = "" /\ down[c] = <<>>
  /\ cpc[c] = "authBody" => Silent(c) /\ secret[c] \in Text /\ down[c] = <<>>
  /\ cpc[c] = "authReply" =>
       \/ Silent(c) /\ secret[c] \in Text /\ down[c] # <<"AUTH_SUCCESS">>
       \/ Settled(c) /\ typed[c] = <<>>
  /\ cpc[c] = "prompt" => Settled(c) /\ down[c] = <<>>
  /\ cpc[c] = "body" => Pending(c) /\ down[c] = <<>>
  /\ cpc[c] = "ack" => (Pending(c) /\ down[c] = <<>>) \/ Settled(c)
  /\ cpc[c] = "closed" => Silent(c) \/ Settled(c) \/ Pending(c) \/ Aborted(c)

Session(c) ==
  /\ near[c] = "none" <=> far[c] = "none"
  /\ near[c] = "open" => cpc[c] \notin {"start", "closed"}
  /\ near[c] = "closed" => cpc[c] = "closed"
  /\ far[c] = "none" => cpc[c] \in {"start", "closed"} /\ Silent(c) /\ secret[c] = "" /\ up[c] = <<>> /\ down[c] = <<>>
  /\ far[c] = "open" /\ near[c] = "open" => Talking(c)
  /\ far[c] = "open" /\ near[c] = "closed" => Parting(c)
  /\ far[c] = "closed" => Dropped(c)
  /\ is_authenticated[c] => secret[c] = Password

Sessions == \A c \in Client : Session(c)

-----------------------------------------------------------------------------
\* Short sequences, and the last entry of a longer one.
LEMMA ShortSequences ==
  ASSUME NEW a, NEW b
  PROVE  /\ <<a>> # <<>> /\ Head(<<a>>) = a /\ Tail(<<a>>) = <<>>
         /\ <<a, b>> # <<>> /\ Head(<<a, b>>) = a /\ Tail(<<a, b>>) = <<b>>
         /\ <<>> \o <<a>> = <<a>> /\ Append(<<>>, a) = <<a>>
         /\ <<a>> \o <<b>> = <<a, b>>
<1>1. <<a>> # <<>> /\ <<a, b>> # <<>>
  OBVIOUS
<1>2. Head(<<a>>) = a /\ Head(<<a, b>>) = a
  OBVIOUS
<1>3. Tail(<<a>>) = <<>>
  OBVIOUS
<1>4. Tail(<<a, b>>) = <<b>>
  OBVIOUS
<1>5. <<>> \o <<a>> = <<a>>
  OBVIOUS
<1>6. Append(<<>>, a) = <<a>>
  OBVIOUS
<1>7. <<a>> \o <<b>> = <<a, b>>
  <2>1. <<a>> \in Seq({a, b}) /\ <<b>> \in Seq({a, b}) /\ <<a, b>> \in Seq({a, b})
    OBVIOUS
  <2>2. Len(<<a>>) = 1 /\ Len(<<b>>) = 1 /\ Len(<<a, b>>) = 2
    OBVIOUS
  <2>3. /\ <<a>> \o <<b>> \in Seq({a, b}) /\ Len(<<a>> \o <<b>>) = 2
        /\ (<<a>> \o <<b>>)[1] = a /\ (<<a>> \o <<b>>)[2] = b
    BY <2>1, <2>2, ConcatProperties
  <2>4. \A i \in 1..2 : (<<a>> \o <<b>>)[i] = <<a, b>>[i]
    BY <2>3
  <2> QED BY <2>1, <2>2, <2>3, <2>4, SeqEqual
<1> QED BY <1>1, <1>2, <1>3, <1>4, <1>5, <1>6, <1>7

LEMMA LastEntry ==
  ASSUME NEW S, NEW s \in Seq(S), NEW e \in S
  PROVE  /\ Append(s, e) # <<>> /\ Last(Append(s, e)) = e /\ Front(Append(s, e)) = s
<1>1. /\ Append(s, e) \in Seq(S) /\ Len(Append(s, e)) = Len(s) + 1 /\ Len(s) \in Nat
      /\ Append(s, e)[Len(s) + 1] = e
      /\ \A i \in 1..Len(s) : Append(s, e)[i] = s[i]
  BY AppendProperties, LenProperties
<1>2. /\ Front(Append(s, e)) \in Seq(S) /\ Len(Front(Append(s, e))) = Len(s)
      /\ \A i \in 1..Len(s) : Front(Append(s, e))[i] = Append(s, e)[i]
  <2>1. \A i \in 1..Len(s) : Append(s, e)[i] \in S
    BY <1>1, ElementOfSeq
  <2>2. Front(Append(s, e)) = SubSeq(Append(s, e), 1, Len(s))
    BY <1>1 DEF Front
  <2> QED BY <1>1, <2>1, <2>2, SubSeqProperties
<1>3. Front(Append(s, e)) = s
  BY <1>1, <1>2, SeqEqual
<1>4. Append(s, e) # <<>>
  BY <1>1, EmptySeq
<1> QED BY <1>1, <1>3, <1>4 DEF Last

-----------------------------------------------------------------------------
\* What a step leaves alone, connection by connection.
SameTalk(d) ==
  cpc'[d] = cpc[d] /\ message'[d] = message[d] /\ secret'[d] = secret[d] /\ typed'[d] = typed[d]
SameMemory(d) ==
  /\ header'[d] = header[d] /\ buffer'[d] = buffer[d] /\ bytes_read'[d] = bytes_read[d]
  /\ is_authenticated'[d] = is_authenticated[d] /\ log'[d] = log[d]
SamePlace(d) == hpc'[d] = hpc[d] \/ (AtHeader(d) /\ AtHeader(d)')

LEMMA SamePlaces ==
  ASSUME NEW d \in Client, SameMemory(d), SamePlace(d)
  PROVE  /\ Due(d)' = Due(d) /\ (AtHeader(d)' <=> AtHeader(d)) /\ (AtPayload(d)' <=> AtPayload(d))
         /\ hpc'[d] = "process" <=> hpc[d] = "process"
<1>1. Due(d)' = Due(d)
  BY DEF SameMemory, Due
<1> QED BY <1>1 DEF SameMemory, SamePlace, AtHeader, AtPayload

LEMMA SameFrames ==
  ASSUME NEW d \in Client, SameMemory(d), SamePlace(d), up'[d] = up[d], message'[d] = message[d]
  PROVE  /\ Quiet(d)' <=> Quiet(d)
         /\ HeadSent(d)' <=> HeadSent(d)
         /\ BodySent(d)' <=> BodySent(d)
         /\ BodyLost(d)' <=> BodyLost(d)
<1>1. /\ Due(d)' = Due(d) /\ (AtHeader(d)' <=> AtHeader(d)) /\ (AtPayload(d)' <=> AtPayload(d))
      /\ hpc'[d] = "process" <=> hpc[d] = "process"
  BY SamePlaces
<1> QED BY <1>1 DEF SameMemory, Quiet, HeadSent, BodySent, BodyLost

LEMMA SameWords ==
  ASSUME NEW d \in Client, is_authenticated'[d] = is_authenticated[d], log'[d] = log[d],
         typed'[d] = typed[d], message'[d] = message[d], secret'[d] = secret[d]
  PROVE  /\ Silent(d)' <=> Silent(d)
         /\ Settled(d)' <=> Settled(d)
         /\ Pending(d)' <=> Pending(d)
         /\ Aborted(d)' <=> Aborted(d)
         /\ Introduced(d)' <=> Introduced(d)
BY DEF Silent, Settled, Pending, Aborted, Introduced

LEMMA SessionSame ==
  ASSUME NEW d \in Client, Session(d), SameWire(d), SameTalk(d), SameMemory(d), SamePlace(d)
  PROVE  Session(d)'
<1>1. /\ Quiet(d)' <=> Quiet(d)
      /\ HeadSent(d)' <=> HeadSent(d)
      /\ BodySent(d)' <=> BodySent(d)
      /\ BodyLost(d)' <=> BodyLost(d)
      /\ AtHeader(d)' <=> AtHeader(d)
  BY SameFrames, SamePlaces DEF SameWire, SameTalk
<1>2. /\ Silent(d)' <=> Silent(d)
      /\ Settled(d)' <=> Settled(d)
      /\ Pending(d)' <=> Pending(d)
      /\ Aborted(d)' <=> Aborted(d)
      /\ Introduced(d)' <=> Introduced(d)
  BY SameWords DEF SameTalk, SameMemory
<1>3. Talking(d) => Talking(d)'
  BY <1>1, <1>2 DEF Talking, SameWire, SameTalk
<1>4. Parting(d) => Parting(d)'
  BY <1>1, <1>2 DEF Parting, Residue, SameWire, SameTalk
<1>5. Dropped(d) => Dropped(d)'
  BY <1>1, <1>2 DEF Dropped, SameWire, SameTalk
<1> QED BY <1>2, <1>3, <1>4, <1>5 DEF Session, SameWire, SameTalk, SameMemory

\* A client between connect() and close().
LEMMA Connected ==
  ASSUME NEW c \in Client, OwnerInv, Session(c), cpc[c] \notin {"start", "closed"}
  PROVE  near[c] = "open" /\ \/ far[c] = "open" /\ Talking(c)
                             \/ far[c] = "closed" /\ Dropped(c)
<1>1. near[c] \in Ends /\ far[c] \in Ends
  BY DEF OwnerInv, ClientTypes
<1> QED BY <1>1 DEF Session, Ends

-----------------------------------------------------------------------------
\* The client's steps.
Left(c) == cpc'[c] = "closed" /\ near'[c] = "closed" /\ far'[c] = far[c] /\ down'[c] = <<>>

LEMMA LeaveEffect ==
  ASSUME OwnerInv, NEW c \in Client, Leave(c)
  PROVE  /\ Left(c) /\ up' = up
         /\ \A d \in Client \ {c} : SameWire(d) /\ cpc'[d] = cpc[d]
BY DEF OwnerInv, ClientTypes, Leave, Goto, HangUp, Left, SameWire

LEMMA SendEffect ==
  ASSUME OwnerInv, NEW c \in Client, NEW items, NEW label, SendAnd(c, items, label)
  PROVE  /\ \/ /\ cpc'[c] = label /\ near'[c] = near[c] /\ far'[c] = far[c] /\ down'[c] = down[c]
               /\ up'[c] = IF far[c] = "open" THEN up[c] \o items ELSE up[c]
            \/ far[c] = "closed" /\ Left(c) /\ up'[c] = up[c]
         /\ \A d \in Client \ {c} : SameWire(d) /\ cpc'[d] = cpc[d]
<1>1. CASE up' = Sent(c, items) /\ Goto(c, label) /\ UNCHANGED <<near, far, down>>
  <2>1. cpc'[c] = label /\ \A d \in Client \ {c} : cpc'[d] = cpc[d]
    BY <1>1 DEF OwnerInv, ClientTypes, Goto
  <2>2. /\ up'[c] = IF far[c] = "open" THEN up[c] \o items ELSE up[c]
        /\ \A d \in Client \ {c} : up'[d] = up[d]
    BY <1>1 DEF OwnerInv, ClientTypes, Sent
  <2> QED BY <1>1, <2>1, <2>2 DEF SameWire
<1>2. CASE far[c] = "closed" /\ Leave(c)
  BY <1>2, LeaveEffect
<1> QED BY <1>1, <1>2 DEF SendAnd

\* What a client that may leave leaves behind: the part of Session that is
\* about the frames between them, then that about what was said.
LEMMA LeaveSession ==
  ASSUME NEW c \in Client, OwnerInv, Session(c), cpc[c] \notin {"start", "closed"},
         Left(c), up'[c] = up[c], SameMemory(c), SamePlace(c),
         message'[c] = message[c], secret'[c] = secret[c], typed'[c] = typed[c]
  PROVE  Session(c)'
<1>1. cpc[c] \in ClientPlaces \ {"start", "closed"}
  BY DEF OwnerInv, ClientTypes
<1>2. /\ Quiet(c)' <=> Quiet(c)
      /\ HeadSent(c)' <=> HeadSent(c)
      /\ BodySent(c)' <=> BodySent(c)
      /\ BodyLost(c)' <=> BodyLost(c)
      /\ AtHeader(c)' <=> AtHeader(c)
  BY SameFrames, SamePlaces
<1>3. /\ Silent(c)' <=> Silent(c)
      /\ Settled(c)' <=> Settled(c)
      /\ Pending(c)' <=> Pending(c)
      /\ Aborted(c)' <=> Aborted(c)
      /\ Introduced(c)' <=> Introduced(c)
  BY SameWords DEF SameMemory
<1>4. CASE far[c] = "open" /\ Talking(c)
  <2>1. Residue(c)
    BY <1>1, <1>4 DEF Talking, Residue, ClientPlaces
  <2>2. Residue(c)'
    BY <1>2, <1>3, <2>1 DEF Residue
  <2> QED BY <1>4, <2>2 DEF Session, Left, Parting, SameMemory
<1>5. CASE far[c] = "closed" /\ Dropped(c)
  <2>1. Silent(c) \/ Settled(c) \/ Pending(c)
    BY <1>1, <1>5 DEF Dropped, ClientPlaces
  <2>2. Dropped(c)'
    BY <1>3, <1>5, <2>1 DEF Dropped, Left
  <2> QED BY <1>5, <2>2 DEF Session, Left, SameMemory
<1> QED BY <1>4, <1>5, Connected

LEMMA ConnectSession ==
  ASSUME OwnerInv, NEW c \in Client, Session(c), Connect(c), SameMemory(c), SamePlace(c)
  PROVE  Session(c)' /\ \A d \in Client \ {c} : SameWire(d) /\ SameTalk(d)
<1>1. /\ cpc[c] = "start" /\ far[c] = "none" /\ near[c] = "none" /\ hpc[c] = "none"
      /\ Silent(c) /\ secret[c] = "" /\ up[c] = <<>> /\ down[c] = <<>>
  BY DEF Connect, OwnerInv, Owned, Session
<1>2. UNCHANGED <<up, down, message, secret, typed>>
  BY DEF Connect, Dial, wire
<1>3. Silent(c)' /\ AtHeader(c)' /\ Quiet(c)' /\ ~is_authenticated'[c]
  <2>1. Quiet(c)
    BY <1>1 DEF Quiet, AtHeader
  <2> QED BY <1>1, <1>2, <2>1, SameFrames, SameWords, SamePlaces DEF SameMemory, Silent, Quiet
<1>4. CASE Dial(c) /\ (Goto(c, "password") \/ Goto(c, "forged"))
  <2>1. /\ near'[c] = "open" /\ far'[c] = "open" /\ cpc'[c] \in {"password", "forged"}
        /\ \A d \in Client \ {c} : near'[d] = near[d] /\ far'[d] = far[d] /\ cpc'[d] = cpc[d]
    BY <1>4 DEF OwnerInv, ClientTypes, Dial, Goto
  <2>2. Talking(c)'
    BY <1>1, <1>2, <1>3, <2>1 DEF Talking
  <2> QED BY <1>2, <1>3, <2>1, <2>2 DEF Session, SameWire, SameTalk
<1>5. CASE ~listening /\ Goto(c, "closed") /\ UNCHANGED wire
  <2>1. /\ cpc'[c] = "closed" /\ near' = near /\ far' = far
        /\ \A d \in Client \ {c} : cpc'[d] = cpc[d]
    BY <1>5 DEF OwnerInv, ClientTypes, Goto, wire
  <2> QED BY <1>1, <1>2, <1>3, <2>1 DEF Session, SameWire, SameTalk
<1> QED BY <1>4, <1>5 DEF Connect

\* malware.c, and the exit of a user: one more header, and close.
LEMMA LastWordSession ==
  ASSUME OwnerInv, NEW c \in Client, Session(c), SendForged(c) \/ TypeExit(c),
         SameMemory(c), SamePlace(c)
  PROVE  Session(c)' /\ \A d \in Client \ {c} : SameWire(d) /\ SameTalk(d)
<1>1. PICK h \in {Header("EXIT", 0), Header("MSG", BUFFER_SIZE)} : up' = Sent(c, <<h>>)
  BY DEF SendForged, TypeExit
<1>2. /\ cpc[c] \in {"forged", "prompt"} /\ Goto(c, "closed") /\ HangUp(c)
      /\ UNCHANGED <<far, message, secret, typed>>
  BY DEF SendForged, TypeExit
<1>3. /\ Left(c) /\ up'[c] = (IF far[c] = "open" THEN up[c] \o <<h>> ELSE up[c])
      /\ \A d \in Client \ {c} : SameWire(d) /\ SameTalk(d)
  <2>1. Left(c) /\ \A d \in Client \ {c} : near'[d] = near[d] /\ down'[d] = down[d] /\ cpc'[d] = cpc[d]
    BY <1>2 DEF OwnerInv, ClientTypes, Goto, HangUp, Left
  <2>2. /\ up'[c] = IF far[c] = "open" THEN up[c] \o <<h>> ELSE up[c]
        /\ \A d \in Client \ {c} : up'[d] = up[d]
    BY <1>1 DEF OwnerInv, ClientTypes, Sent
  <2> QED BY <1>2, <2>1, <2>2 DEF SameWire, SameTalk
<1>4. CASE far[c] = "closed"
  BY <1>2, <1>3, <1>4, LeaveSession
<1>5. CASE far[c] = "open" /\ Talking(c)
  <2>1. AtHeader(c) /\ up[c] = <<>> /\ (Silent(c) \/ Settled(c))
    BY <1>2, <1>5 DEF Talking, Quiet
  <2>2. up'[c] = <<h>>
    BY <1>3, <1>5, <2>1, ShortSequences
  <2>3. AtHeader(c)' /\ (Silent(c)' \/ Settled(c)')
    BY <1>2, <2>1, SamePlaces, SameWords DEF SameMemory
  <2>4. Residue(c)'
    BY <1>1, <2>2, <2>3 DEF Residue
  <2>5. is_authenticated'[c] => secret'[c] = Password
    BY <1>2 DEF Session, SameMemory
  <2> QED BY <1>3, <1>5, <2>4, <2>5 DEF Session, Left, Parting
<1>6. cpc[c] \notin {"start", "closed"}
  BY <1>2
<1> QED BY <1>3, <1>4, <1>5, <1>6, Connected

\* A header is sent: the frame that is now due has begun.
LEMMA TypePasswordSession ==
  ASSUME OwnerInv, NEW c \in Client, Session(c), TypePassword(c), SameMemory(c), SamePlace(c)
  PROVE  Session(c)' /\ \A d \in Client \ {c} : SameWire(d) /\ SameTalk(d)
<1>1. PICK text \in Text : /\ secret' = [secret EXCEPT ![c] = text]
                           /\ message' = [message EXCEPT ![c] = custom_crypt(Plain(text))]
  BY DEF TypePassword
<1>2. cpc[c] = "password" /\ SendAnd(c, <<Header("AUTH", Size)>>, "authBody") /\ typed' = typed
  BY DEF TypePassword
<1>3. /\ secret'[c] = text /\ message'[c] = custom_crypt(Plain(text))
      /\ \A d \in Client \ {c} : secret'[d] = secret[d] /\ message'[d] = message[d]
  BY <1>1 DEF OwnerInv, ClientTypes
<1>4. /\ \/ /\ cpc'[c] = "authBody" /\ near'[c] = near[c] /\ far'[c] = far[c] /\ down'[c] = down[c]
            /\ up'[c] = IF far[c] = "open" THEN up[c] \o <<Header("AUTH", Size)>> ELSE up[c]
         \/ far[c] = "closed" /\ Left(c) /\ up'[c] = up[c]
      /\ \A d \in Client \ {c} : SameWire(d) /\ cpc'[d] = cpc[d]
  BY <1>2, SendEffect
<1>5. \A d \in Client \ {c} : SameWire(d) /\ SameTalk(d)
  BY <1>2, <1>3, <1>4 DEF SameTalk
<1>6. Introduced(c)'
  BY <1>3 DEF Introduced, custom_crypt, Plain
<1>7. CASE far[c] = "open" /\ Talking(c) /\ near[c] = "open"
  <2>1. AtHeader(c) /\ up[c] = <<>> /\ Silent(c) /\ down[c] = <<>>
    BY <1>2, <1>7 DEF Talking, Quiet
  <2>2. up'[c] = <<Header("AUTH", Size)>>
    BY <1>4, <1>7, <2>1, ShortSequences
  <2>3. Due(c) = Header("AUTH", Size)
    BY <2>1 DEF Due, Silent
  <2>4. AtHeader(c)' /\ HeadSent(c)'
    BY <2>1, <2>2, <2>3, SamePlaces DEF HeadSent
  <2>5. Silent(c)' /\ ~is_authenticated'[c]
    BY <1>2, <2>1 DEF Silent, SameMemory
  <2>6. Talking(c)'
    BY <1>4, <1>6, <1>7, <2>1, <2>4, <2>5 DEF Talking
  <2> QED BY <1>4, <1>5, <1>7, <2>5, <2>6 DEF Session
<1>8. CASE far[c] = "closed" /\ Dropped(c) /\ near[c] = "open"
  <2>1. up[c] = <<>> /\ Silent(c) /\ down[c] = <<>>
    BY <1>2, <1>8 DEF Dropped
  <2>2. Silent(c)' /\ ~is_authenticated'[c]
    BY <1>2, <2>1 DEF Silent, SameMemory
  <2>3. Dropped(c)'
    BY <1>3, <1>4, <1>8, <2>1, <2>2 DEF Dropped, Left
  <2> QED BY <1>4, <1>5, <1>8, <2>2, <2>3 DEF Session, Left
<1>9. cpc[c] \notin {"start", "closed"}
  BY <1>2
<1> QED BY <1>5, <1>7, <1>8, <1>9, Connected

LEMMA TransmitSession ==
  ASSUME OwnerInv, NEW c \in Client, Session(c), cpc[c] = "prompt", NEW content \in Contents,
         Transmit(c, content), SameMemory(c), SamePlace(c)
  PROVE  Session(c)' /\ \A d \in Client \ {c} : SameWire(d) /\ SameTalk(d)
<1>1. SendAnd(c, <<Header("MSG", Size)>>, "body") /\ secret' = secret
  BY DEF Transmit
<1>2. /\ typed'[c] = Append(typed[c], content) /\ message'[c] = custom_crypt(content)
      /\ \A d \in Client \ {c} : typed'[d] = typed[d] /\ message'[d] = message[d]
  BY DEF Transmit, OwnerInv, ClientTypes
<1>3. /\ \/ /\ cpc'[c] = "body" /\ near'[c] = near[c] /\ far'[c] = far[c] /\ down'[c] = down[c]
            /\ up'[c] = IF far[c] = "open" THEN up[c] \o <<Header("MSG", Size)>> ELSE up[c]
         \/ far[c] = "closed" /\ Left(c) /\ up'[c] = up[c]
      /\ \A d \in Client \ {c} : SameWire(d) /\ cpc'[d] = cpc[d]
  BY <1>1, SendEffect
<1>4. \A d \in Client \ {c} : SameWire(d) /\ SameTalk(d)
  BY <1>1, <1>2, <1>3 DEF SameTalk
<1>5. Settled(c) => Pending(c)'
  <2>1. custom_crypt(message'[c]) = content
    BY <1>2, ContentTypes
  <2>2. custom_crypt(message[c])' = custom_crypt(message'[c])
    BY DEF custom_crypt
  <2> QED BY <1>2, <2>1, <2>2 DEF Settled, Pending, SameMemory
<1>6. is_authenticated'[c] => secret'[c] = Password
  BY <1>1 DEF Session, SameMemory
<1>7. CASE far[c] = "open" /\ Talking(c) /\ near[c] = "open"
  <2>1. AtHeader(c) /\ up[c] = <<>> /\ Settled(c) /\ down[c] = <<>>
    BY <1>7 DEF Talking, Quiet
  <2>2. up'[c] = <<Header("MSG", Size)>>
    BY <1>3, <1>7, <2>1, ShortSequences
  <2>3. Due(c) = Header("MSG", Size)
    BY <2>1 DEF Due, Settled
  <2>4. AtHeader(c)' /\ HeadSent(c)'
    BY <2>1, <2>2, <2>3, SamePlaces DEF HeadSent
  <2>5. Talking(c)'
    BY <1>3, <1>5, <1>7, <2>1, <2>4 DEF Talking
  <2> QED BY <1>3, <1>4, <1>6, <1>7, <2>5 DEF Session
<1>8. CASE far[c] = "closed" /\ Dropped(c) /\ near[c] = "open"
  <2>1. up[c] = <<>> /\ Settled(c) /\ down[c] = <<>>
    BY <1>8 DEF Dropped
  <2>2. Dropped(c)'
    BY <1>3, <1>5, <1>8, <2>1 DEF Dropped, Left
  <2> QED BY <1>3, <1>4, <1>6, <1>8, <2>2 DEF Session, Left
<1> QED BY <1>4, <1>7, <1>8, Connected

\* The payload follows its header.
LEMMA SendBodySession ==
  ASSUME OwnerInv, NEW c \in Client, Session(c), SendPassword(c) \/ SendMessage(c),
         SameMemory(c), SamePlace(c)
  PROVE  Session(c)' /\ \A d \in Client \ {c} : SameWire(d) /\ SameTalk(d)
<1>1. PICK next \in {"authReply", "ack"} :
        /\ SendAnd(c, <<Body(message[c])>>, next)
        /\ cpc[c] = IF next = "ack" THEN "body" ELSE "authBody"
  BY DEF SendPassword, SendMessage
<1>2. UNCHANGED <<message, secret, typed>>
  BY DEF SendPassword, SendMessage
<1>3. /\ \/ /\ cpc'[c] = next /\ near'[c] = near[c] /\ far'[c] = far[c] /\ down'[c] = down[c]
            /\ up'[c] = IF far[c] = "open" THEN up[c] \o <<Body(message[c])>> ELSE up[c]
         \/ far[c] = "closed" /\ Left(c) /\ up'[c] = up[c]
      /\ \A d \in Client \ {c} : SameWire(d) /\ cpc'[d] = cpc[d]
  BY <1>1, SendEffect
<1>4. \A d \in Client \ {c} : SameWire(d) /\ SameTalk(d)
  BY <1>2, <1>3 DEF SameTalk
<1>5. /\ Silent(c)' <=> Silent(c)
      /\ Pending(c)' <=> Pending(c)
      /\ Introduced(c)' <=> Introduced(c)
      /\ is_authenticated'[c] => secret'[c] = Password
  BY <1>2, SameWords DEF SameMemory, Session
<1>6. CASE far[c] = "open" /\ Talking(c) /\ near[c] = "open"
  <2>1. /\ HeadSent(c) /\ down[c] = <<>>
        /\ IF next = "ack" THEN Pending(c) ELSE Silent(c) /\ Introduced(c)
    BY <1>1, <1>6 DEF Talking
  <2>2. Body(message[c])' = Body(message[c])
    BY <1>2 DEF Body
  <2>3. up'[c] = up[c] \o <<Body(message[c])>> /\ cpc'[c] = next
    BY <1>3, <1>6
  <2>4. BodySent(c)'
    <3>1. CASE AtHeader(c) /\ up[c] = <<Due(c)>>
      BY <2>2, <2>3, <3>1, SamePlaces, ShortSequences DEF BodySent
    <3>2. CASE AtPayload(c) /\ up[c] = <<>>
      BY <2>2, <2>3, <3>2, SamePlaces, ShortSequences DEF BodySent
    <3> QED BY <2>1, <3>1, <3>2 DEF HeadSent
  <2>5. Talking(c)'
    BY <1>3, <1>5, <1>6, <2>1, <2>3, <2>4 DEF Talking
  <2> QED BY <1>3, <1>4, <1>5, <1>6, <2>5 DEF Session
<1>7. CASE far[c] = "closed" /\ Dropped(c) /\ near[c] = "open"
  <2>1. CASE cpc'[c] = next /\ near'[c] = near[c] /\ far'[c] = far[c] /\ down'[c] = down[c] /\ up'[c] = up[c]
    <3>1. /\ down[c] = <<>> /\ up[c] = <<>> /\ (secret[c] \in Text \/ next = "ack")
          /\ IF next = "ack" THEN Pending(c) ELSE Silent(c)
      BY <1>1, <1>7 DEF Dropped
    <3>2. down[c] = <<>> /\ up[c] = <<>>
      BY <1>1, <1>7 DEF Dropped
    <3>3. <<>> # <<"AUTH_SUCCESS">>
      BY ShortSequences
    <3>4. Dropped(c)'
      BY <1>2, <1>5, <2>1, <3>1, <3>2, <3>3 DEF Dropped
    <3> QED BY <1>4, <1>5, <1>7, <2>1, <3>4 DEF Session
  <2>2. CASE Left(c) /\ up'[c] = up[c]
    BY <1>1, <1>2, <1>4, <2>2, LeaveSession
  <2> QED BY <1>3, <1>7, <2>1, <2>2
<1>8. cpc[c] \notin {"start", "closed"}
  BY <1>1
<1> QED BY <1>4, <1>6, <1>7, <1>8, Connected

\* A reply is read, or its absence noticed.
LEMMA ReadReplySession ==
  ASSUME OwnerInv, NEW c \in Client, Session(c), ReadVerdict(c) \/ ReadAck(c) \/ KillClient(c),
         SameMemory(c), SamePlace(c)
  PROVE  Session(c)' /\ \A d \in Client \ {c} : SameWire(d) /\ SameTalk(d)
<1>1. UNCHANGED <<message, secret, typed>>
  BY DEF ReadVerdict, ReadAck, KillClient
<1>2. CASE Leave(c)
  <2>1. cpc[c] \notin {"start", "closed"}
    <3>1. CASE KillClient(c)
      BY <3>1 DEF KillClient, Session
    <3> QED BY <3>1 DEF ReadVerdict, ReadAck
  <2> QED BY <1>1, <1>2, <2>1, LeaveEffect, LeaveSession DEF SameTalk
<1>3. CASE /\ \/ cpc[c] = "authReply" /\ down[c] = <<"AUTH_SUCCESS">>
              \/ cpc[c] = "ack" /\ down[c] # <<>>
           /\ down' = [down EXCEPT ![c] = <<>>] /\ Goto(c, "prompt")
           /\ UNCHANGED <<near, far, up>>
  <2>1. /\ down'[c] = <<>> /\ cpc'[c] = "prompt"
        /\ \A d \in Client \ {c} : SameWire(d) /\ SameTalk(d)
    BY <1>1, <1>3 DEF OwnerInv, ClientTypes, Goto, SameWire, SameTalk
  <2>2. /\ Quiet(c)' <=> Quiet(c)
        /\ Settled(c)' <=> Settled(c)
        /\ is_authenticated'[c] => secret'[c] = Password
    BY <1>1, <1>3, SameFrames, SameWords DEF SameMemory, Session
  <2>3. down[c] # <<>>
    BY <1>3, ShortSequences
  <2>4. CASE far[c] = "open" /\ Talking(c) /\ near[c] = "open"
    <3>1. Quiet(c) /\ Settled(c)
      BY <1>3, <2>3, <2>4 DEF Talking
    <3> QED BY <1>3, <2>1, <2>2, <2>4, <3>1 DEF Session, Talking
  <2>5. CASE far[c] = "closed" /\ Dropped(c) /\ near[c] = "open"
    <3>1. Settled(c) /\ up[c] = <<>>
      BY <1>3, <2>3, <2>5 DEF Dropped
    <3> QED BY <1>3, <2>1, <2>2, <2>5, <3>1 DEF Session, Dropped
  <2>6. cpc[c] \notin {"start", "closed"}
    BY <1>3
  <2> QED BY <2>1, <2>4, <2>5, <2>6, Connected
<1> QED BY <1>2, <1>3 DEF ReadVerdict, ReadAck, KillClient

LEMMA ClientStepSessions ==
  ASSUME OwnerInv, Sessions, NEW c \in Client, ClientStep(c) \/ KillClient(c), UNCHANGED serverVars
  PROVE  Sessions'
<1>1. \A d \in Client : Session(d) /\ SameMemory(d) /\ SamePlace(d)
  BY DEF Sessions, serverVars, SameMemory, SamePlace
<1>2. Session(c)' /\ \A d \in Client \ {c} : SameWire(d) /\ SameTalk(d)
  <2>1. CASE TypeMessage(c)
    <3>1. PICK text \in Text : Transmit(c, Plain(text))
      BY <2>1 DEF TypeMessage
    <3>2. Plain(text) \in Contents /\ cpc[c] = "prompt"
      BY <2>1, ContentTypes DEF TypeMessage
    <3> QED BY <1>1, <3>1, <3>2, TransmitSession
  <2>2. CASE Repeat(c)
    <3>1. message[c] \in Contents /\ cpc[c] = "prompt" /\ Transmit(c, message[c])
      BY <2>2 DEF Repeat, OwnerInv, ClientTypes
    <3> QED BY <1>1, <3>1, TransmitSession
  <2>3. CASE Connect(c)
    BY <1>1, <2>3, ConnectSession
  <2>4. CASE SendForged(c) \/ TypeExit(c)
    BY <1>1, <2>4, LastWordSession
  <2>5. CASE TypePassword(c)
    BY <1>1, <2>5, TypePasswordSession
  <2>6. CASE SendPassword(c) \/ SendMessage(c)
    BY <1>1, <2>6, SendBodySession
  <2>7. CASE ReadVerdict(c) \/ ReadAck(c) \/ KillClient(c)
    BY <1>1, <2>7, ReadReplySession
  <2> QED BY <2>1, <2>2, <2>3, <2>4, <2>5, <2>6, <2>7 DEF ClientStep
<1> QED BY <1>1, <1>2, SessionSame DEF Sessions

-----------------------------------------------------------------------------
\* The server closes a connection: what was on the way up is dropped.
LEMMA CloseSession ==
  ASSUME NEW c \in Client, OwnerInv, Session(c), far[c] = "open", far'[c] = "closed", up'[c] = <<>>,
         near'[c] = near[c], SameTalk(c),
         is_authenticated'[c] = is_authenticated[c], log'[c] = log[c],
         \/ down'[c] \in {down[c], <<>>}
         \/ near[c] = "open" /\ cpc[c] = "authReply" /\ down'[c] # <<"AUTH_SUCCESS">>
  PROVE  Session(c)'
<1>1. /\ Silent(c)' <=> Silent(c)
      /\ Settled(c)' <=> Settled(c)
      /\ Pending(c)' <=> Pending(c)
      /\ Aborted(c)' <=> Aborted(c)
  BY SameWords DEF SameTalk
<1>2. <<>> # <<"AUTH_SUCCESS">>
  BY ShortSequences
<1>3. CASE near[c] = "open" /\ Talking(c)
  <2>1. Dropped(c)'
    BY <1>1, <1>2, <1>3 DEF Talking, Dropped, Introduced, SameTalk, Session
  <2> QED BY <1>3, <2>1 DEF Session, SameTalk
<1>4. CASE near[c] = "closed" /\ Parting(c)
  <2>1. Silent(c) \/ Settled(c) \/ Pending(c) \/ Aborted(c)
    BY <1>4 DEF Parting, Residue
  <2>2. Dropped(c)'
    BY <1>1, <1>4, <2>1 DEF Parting, Dropped, SameTalk
  <2> QED BY <1>4, <2>2 DEF Session, SameTalk, Parting
<1>5. near[c] \in Ends
  BY DEF OwnerInv, ClientTypes
<1> QED BY <1>3, <1>4, <1>5 DEF Session, Ends

LEMMA MainSessions ==
  ASSUME OwnerInv, Sessions, Main, UNCHANGED clientVars
  PROVE  Sessions'
<1>1. \A d \in Client : Session(d) /\ Owned(d) /\ SameTalk(d) /\ SameMemory(d)
  BY DEF Main, Accept, Spawn, Sessions, OwnerInv, clientVars, SameTalk, SameMemory
<1>2. CASE Accept
  <2>1. \A d \in Client : SameWire(d) /\ SamePlace(d)
    BY <1>2 DEF Accept, SameWire, SamePlace
  <2> QED BY <1>1, <2>1, SessionSame DEF Sessions
<1>3. CASE Spawn /\ hpc' = [hpc EXCEPT ![client_socket] = "new"] /\ UNCHANGED <<far, up>>
  <2>1. client_socket \in Client /\ hpc[client_socket] = "none"
    BY <1>1, <1>3 DEF Spawn, OwnerInv, ListenTypes, Owned, Accepted
  <2>2. \A d \in Client : SamePlace(d)
    BY <1>3, <2>1 DEF SamePlace, AtHeader, OwnerInv, ThreadTypes
  <2>3. \A d \in Client : SameWire(d)
    BY <1>3 DEF Spawn, SameWire
  <2> QED BY <1>1, <2>2, <2>3, SessionSame DEF Sessions
<1>4. CASE Spawn /\ Drop(client_socket) /\ UNCHANGED hpc
  <2>1. PICK c \in Client : c = client_socket /\ far[c] = "open"
    BY <1>1, <1>4 DEF Spawn, OwnerInv, ListenTypes, Owned, Accepted
  <2>2. /\ far'[c] = "closed" /\ up'[c] = <<>> /\ UNCHANGED <<near, down>>
        /\ \A d \in Client \ {c} : SameWire(d)
    BY <1>4, <2>1 DEF Spawn, Drop, SameWire, OwnerInv, ClientTypes
  <2>3. Session(c)'
    BY <1>1, <2>1, <2>2, CloseSession DEF SameMemory
  <2>4. ASSUME NEW d \in Client \ {c} PROVE Session(d)'
    BY <1>1, <1>4, <2>2, SessionSame DEF SamePlace
  <2> QED BY <2>3, <2>4 DEF Sessions
<1> QED BY <1>2, <1>3, <1>4 DEF Main, Spawn

LEMMA StopSessions ==
  ASSUME OwnerInv, Sessions, StopServer, UNCHANGED clientVars
  PROVE  Sessions'
<1>1. ASSUME NEW d \in Client PROVE Session(d)'
  <2>1. /\ far'[d] = (IF far[d] = "open" THEN "closed" ELSE far[d]) /\ up'[d] = <<>>
        /\ near'[d] = near[d] /\ down'[d] \in {down[d], <<>>}
    BY DEF StopServer
  <2>2. Session(d) /\ SameTalk(d) /\ SameMemory(d) /\ far[d] \in Ends
    BY DEF StopServer, Sessions, clientVars, SameTalk, SameMemory, OwnerInv, ClientTypes
  <2>3. CASE far[d] = "open"
    BY <2>1, <2>2, <2>3, CloseSession DEF SameMemory
  <2>4. CASE far[d] = "none"
    <3>1. /\ cpc[d] \in {"start", "closed"} /\ Silent(d) /\ secret[d] = "" /\ down[d] = <<>>
          /\ near[d] = "none"
      BY <2>2, <2>4 DEF Session
    <3>2. Silent(d)' /\ ~is_authenticated'[d]
      BY <2>2, <3>1 DEF Silent, SameTalk, SameMemory
    <3> QED BY <2>1, <2>2, <2>4, <3>1, <3>2 DEF Session, SameTalk
  <2>5. CASE far[d] = "closed"
    <3>1. /\ Silent(d)' <=> Silent(d)
          /\ Settled(d)' <=> Settled(d)
          /\ Pending(d)' <=> Pending(d)
          /\ Aborted(d)' <=> Aborted(d)
      BY <2>2, SameWords DEF SameTalk, SameMemory
    <3>2. <<>> # <<"AUTH_SUCCESS">> /\ Dropped(d)
      BY <2>2, <2>5, ShortSequences DEF Session
    <3>3. Dropped(d)'
      BY <2>1, <2>2, <3>1, <3>2 DEF Dropped, SameTalk
    <3> QED BY <2>1, <2>2, <2>5, <3>3 DEF Session, SameTalk, SameMemory
  <2> QED BY <2>2, <2>3, <2>4, <2>5 DEF Ends
<1> QED BY <1>1 DEF Sessions

LEMMA RestartSessions ==
  ASSUME OwnerInv, Sessions, RestartServer, UNCHANGED clientVars
  PROVE  Sessions'
<1>1. \A d \in Client : SameWire(d) /\ SameTalk(d) /\ SameMemory(d) /\ SamePlace(d)
  BY DEF RestartServer, clientVars, SameWire, SameTalk, SameMemory, SamePlace
<1> QED BY <1>1, SessionSame DEF Sessions

-----------------------------------------------------------------------------
\* The thread's steps.
LEMMA ThreadAside ==
  ASSUME OwnerInv, Sessions, NEW t \in Client, Aside(t), Session(t)'
  PROVE  Sessions'
<1>1. ASSUME NEW d \in Client \ {t} PROVE Session(d)'
  <2>1. SameWire(d) /\ SameThread(d) /\ SameTalk(d) /\ Session(d)
    BY DEF Aside, clientVars, SameTalk, Sessions
  <2>2. SameMemory(d) /\ SamePlace(d)
    BY <2>1 DEF SameThread, SameMemory, SamePlace
  <2> QED BY <2>1, <2>2, SessionSame
<1> QED BY <1>1 DEF Sessions

\* A thread that serves a connection has one with its end open.
LEMMA Served ==
  ASSUME OwnerInv, NEW t \in Client, Session(t), hpc[t] \in {"header", "payload", "process"}
  PROVE  /\ far[t] = "open"
         /\ (near[t] = "open" /\ Talking(t)) \/ (near[t] = "closed" /\ Parting(t))
         /\ cpc[t] \in ClientPlaces /\ (near[t] = "open" => cpc[t] \notin {"start", "closed"})
<1>1. far[t] = "open" /\ near[t] \in Ends /\ cpc[t] \in ClientPlaces
  BY DEF OwnerInv, ClientTypes, Owned, Serving
<1> QED BY <1>1 DEF Session, Ends

LEMMA StartSession ==
  ASSUME OwnerInv, NEW t \in Client, Session(t), Start(t), UNCHANGED clientVars
  PROVE  Aside(t) /\ Session(t)'
<1>1. /\ Aside(t) /\ hpc[t] = "new" /\ hpc'[t] = "header" /\ SameWire(t)
      /\ UNCHANGED <<header, buffer, bytes_read, is_authenticated, log>>
  BY StartEffect
<1>2. SameTalk(t) /\ SameMemory(t) /\ SamePlace(t)
  BY <1>1 DEF clientVars, SameTalk, SameMemory, SamePlace, AtHeader
<1> QED BY <1>1, <1>2, SessionSame

\* A thread that reads a header takes the one that is due.
LEMMA HeaderTaken ==
  ASSUME NEW t \in Client, hpc[t] = "header",
         header'[t] = Head(up[t]), hpc'[t] = "payload", up'[t] = Tail(up[t]),
         is_authenticated'[t] = is_authenticated[t], message'[t] = message[t]
  PROVE  (HeadSent(t) => HeadSent(t)') /\ (BodySent(t) => BodySent(t)')
<1>1. Due(t)' = Due(t) /\ Body(message[t])' = Body(message[t])
  BY DEF Due, Body
<1>2. ASSUME HeadSent(t) PROVE HeadSent(t)'
  <2>1. up[t] = <<Due(t)>>
    BY <1>2 DEF HeadSent, AtPayload
  <2>2. header'[t] = Due(t) /\ up'[t] = <<>>
    BY <2>1, ShortSequences
  <2> QED BY <1>1, <2>2 DEF HeadSent, AtPayload
<1>3. ASSUME BodySent(t) PROVE BodySent(t)'
  <2>1. up[t] = <<Due(t), Body(message[t])>>
    BY <1>3 DEF BodySent, AtPayload
  <2>2. header'[t] = Due(t) /\ up'[t] = <<Body(message[t])>>
    BY <2>1, ShortSequences
  <2> QED BY <1>1, <2>2 DEF BodySent, AtPayload
<1> QED BY <1>2, <1>3

LEMMA ReadHeaderSession ==
  ASSUME OwnerInv, NEW t \in Client, Session(t), ReadHeader(t), UNCHANGED clientVars
  PROVE  Aside(t) /\ Session(t)'
<1>1. /\ Aside(t) /\ hpc[t] = "header"
      /\ UNCHANGED <<down, buffer, bytes_read, is_authenticated, log>>
      /\ \/ /\ up[t] # <<>> /\ Head(up[t]).kind = "header" /\ header'[t] = Head(up[t])
            /\ \/ Closes(t)
               \/ /\ ~Oversized(Head(up[t])) /\ Head(up[t]).command # "EXIT"
                  /\ hpc'[t] = "payload" /\ far'[t] = far[t] /\ up'[t] = Tail(up[t])
         \/ near[t] = "closed" /\ Closes(t) /\ header'[t] = header[t]
  BY ReadHeaderEffect
<1>2. SameTalk(t) /\ near'[t] = near[t]
  BY <1>1 DEF Aside, clientVars, SameTalk
<1>3. /\ far[t] = "open"
      /\ (near[t] = "open" /\ Talking(t)) \/ (near[t] = "closed" /\ Parting(t))
      /\ cpc[t] \in ClientPlaces /\ (near[t] = "open" => cpc[t] \notin {"start", "closed"})
  BY <1>1, Served
<1>4. CASE Closes(t)
  BY <1>1, <1>2, <1>3, <1>4, CloseSession DEF Closes
<1>5. CASE /\ up[t] # <<>> /\ header'[t] = Head(up[t])
           /\ ~Oversized(Head(up[t])) /\ Head(up[t]).command # "EXIT"
           /\ hpc'[t] = "payload" /\ far'[t] = far[t] /\ up'[t] = Tail(up[t])
  <2>1. (HeadSent(t) => HeadSent(t)') /\ (BodySent(t) => BodySent(t)')
    BY <1>1, <1>2, <1>5, HeaderTaken DEF SameTalk
  <2>2. /\ Silent(t)' <=> Silent(t)
        /\ Pending(t)' <=> Pending(t)
        /\ Introduced(t)' <=> Introduced(t)
        /\ is_authenticated'[t] => secret'[t] = Password
    BY <1>1, <1>2, SameWords DEF SameTalk, Session
  <2>3. ~Quiet(t) /\ ~BodyLost(t)
    BY <1>1, <1>5 DEF Quiet, BodyLost
  <2>4. CASE near[t] = "open" /\ Talking(t)
    <3>1. Talking(t)'
      BY <1>1, <1>2, <1>3, <2>1, <2>2, <2>3, <2>4 DEF Talking, SameTalk, ClientPlaces
    <3> QED BY <1>1, <1>2, <1>3, <1>5, <2>2, <2>4, <3>1 DEF Session, SameTalk
  <2>5. CASE near[t] = "closed" /\ Parting(t)
    <3>1. up[t] \notin {<<Header("EXIT", 0)>>, <<Header("MSG", BUFFER_SIZE)>>}
      <4>1. Head(<<Header("EXIT", 0)>>).command = "EXIT"
        BY ShortSequences DEF Header
      <4>2. Oversized(Head(<<Header("MSG", BUFFER_SIZE)>>))
        BY ShortSequences, SizeAssumption DEF Header, Oversized
      <4> QED BY <1>5, <4>1, <4>2
    <3>2. (HeadSent(t) \/ BodySent(t)) /\ (Pending(t) \/ (Silent(t) /\ Introduced(t)))
      BY <2>3, <2>5, <3>1 DEF Parting, Residue
    <3>3. Residue(t)'
      BY <2>1, <2>2, <3>2 DEF Residue
    <3> QED BY <1>1, <1>2, <1>3, <1>5, <2>2, <2>5, <3>3 DEF Session, Parting, SameTalk
  <2> QED BY <1>3, <2>4, <2>5
<1> QED BY <1>1, <1>4, <1>5

LEMMA ReadPayloadSession ==
  ASSUME OwnerInv, NEW t \in Client, Session(t), ReadPayload(t), UNCHANGED clientVars
  PROVE  Aside(t) /\ Session(t)'
<1>1. /\ Aside(t) /\ hpc[t] = "payload"
      /\ UNCHANGED <<down, header, is_authenticated, log>>
      /\ \/ /\ up[t] # <<>> /\ Head(up[t]).kind = "payload" /\ buffer'[t] = Head(up[t]).of
            /\ bytes_read'[t] = header[t].payload_length
            /\ hpc'[t] = "process" /\ far'[t] = far[t] /\ up'[t] = Tail(up[t])
         \/ /\ near[t] = "closed" /\ up[t] = <<>> /\ buffer'[t] = Plain("") /\ bytes_read'[t] = 0
            /\ hpc'[t] = "process" /\ far'[t] = far[t] /\ up'[t] = up[t]
         \/ near[t] = "closed" /\ Closes(t) /\ buffer'[t] = buffer[t] /\ bytes_read'[t] = bytes_read[t]
  BY ReadPayloadEffect
<1>2. SameTalk(t) /\ near'[t] = near[t]
  BY <1>1 DEF Aside, clientVars, SameTalk
<1>3. /\ far[t] = "open"
      /\ (near[t] = "open" /\ Talking(t)) \/ (near[t] = "closed" /\ Parting(t))
      /\ cpc[t] \in ClientPlaces /\ (near[t] = "open" => cpc[t] \notin {"start", "closed"})
  BY <1>1, Served
<1>4. /\ Silent(t)' <=> Silent(t)
      /\ Pending(t)' <=> Pending(t)
      /\ Introduced(t)' <=> Introduced(t)
      /\ is_authenticated'[t] => secret'[t] = Password
      /\ Due(t)' = Due(t)
  BY <1>1, <1>2, SameWords DEF SameTalk, Session, Due
<1>5. ~AtHeader(t) /\ ~Quiet(t) /\ ~BodyLost(t)
  BY <1>1 DEF AtHeader, Quiet, BodyLost
<1>6. CASE /\ up[t] # <<>> /\ buffer'[t] = Head(up[t]).of
           /\ bytes_read'[t] = header[t].payload_length
           /\ hpc'[t] = "process" /\ far'[t] = far[t] /\ up'[t] = Tail(up[t])
  <2>1. ~HeadSent(t)
    BY <1>5, <1>6 DEF HeadSent
  <2>2. BodySent(t) => BodySent(t)'
    <3>1. SUFFICES ASSUME BodySent(t) PROVE BodySent(t)'
      OBVIOUS
    <3>2. header[t] = Due(t) /\ up[t] = <<Body(message[t])>>
      BY <1>1, <1>5, <3>1 DEF BodySent, AtPayload
    <3>3. header'[t] = Due(t)' /\ up'[t] = <<>> /\ Head(up[t]) = Body(message[t])
      BY <1>1, <1>4, <1>6, <3>2, ShortSequences
    <3>4. buffer'[t] = message'[t]
      BY <1>2, <1>6, <3>3 DEF Body, SameTalk
    <3>5. bytes_read'[t] = Size
      BY <1>6, <3>2 DEF Due, Header
    <3> QED BY <1>6, <3>3, <3>4, <3>5 DEF BodySent
  <2>3. CASE near[t] = "open" /\ Talking(t)
    <3>1. Talking(t)'
      BY <1>1, <1>2, <1>3, <1>4, <1>5, <2>1, <2>2, <2>3 DEF Talking, SameTalk, ClientPlaces
    <3> QED BY <1>1, <1>2, <1>3, <1>4, <1>6, <2>3, <3>1 DEF Session, SameTalk
  <2>4. CASE near[t] = "closed" /\ Parting(t)
    <3>1. BodySent(t) /\ (Pending(t) \/ (Silent(t) /\ Introduced(t)))
      BY <1>5, <2>1, <2>4 DEF Parting, Residue
    <3>2. Residue(t)'
      BY <1>4, <2>2, <3>1 DEF Residue
    <3> QED BY <1>1, <1>2, <1>3, <1>4, <1>6, <2>4, <3>2 DEF Session, Parting, SameTalk
  <2> QED BY <1>1, <1>3, <2>3, <2>4
<1>7. CASE /\ near[t] = "closed" /\ up[t] = <<>> /\ buffer'[t] = Plain("") /\ bytes_read'[t] = 0
           /\ hpc'[t] = "process" /\ far'[t] = far[t] /\ up'[t] = up[t]
  <2>1. Parting(t) /\ <<>> # <<Body(message[t])>>
    BY <1>3, <1>7, ShortSequences
  <2>2. ~BodySent(t)
    BY <1>1, <1>5, <1>7, <2>1 DEF BodySent
  <2>3. HeadSent(t) /\ (Pending(t) \/ (Silent(t) /\ Introduced(t)))
    BY <1>5, <2>1, <2>2 DEF Parting, Residue
  <2>4. header[t] = Due(t)
    BY <1>5, <2>3 DEF HeadSent, AtPayload
  <2>5. BodyLost(t)'
    BY <1>1, <1>4, <1>7, <2>4 DEF BodyLost
  <2>6. Residue(t)'
    BY <1>4, <2>3, <2>5 DEF Residue
  <2> QED BY <1>1, <1>2, <1>3, <1>4, <1>7, <2>1, <2>6 DEF Session, Parting, SameTalk
<1>8. CASE Closes(t)
  BY <1>1, <1>2, <1>3, <1>8, CloseSession DEF Closes
<1> QED BY <1>1, <1>6, <1>7, <1>8

\* A thread with a payload: the message of a client that waits for the reply,
\* or of one that has left, or nothing since it left before the payload.
LEMMA AtProcess ==
  ASSUME OwnerInv, NEW t \in Client, Session(t), hpc[t] = "process"
  PROVE  /\ far[t] = "open" /\ up[t] = <<>> /\ header[t] = Due(t) /\ down[t] = <<>>
         /\ Pending(t) \/ (Silent(t) /\ Introduced(t))
         /\ \/ /\ near[t] = "open" /\ BodySent(t)
               /\ cpc[t] = IF is_authenticated[t] THEN "ack" ELSE "authReply"
            \/ /\ near[t] = "closed" /\ (BodySent(t) \/ BodyLost(t)) /\ cpc[t] = "closed"
         /\ BodySent(t) => buffer[t] = message[t] /\ bytes_read[t] = Size
<1>1. /\ far[t] = "open"
      /\ (near[t] = "open" /\ Talking(t)) \/ (near[t] = "closed" /\ Parting(t))
      /\ cpc[t] \in ClientPlaces /\ (near[t] = "open" => cpc[t] \notin {"start", "closed"})
  BY Served
<1>2. ~AtHeader(t) /\ ~AtPayload(t) /\ ~Quiet(t) /\ ~HeadSent(t)
  BY DEF AtHeader, AtPayload, Quiet, HeadSent
<1>3. /\ BodySent(t) => /\ up[t] = <<>> /\ header[t] = Due(t)
                        /\ buffer[t] = message[t] /\ bytes_read[t] = Size
      /\ BodyLost(t) => up[t] = <<>> /\ header[t] = Due(t)
  BY <1>2 DEF BodySent, BodyLost
<1>4. CASE near[t] = "open" /\ Talking(t)
  <2>1. /\ cpc[t] \in {"authReply", "ack"} /\ BodySent(t) /\ down[t] = <<>>
        /\ cpc[t] = "authReply" => Silent(t) /\ Introduced(t)
        /\ cpc[t] = "ack" => Pending(t)
    BY <1>1, <1>2, <1>4 DEF Talking, ClientPlaces
  <2> QED BY <1>1, <1>3, <1>4, <2>1 DEF Silent, Pending
<1>5. CASE near[t] = "closed" /\ Parting(t)
  BY <1>1, <1>2, <1>3, <1>5 DEF Parting, Residue
<1> QED BY <1>1, <1>4, <1>5

\* The password is compared with what the client sealed and sent.
LEMMA AdmittedMeans ==
  ASSUME OwnerInv, NEW t \in Client, Session(t), hpc[t] = "process", Admitted(t)
  PROVE  BodySent(t) /\ (Silent(t) => secret[t] = Password)
<1>1. /\ BodySent(t) \/ BodyLost(t)
      /\ Pending(t) \/ (Silent(t) /\ Introduced(t))
      /\ BodySent(t) => buffer[t] = message[t] /\ bytes_read[t] = Size
  BY AtProcess
<1>2. Decrypted(t) = Plain(Password)
  BY DEF Admitted
<1>3. ~BodyLost(t)
  <2>1. Plain("") # Plain(Password)
    BY TextAssumption DEF Plain
  <2> QED BY <1>2, <2>1 DEF BodyLost, Decrypted
<1>4. ASSUME Silent(t) PROVE secret[t] = Password
  <2>1. secret[t] \in Text /\ buffer[t] = custom_crypt(Plain(secret[t])) /\ bytes_read[t] # 0
    BY <1>1, <1>3, <1>4, SizeAssumption DEF Introduced, Silent, Pending
  <2>2. Decrypted(t) = custom_crypt(custom_crypt(Plain(secret[t])))
    BY <2>1 DEF Decrypted
  <2>3. Plain(secret[t]) \in Contents
    BY <2>1, ContentTypes
  <2>4. Plain(secret[t]) = Plain(Password)
    BY <1>2, <2>2, <2>3, ContentTypes
  <2> QED BY <2>4 DEF Plain
<1> QED BY <1>1, <1>3, <1>4

LEMMA AuthenticateSession ==
  ASSUME OwnerInv, NEW t \in Client, Session(t), Authenticate(t), UNCHANGED clientVars
  PROVE  Aside(t) /\ Session(t)'
<1>1. /\ Aside(t) /\ hpc[t] = "process" /\ ~is_authenticated[t]
      /\ UNCHANGED <<header, buffer, bytes_read, log>>
      /\ \/ /\ Admitted(t) /\ is_authenticated'[t] = TRUE
            /\ down'[t] = IF near[t] = "open" THEN Append(down[t], "AUTH_SUCCESS") ELSE down[t]
            /\ hpc'[t] = "header" /\ far'[t] = far[t] /\ up'[t] = up[t]
         \/ /\ ~Admitted(t) /\ is_authenticated'[t] = is_authenticated[t]
            /\ down'[t] = IF near[t] = "open" THEN Append(down[t], "AUTH_FAILED") ELSE down[t]
            /\ Closes(t)
  BY AuthenticateEffect
<1>2. SameTalk(t) /\ near'[t] = near[t]
  BY <1>1 DEF Aside, clientVars, SameTalk
<1>3. /\ far[t] = "open" /\ up[t] = <<>> /\ down[t] = <<>>
      /\ Silent(t) /\ Introduced(t)
      /\ \/ near[t] = "open" /\ cpc[t] = "authReply"
         \/ near[t] = "closed" /\ cpc[t] = "closed"
  BY <1>1, AtProcess DEF Pending
<1>4. /\ Append(down[t], "AUTH_SUCCESS") = <<"AUTH_SUCCESS">>
      /\ Append(down[t], "AUTH_FAILED") = <<"AUTH_FAILED">>
      /\ <<"AUTH_FAILED">> # <<"AUTH_SUCCESS">>
  BY <1>3, ShortSequences
<1>5. CASE /\ Admitted(t) /\ is_authenticated'[t] = TRUE
           /\ down'[t] = IF near[t] = "open" THEN Append(down[t], "AUTH_SUCCESS") ELSE down[t]
           /\ hpc'[t] = "header" /\ far'[t] = far[t] /\ up'[t] = up[t]
  <2>1. secret'[t] = Password
    BY <1>1, <1>2, <1>3, <1>5, AdmittedMeans DEF SameTalk
  <2>2. Quiet(t)'
    BY <1>3, <1>5 DEF Quiet, AtHeader
  <2>3. Settled(t)' /\ typed'[t] = <<>>
    BY <1>1, <1>2, <1>3, <1>5 DEF Silent, Settled, SameTalk
  <2>4. CASE near[t] = "open" /\ cpc[t] = "authReply"
    <3>1. Talking(t)'
      BY <1>2, <1>4, <1>5, <2>2, <2>3, <2>4 DEF Talking, SameTalk
    <3> QED BY <1>1, <1>2, <1>3, <1>5, <2>1, <2>4, <3>1 DEF Session, SameTalk
  <2>5. CASE near[t] = "closed" /\ cpc[t] = "closed"
    <3>1. Parting(t)'
      BY <1>2, <1>3, <1>5, <2>2, <2>3, <2>5 DEF Parting, Residue, SameTalk
    <3> QED BY <1>1, <1>2, <1>3, <1>5, <2>1, <2>5, <3>1 DEF Session, SameTalk
  <2> QED BY <1>1, <1>3, <2>4, <2>5
<1>6. CASE /\ is_authenticated'[t] = is_authenticated[t]
           /\ down'[t] = IF near[t] = "open" THEN Append(down[t], "AUTH_FAILED") ELSE down[t]
           /\ Closes(t)
  BY <1>1, <1>2, <1>3, <1>4, <1>6, CloseSession DEF Closes
<1> QED BY <1>1, <1>5, <1>6

\* The message that arrived is printed, or an empty entry if none arrived.
LEMMA Received ==
  ASSUME OwnerInv, NEW t \in Client, Session(t), Receive(t), UNCHANGED clientVars
  PROVE  /\ header[t].command = "MSG" /\ Pending(t) /\ (BodySent(t) \/ BodyLost(t))
         /\ BodySent(t) => Settled(t)'
         /\ BodyLost(t) => Aborted(t)' /\ Front(log'[t]) = log[t]
<1>1. /\ hpc[t] = "process" /\ is_authenticated[t] /\ is_authenticated'[t] /\ SameTalk(t)
      /\ header[t].command = "MSG" => log'[t] = Append(log[t], LogEntry(t))
  BY ReceiveEffect DEF clientVars, SameTalk
<1>2. /\ header[t] = Due(t) /\ Pending(t) /\ (BodySent(t) \/ BodyLost(t))
      /\ BodySent(t) => buffer[t] = message[t] /\ bytes_read[t] = Size
  BY <1>1, AtProcess DEF Silent
<1>3. header[t].command = "MSG" /\ log'[t] = Append(log[t], LogEntry(t))
  BY <1>1, <1>2 DEF Due, Header
<1>4. BodySent(t) => Settled(t)'
  <2>1. BodySent(t) => LogEntry(t) = custom_crypt(message[t])
    BY <1>2, SizeAssumption DEF LogEntry, Decrypted
  <2> QED BY <1>1, <1>2, <1>3, <2>1 DEF Pending, Settled, SameTalk
<1>5. ASSUME BodyLost(t) PROVE Aborted(t)' /\ Front(log'[t]) = log[t]
  <2>1. log'[t] = Append(log[t], Plain(""))
    BY <1>3, <1>5 DEF BodyLost, LogEntry, Decrypted
  <2>2. log[t] \in Seq(Contents) /\ Plain("") \in Contents /\ Plain("").text = ""
    BY ContentTypes DEF OwnerInv, ThreadTypes
  <2>3. log'[t] # <<>> /\ Last(log'[t]) = Plain("") /\ Front(log'[t]) = log[t]
    <3>1. /\ Append(log[t], Plain("")) # <<>> /\ Last(Append(log[t], Plain(""))) = Plain("")
          /\ Front(Append(log[t], Plain(""))) = log[t]
      BY <2>2, LastEntry
    <3> QED BY <2>1, <3>1
  <2>4. custom_crypt(message[t])' = custom_crypt(message[t])
    BY <1>1 DEF SameTalk, custom_crypt
  <2> QED BY <1>1, <1>2, <2>2, <2>3, <2>4 DEF Aborted, Pending, SameTalk
<1> QED BY <1>2, <1>3, <1>4, <1>5

LEMMA ReceiveSession ==
  ASSUME OwnerInv, NEW t \in Client, Session(t), Receive(t), UNCHANGED clientVars
  PROVE  Aside(t) /\ Session(t)'
<1>1. /\ Aside(t) /\ hpc[t] = "process" /\ is_authenticated[t] /\ is_authenticated'[t]
      /\ \/ /\ down'[t] = IF near[t] = "open" THEN Append(down[t], "SERVER_RECEIVED_OK") ELSE down[t]
            /\ hpc'[t] = "header" /\ far'[t] = far[t] /\ up'[t] = up[t]
         \/ near[t] = "closed" /\ Closes(t) /\ down'[t] = down[t]
  BY ReceiveEffect, Received
<1>2. SameTalk(t) /\ near'[t] = near[t]
  BY <1>1 DEF Aside, clientVars, SameTalk
<1>3. /\ far[t] = "open" /\ up[t] = <<>> /\ down[t] = <<>>
      /\ \/ near[t] = "open" /\ BodySent(t) /\ cpc[t] = "ack"
         \/ near[t] = "closed" /\ (BodySent(t) \/ BodyLost(t)) /\ cpc[t] = "closed"
  BY <1>1, AtProcess DEF Silent
<1>4. (BodySent(t) => Settled(t)') /\ (BodyLost(t) => Aborted(t)')
  BY Received
<1>5. secret'[t] = Password
  BY <1>1, <1>2 DEF Session, SameTalk
<1>6. Append(down[t], "SERVER_RECEIVED_OK") = <<"SERVER_RECEIVED_OK">>
  BY <1>3, ShortSequences
<1>7. CASE /\ down'[t] = IF near[t] = "open" THEN Append(down[t], "SERVER_RECEIVED_OK") ELSE down[t]
           /\ hpc'[t] = "header" /\ far'[t] = far[t] /\ up'[t] = up[t]
  <2>1. Quiet(t)'
    BY <1>3, <1>7 DEF Quiet, AtHeader
  <2>2. CASE near[t] = "open" /\ BodySent(t) /\ cpc[t] = "ack"
    <3>1. Talking(t)'
      BY <1>2, <1>4, <1>6, <1>7, <2>1, <2>2 DEF Talking, SameTalk
    <3> QED BY <1>1, <1>2, <1>3, <1>5, <1>7, <2>2, <3>1 DEF Session, SameTalk
  <2>3. CASE near[t] = "closed" /\ (BodySent(t) \/ BodyLost(t)) /\ cpc[t] = "closed"
    <3>1. Parting(t)'
      BY <1>2, <1>3, <1>4, <1>7, <2>1, <2>3 DEF Parting, Residue, SameTalk
    <3> QED BY <1>1, <1>2, <1>3, <1>5, <1>7, <2>3, <3>1 DEF Session, SameTalk
  <2> QED BY <1>3, <2>2, <2>3
<1>8. CASE near[t] = "closed" /\ Closes(t) /\ down'[t] = down[t]
  <2>1. cpc[t] = "closed" /\ (Settled(t)' \/ Aborted(t)')
    BY <1>3, <1>4, <1>8
  <2>2. Dropped(t)'
    BY <1>2, <1>8, <2>1 DEF Dropped, Closes, SameTalk
  <2> QED BY <1>1, <1>2, <1>5, <1>8, <2>1, <2>2 DEF Session, SameTalk, Closes
<1> QED BY <1>1, <1>7, <1>8

LEMMA NextSessions == OwnerInv /\ Sessions /\ [Next]_vars => Sessions'
<1> SUFFICES ASSUME OwnerInv, Sessions, [Next]_vars PROVE Sessions'
  OBVIOUS
<1>1. ASSUME NEW c \in Client, ClientStep(c) \/ KillClient(c), UNCHANGED serverVars PROVE Sessions'
  BY <1>1, ClientStepSessions
<1>2. ASSUME Main, UNCHANGED clientVars PROVE Sessions'
  BY <1>2, MainSessions
<1>3. ASSUME NEW t \in Client, client_handler(t), UNCHANGED clientVars PROVE Sessions'
  <2>1. Session(t)
    BY DEF Sessions
  <2>2. Aside(t) /\ Session(t)'
    BY <1>3, <2>1, StartSession, ReadHeaderSession, ReadPayloadSession, AuthenticateSession,
       ReceiveSession DEF client_handler
  <2> QED BY <2>2, ThreadAside
<1>4. ASSUME StopServer \/ RestartServer, UNCHANGED clientVars PROVE Sessions'
  BY <1>4, StopSessions, RestartSessions
<1>5. ASSUME UNCHANGED vars PROVE Sessions'
  <2>1. \A d \in Client : SameWire(d) /\ SameTalk(d) /\ SameMemory(d) /\ SamePlace(d)
    BY <1>5 DEF vars, wire, clientVars, serverVars, SameWire, SameTalk, SameMemory, SamePlace
  <2> QED BY <2>1, SessionSame DEF Sessions
<1> QED BY <1>1, <1>2, <1>3, <1>4, <1>5 DEF Next, Idle

LEMMA InitSessions == Init => Sessions
<1> SUFFICES ASSUME Init, NEW c \in Client PROVE Session(c)
  BY DEF Sessions
<1>1. /\ near[c] = "none" /\ far[c] = "none" /\ up[c] = <<>> /\ down[c] = <<>>
      /\ cpc[c] = "start" /\ secret[c] = "" /\ typed[c] = <<>>
      /\ is_authenticated[c] = FALSE /\ log[c] = <<>>
  BY DEF Init, WireInit, ClientInit, ServerInit
<1> QED BY <1>1 DEF Session, Silent

-----------------------------------------------------------------------------
\* What was heard, in every session.
ChatInv == OwnerInv /\ Sessions

LEMMA ChatInvariance == Spec => []ChatInv
<1>1. Init => ChatInv
  BY InitOwned, InitSessions DEF ChatInv
<1>2. ChatInv /\ [Next]_vars => ChatInv'
  BY NextOwned, NextSessions DEF ChatInv
<1> QED BY <1>1, <1>2, PTL DEF Spec

LEMMA SpokenParts ==
  ASSUME NEW s \in Seq(Contents), NEW e \in Contents, Append(s, e) \in Seq(Spoken)
  PROVE  s \in Seq(Spoken) /\ e \in Spoken
<1>1. /\ Len(Append(s, e)) = Len(s) + 1 /\ Len(s) \in Nat /\ Append(s, e)[Len(s) + 1] = e
      /\ \A i \in 1..Len(s) : Append(s, e)[i] = s[i]
  BY AppendProperties, LenProperties
<1>2. \A i \in 1..(Len(s) + 1) : Append(s, e)[i] \in Spoken
  BY <1>1, ElementOfSeq
<1>3. e \in Spoken /\ \A i \in 1..Len(s) : s[i] \in Spoken
  BY <1>1, <1>2
<1>4. s \in [1..Len(s) -> Spoken]
  BY <1>3, LenProperties
<1> QED BY <1>1, <1>3, <1>4, SeqDef

\* An entry without a text is no message: without one the log is what was heard.
LEMMA LastSpoken ==
  ASSUME NEW s \in Seq(Spoken), s # <<>>
  PROVE  Last(s).text # ""
<1>1. Len(s) \in 1..Len(s)
  BY EmptySeq
<1>2. s[Len(s)] \in Spoken
  BY <1>1, ElementOfSeq
<1> QED BY <1>2, ContentTypes DEF Last

LEMMA HeardAll ==
  ASSUME NEW c \in Client, log[c] \in Seq(Spoken)
  PROVE  Heard(c) = log[c]
BY LastSpoken DEF Heard

LEMMA FrontType ==
  ASSUME NEW S, NEW s \in Seq(S), s # <<>>
  PROVE  Front(s) \in Seq(S)
<1>1. Len(s) \in Nat \ {0} /\ \A i \in 1..(Len(s) - 1) : s[i] \in S
  BY EmptySeq, ElementOfSeq
<1> QED BY <1>1, SubSeqProperties DEF Front

\* A session has one of four forms, and each says what was heard.
LEMMA SessionForms ==
  ASSUME OwnerInv, NEW c \in Client, Session(c)
  PROVE  Silent(c) \/ Settled(c) \/ Pending(c) \/ Aborted(c)
<1>1. near[c] \in Ends /\ far[c] \in Ends /\ cpc[c] \in ClientPlaces
  BY DEF OwnerInv, ClientTypes
<1>2. CASE far[c] = "none"
  BY <1>2 DEF Session
<1>3. CASE far[c] = "open" /\ near[c] = "open"
  BY <1>1, <1>3 DEF Session, Talking, ClientPlaces
<1>4. CASE far[c] = "open" /\ near[c] = "closed"
  BY <1>4 DEF Session, Parting, Residue
<1>5. CASE far[c] = "closed"
  <2>1. cpc[c] # "start"
    BY <1>5 DEF OwnerInv, Owned
  <2> QED BY <1>1, <1>5, <2>1 DEF Session, Dropped, ClientPlaces
<1> QED BY <1>1, <1>2, <1>3, <1>4, <1>5 DEF Session, Ends

LEMMA HeardForms ==
  ASSUME OwnerInv, NEW c \in Client
  PROVE  /\ Silent(c) => Heard(c) = <<>> /\ typed[c] = <<>>
         /\ Settled(c) => Heard(c) = log[c] /\ Heard(c) = typed[c]
         /\ Pending(c) =>
              /\ Heard(c) = log[c] /\ Heard(c) \in Seq(Spoken) /\ custom_crypt(message[c]) \in Spoken
              /\ typed[c] = Append(Heard(c), custom_crypt(message[c]))
         /\ Aborted(c) =>
              /\ Heard(c) = Front(log[c]) /\ Heard(c) \in Seq(Spoken) /\ custom_crypt(message[c]) \in Spoken
              /\ typed[c] = Append(Heard(c), custom_crypt(message[c]))
<1>1. /\ typed[c] \in Seq(Spoken) /\ log[c] \in Seq(Contents)
      /\ custom_crypt(message[c]) \in Contents
  BY ContentTypes DEF OwnerInv, ClientTypes, ThreadTypes
<1>2. Silent(c) => Heard(c) = <<>> /\ typed[c] = <<>>
  BY DEF Silent, Heard
<1>3. Settled(c) => Heard(c) = log[c] /\ Heard(c) = typed[c]
  BY <1>1, HeardAll DEF Settled
<1>4. ASSUME Pending(c)
      PROVE  /\ Heard(c) = log[c] /\ Heard(c) \in Seq(Spoken) /\ custom_crypt(message[c]) \in Spoken
             /\ typed[c] = Append(Heard(c), custom_crypt(message[c]))
  <2>1. typed[c] = Append(log[c], custom_crypt(message[c]))
    BY <1>4 DEF Pending
  <2>2. log[c] \in Seq(Spoken) /\ custom_crypt(message[c]) \in Spoken
    BY <1>1, <2>1, SpokenParts
  <2> QED BY <2>1, <2>2, HeardAll
<1>5. ASSUME Aborted(c)
      PROVE  /\ Heard(c) = Front(log[c]) /\ Heard(c) \in Seq(Spoken) /\ custom_crypt(message[c]) \in Spoken
             /\ typed[c] = Append(Heard(c), custom_crypt(message[c]))
  <2>1. /\ log[c] # <<>> /\ Heard(c) = Front(log[c])
        /\ typed[c] = Append(Front(log[c]), custom_crypt(message[c]))
    BY <1>5 DEF Aborted, Heard
  <2>2. Front(log[c]) \in Seq(Contents)
    BY <1>1, <2>1, FrontType
  <2>3. Front(log[c]) \in Seq(Spoken) /\ custom_crypt(message[c]) \in Spoken
    BY <1>1, <2>1, <2>2, SpokenParts
  <2> QED BY <2>1, <2>3
<1> QED BY <1>2, <1>3, <1>4, <1>5

LEMMA PrefixOfAppend ==
  ASSUME NEW S, NEW s \in Seq(S), NEW e \in S
  PROVE  IsPrefix(s, s) /\ IsPrefix(s, Append(s, e))
<1>1. /\ Len(s) \in Nat /\ Append(s, e) \in Seq(S) /\ Len(Append(s, e)) = Len(s) + 1
      /\ \A i \in 1..Len(s) : s[i] \in S /\ Append(s, e)[i] = s[i]
  BY AppendProperties, LenProperties, ElementOfSeq
<1>2. /\ SubSeq(s, 1, Len(s)) \in Seq(S) /\ Len(SubSeq(s, 1, Len(s))) = Len(s)
      /\ \A i \in 1..Len(s) : SubSeq(s, 1, Len(s))[i] = s[i]
  BY <1>1, SubSeqProperties
<1>3. /\ SubSeq(Append(s, e), 1, Len(s)) \in Seq(S) /\ Len(SubSeq(Append(s, e), 1, Len(s))) = Len(s)
      /\ \A i \in 1..Len(s) : SubSeq(Append(s, e), 1, Len(s))[i] = s[i]
  BY <1>1, SubSeqProperties
<1>4. SubSeq(s, 1, Len(s)) = SubSeq(Append(s, e), 1, Len(s))
  BY <1>2, <1>3, SeqEqual
<1> QED BY <1>1, <1>4 DEF IsPrefix

(* A thread that reads a header meets a header, one that reads a payload     *)
(* meets a payload, and what was printed for a connection is a prefix of     *)
(* what was typed there: for any number of clients and messages, whoever is  *)
(* killed or started again (server.c:40-98, client.c:129-141).               *)
THEOREM LogFollowsInput == Spec => []LoggedAsTyped
<1>1. ChatInv => LoggedAsTyped
  <2> SUFFICES ASSUME ChatInv PROVE LoggedAsTyped
    OBVIOUS
  <2>1. ASSUME NEW t \in Client, hpc[t] \in {"header", "payload"}, up[sock[t]] # <<>>
        PROVE  Head(up[sock[t]]).kind = hpc[t]
    <3>1. sock[t] = t /\ Session(t)
      BY <2>1 DEF ChatInv, OwnerInv, Owned, Serving, Sessions
    <3>2. /\ (near[t] = "open" /\ Talking(t)) \/ (near[t] = "closed" /\ Parting(t))
          /\ cpc[t] \in ClientPlaces /\ (near[t] = "open" => cpc[t] \notin {"start", "closed"})
      BY <2>1, <3>1, Served DEF ChatInv
    <3>3. \/ HeadSent(t) \/ BodySent(t)
          \/ AtHeader(t) /\ up[t] \in {<<Header("EXIT", 0)>>, <<Header("MSG", BUFFER_SIZE)>>}
      BY <2>1, <3>1, <3>2 DEF Talking, Parting, Residue, Quiet, BodyLost, ClientPlaces
    <3>4. CASE hpc[t] = "header"
      <4>1. \E h \in {Due(t), Header("EXIT", 0), Header("MSG", BUFFER_SIZE)} :
              up[t] = <<h>> \/ up[t] = <<h, Body(message[t])>>
        BY <3>3, <3>4 DEF HeadSent, BodySent, AtPayload
      <4>2. \E h \in {Due(t), Header("EXIT", 0), Header("MSG", BUFFER_SIZE)} : Head(up[t]) = h
        BY <4>1, ShortSequences
      <4> QED BY <3>1, <3>4, <4>2 DEF Due, Header
    <3>5. CASE hpc[t] = "payload"
      <4>1. up[t] = <<Body(message[t])>>
        BY <2>1, <3>1, <3>3, <3>5 DEF HeadSent, BodySent, AtHeader
      <4>2. Head(up[t]) = Body(message[t])
        BY <4>1, ShortSequences
      <4> QED BY <3>1, <3>5, <4>2 DEF Body
    <3> QED BY <2>1, <3>4, <3>5
  <2>2. ASSUME NEW c \in Client PROVE IsPrefix(Heard(c), typed[c])
    <3>1. typed[c] \in Seq(Spoken) /\ <<>> \in Seq(Spoken)
      BY EmptySeq DEF ChatInv, OwnerInv, ClientTypes
    <3>2. Silent(c) \/ Settled(c) \/ Pending(c) \/ Aborted(c)
      BY SessionForms DEF ChatInv, Sessions
    <3>3. CASE Heard(c) = typed[c]
      <4>1. PICK e \in Spoken : TRUE
        BY TextAssumption, ContentTypes
      <4> QED BY <3>1, <3>3, <4>1, PrefixOfAppend
    <3>4. CASE /\ Heard(c) \in Seq(Spoken) /\ custom_crypt(message[c]) \in Spoken
               /\ typed[c] = Append(Heard(c), custom_crypt(message[c]))
      BY <3>4, PrefixOfAppend
    <3> QED BY <3>2, <3>3, <3>4, HeardForms DEF ChatInv
  <2> QED BY <2>1, <2>2 DEF LoggedAsTyped
<1> QED BY <1>1, ChatInvariance, PTL

(* A user who is asked for the next message has seen every one before        *)
(* printed, and nothing of a confirmation is left over: for any number of    *)
(* messages (client.c:149-155).                                              *)
THEOREM AcksArePaired == Spec => []AcksPaired
<1>1. ChatInv => AcksPaired
  <2> SUFFICES ASSUME ChatInv, NEW c \in Client, cpc[c] = "prompt"
               PROVE  down[c] = <<>> /\ Len(log[c]) = Len(typed[c])
    BY DEF AcksPaired
  <2>1. Talking(c) \/ Dropped(c)
    BY Connected DEF ChatInv, Sessions
  <2>2. down[c] = <<>> /\ Settled(c)
    BY <2>1 DEF Talking, Dropped
  <2> QED BY <2>2 DEF Settled
<1> QED BY <1>1, ChatInvariance, PTL

(* No client and thread ever wait for each other with nothing on the way:    *)
(* for any number of clients (client.c:95, 149 against server.c:40, 64).     *)
THEOREM SomebodyMoves == Spec => []NoMutualWait
<1>1. ChatInv => NoMutualWait
  <2> SUFFICES ASSUME ChatInv, NEW c \in Client, NEW t \in Client,
                      cpc[c] \in {"authReply", "ack"}, down[c] = <<>>,
                      hpc[t] \in {"header", "payload"}, sock[t] = c
               PROVE  up[c] # <<>>
    BY DEF NoMutualWait
  <2>1. t = c /\ Session(c)
    BY DEF ChatInv, OwnerInv, Owned, Serving, Sessions
  <2>2. Talking(c)
    <3>1. far[c] = "open" /\ cpc[c] \notin {"start", "closed"}
      BY <2>1, Served DEF ChatInv
    <3> QED BY <2>1, <3>1, Connected DEF ChatInv
  <2>3. BodySent(c)
    <3>1. <<>> # <<"AUTH_SUCCESS">> /\ <<>> # <<"SERVER_RECEIVED_OK">>
      BY ShortSequences
    <3> QED BY <2>2, <3>1 DEF Talking
  <2>4. up[c] = <<Due(c), Body(message[c])>> \/ up[c] = <<Body(message[c])>>
    BY <2>1, <2>3 DEF BodySent
  <2> QED BY <2>4, ShortSequences
<1> QED BY <1>1, ChatInvariance, PTL

-----------------------------------------------------------------------------
\* Chat implements Conversation.  Only the threads of admitted users count, and
\* each of them serves the connection it is named after.
LEMMA AdmittedUsers ==
  ASSUME OwnerInv
  PROVE  {sock[t] : t \in {u \in Client : is_authenticated[u]}} = {t \in Client : is_authenticated[t]}
BY DEF OwnerInv, Owned

LEMMA TalkStutters ==
  ASSUME OwnerInv, OwnerInv', UNCHANGED <<secret, typed, is_authenticated>>,
         \A c \in Client : Heard(c)' = Heard(c)
  PROVE  UNCHANGED Talk!conversation
<1>1. {sock[t] : t \in {u \in Client : is_authenticated[u]}}'
        = {sock[t] : t \in {u \in Client : is_authenticated[u]}}
  BY AdmittedUsers DEF OwnerInv, Owned
<1>2. [c \in Client |-> Heard(c)]' = [c \in Client |-> Heard(c)]
  OBVIOUS
<1> QED BY <1>1, <1>2 DEF Talk!conversation

LEMMA SameLogs ==
  ASSUME UNCHANGED log
  PROVE  \A c \in Client : Heard(c)' = Heard(c)
BY DEF Heard

LEMMA TransmitSays ==
  ASSUME ChatInv, OwnerInv', NEW c \in Client, cpc[c] = "prompt", NEW content \in Spoken,
         Transmit(c, content), UNCHANGED serverVars
  PROVE  Talk!Say(c)
<1>1. /\ typed' = [typed EXCEPT ![c] = Append(@, content)] /\ secret' = secret
      /\ UNCHANGED <<sock, is_authenticated, log>>
  BY DEF Transmit, serverVars
<1>2. Settled(c)
  <2>1. Talking(c) \/ Dropped(c)
    BY Connected DEF ChatInv, Sessions
  <2> QED BY <2>1 DEF Talking, Dropped
<1>3. c \in {sock[t] : t \in {u \in Client : is_authenticated[u]}}
  BY <1>2, AdmittedUsers DEF ChatInv, Settled
<1>4. Heard(c) = typed[c]
  BY <1>2, HeardForms DEF ChatInv
<1>5. [d \in Client |-> Heard(d)][c] = typed[c]
  BY <1>4
<1>6. \E m \in [text : Text, sealed : BOOLEAN] : typed' = [typed EXCEPT ![c] = Append(@, m)]
  BY <1>1 DEF Spoken
<1>7. /\ secret' = secret
      /\ {sock[t] : t \in {u \in Client : is_authenticated[u]}}'
           = {sock[t] : t \in {u \in Client : is_authenticated[u]}}
      /\ [d \in Client |-> Heard(d)]' = [d \in Client |-> Heard(d)]
  BY <1>1, SameLogs
<1> QED BY <1>3, <1>5, <1>6, <1>7 DEF Talk!Say

LEMMA ClientTalks ==
  ASSUME ChatInv, OwnerInv', NEW c \in Client, ClientStep(c) \/ KillClient(c), UNCHANGED serverVars
  PROVE  Talk!Introduce(c) \/ Talk!Say(c) \/ UNCHANGED Talk!conversation
<1>1. \A d \in Client : Heard(d)' = Heard(d)
  BY SameLogs DEF serverVars
<1>2. CASE TypePassword(c)
  <2>1. secret[c] = "" /\ typed' = typed
    <3>1. (Talking(c) \/ Dropped(c)) /\ cpc[c] = "password" /\ typed' = typed
      BY <1>2, Connected DEF TypePassword, ChatInv, Sessions
    <3> QED BY <3>1 DEF Talking, Dropped
  <2>2. \E w \in Text : secret' = [secret EXCEPT ![c] = w]
    BY <1>2 DEF TypePassword
  <2>3. /\ {sock[t] : t \in {u \in Client : is_authenticated[u]}}'
             = {sock[t] : t \in {u \in Client : is_authenticated[u]}}
        /\ [d \in Client |-> Heard(d)]' = [d \in Client |-> Heard(d)]
    BY <1>1 DEF serverVars
  <2> QED BY <2>1, <2>2, <2>3 DEF Talk!Introduce
<1>3. CASE TypeMessage(c)
  <2>1. PICK text \in Text : Transmit(c, Plain(text))
    BY <1>3 DEF TypeMessage
  <2>2. Plain(text) \in Spoken /\ cpc[c] = "prompt"
    BY <1>3, ContentTypes DEF TypeMessage
  <2> QED BY <2>1, <2>2, TransmitSays
<1>4. CASE Repeat(c)
  <2>1. message[c] \in Spoken /\ cpc[c] = "prompt" /\ Transmit(c, message[c])
    BY <1>4 DEF Repeat, ChatInv, OwnerInv, ClientTypes, Said
  <2> QED BY <2>1, TransmitSays
<1>5. CASE UNCHANGED <<secret, typed>>
  <2>1. UNCHANGED <<secret, typed, is_authenticated>>
    BY <1>5 DEF serverVars
  <2> QED BY <1>1, <2>1, TalkStutters DEF ChatInv
<1> QED
  <2>1. ASSUME ~TypePassword(c), ~TypeMessage(c), ~Repeat(c) PROVE UNCHANGED <<secret, typed>>
    BY <2>1 DEF ClientStep, KillClient, Connect, SendForged, SendPassword, ReadVerdict, SendMessage,
                ReadAck, TypeExit
  <2> QED BY <1>2, <1>3, <1>4, <1>5, <2>1

LEMMA AuthenticateAdmits ==
  ASSUME ChatInv, OwnerInv', NEW t \in Client, Authenticate(t), UNCHANGED clientVars
  PROVE  Talk!Admit(t) \/ UNCHANGED Talk!conversation
<1>1. /\ hpc[t] = "process" /\ ~is_authenticated[t] /\ Aside(t) /\ log' = log
      /\ \/ Admitted(t) /\ is_authenticated'[t] = TRUE
         \/ is_authenticated'[t] = is_authenticated[t]
  BY AuthenticateEffect DEF ChatInv
<1>2. /\ \A d \in Client \ {t} : is_authenticated'[d] = is_authenticated[d]
      /\ UNCHANGED <<secret, typed>>
  BY <1>1 DEF Aside, SameThread, clientVars
<1>3. \A c \in Client : Heard(c)' = Heard(c)
  BY <1>1, SameLogs
<1>4. CASE Admitted(t) /\ is_authenticated'[t] = TRUE
  <2>1. secret[t] = Password
    <3>1. Session(t) /\ OwnerInv
      BY DEF ChatInv, Sessions
    <3>2. Silent(t)
      BY <1>1, <3>1, AtProcess DEF Pending
    <3> QED BY <1>1, <1>4, <3>1, <3>2, AdmittedMeans
  <2>2. {u \in Client : is_authenticated'[u]} = {u \in Client : is_authenticated[u]} \union {t}
    BY <1>2, <1>4
  <2>3. {sock[u] : u \in {v \in Client : is_authenticated[v]}}'
          = {sock[u] : u \in {v \in Client : is_authenticated[v]}} \union {t}
    <3>1. {sock[u] : u \in {v \in Client : is_authenticated[v]}}' = {u \in Client : is_authenticated'[u]}
      BY DEF OwnerInv, Owned
    <3>2. {sock[u] : u \in {v \in Client : is_authenticated[v]}} = {u \in Client : is_authenticated[u]}
      BY AdmittedUsers DEF ChatInv
    <3> QED BY <2>2, <3>1, <3>2
  <2>4. [d \in Client |-> Heard(d)]' = [d \in Client |-> Heard(d)]
    BY <1>3
  <2> QED BY <1>2, <2>1, <2>3, <2>4 DEF Talk!Admit
<1>5. CASE is_authenticated'[t] = is_authenticated[t]
  <2>1. is_authenticated' = is_authenticated
    BY <1>2, <1>5 DEF ChatInv, OwnerInv, ThreadTypes
  <2> QED BY <1>2, <1>3, <2>1, TalkStutters DEF ChatInv
<1> QED BY <1>1, <1>4, <1>5

LEMMA ReceiveHears ==
  ASSUME ChatInv, OwnerInv', NEW t \in Client, Receive(t), UNCHANGED clientVars
  PROVE  Talk!Hear(t) \/ UNCHANGED Talk!conversation
<1>1. OwnerInv /\ Session(t)
  BY DEF ChatInv, Sessions
<1>2. /\ Pending(t) /\ (BodySent(t) \/ BodyLost(t)) /\ (BodySent(t) => Settled(t)')
      /\ BodyLost(t) => Aborted(t)' /\ Front(log'[t]) = log[t]
  BY <1>1, Received
<1>3. /\ Heard(t) = log[t] /\ Heard(t) \in Seq(Spoken) /\ custom_crypt(message[t]) \in Spoken
      /\ typed[t] = Append(Heard(t), custom_crypt(message[t])) /\ typed[t] \in Seq(Spoken)
  BY <1>1, <1>2, HeardForms DEF OwnerInv, ClientTypes
<1>4. UNCHANGED <<secret, typed, is_authenticated>>
  BY DEF Receive, clientVars
<1>5. \A d \in Client \ {t} : Heard(d)' = Heard(d)
  <2>1. \A d \in Client \ {t} : log'[d] = log[d]
    BY <1>1, ReceiveEffect DEF Aside, SameThread
  <2> QED BY <2>1 DEF Heard
<1>6. CASE BodySent(t)
  <2>1. log'[t] = typed[t]
    BY <1>2, <1>4, <1>6 DEF Settled
  <2>2. Heard(t)' = typed[t]
    BY <1>3, <2>1, LastSpoken DEF Heard
  <2>3. /\ Len(Heard(t)) < Len(typed[t])
        /\ typed[t][Len(Heard(t)) + 1] = custom_crypt(message[t])
    BY <1>3, AppendProperties, LenProperties
  <2>4. Heard(t)' = Append(Heard(t), typed[t][Len(Heard(t)) + 1])
    BY <1>3, <2>2, <2>3
  <2>5. [d \in Client |-> Heard(d)]'
          = [[d \in Client |-> Heard(d)] EXCEPT ![t] = Append(@, typed[t][Len(@) + 1])]
    BY <1>5, <2>4
  <2>6. {sock[u] : u \in {v \in Client : is_authenticated[v]}}'
          = {sock[u] : u \in {v \in Client : is_authenticated[v]}}
    BY <1>1, <1>4, AdmittedUsers DEF OwnerInv, Owned
  <2> QED BY <1>4, <2>3, <2>5, <2>6 DEF Talk!Hear
<1>7. CASE BodyLost(t)
  <2>1. Heard(t)' = Heard(t)
    BY <1>2, <1>3, <1>7 DEF Heard, Aborted
  <2> QED BY <1>1, <1>4, <1>5, <2>1, TalkStutters
<1> QED BY <1>2, <1>6, <1>7

(* Server, clients and sockets together implement the conversation: for any  *)
(* number of clients, texts and messages, a message is taken only from a     *)
(* user who gave the password, sent only when the one before was printed,    *)
(* and printed as it was sent, in order, whoever is killed and started again *)
(* (server.c:73-106, client.c:94-155).                                       *)
THEOREM ConversationRefinement == Spec => ImplementsConversation
<1>1. Init => Talk!Init
  <2> SUFFICES ASSUME Init PROVE Talk!Init
    OBVIOUS
  <2>1. /\ secret = [c \in Client |-> ""] /\ typed = [c \in Client |-> <<>>]
        /\ log = [c \in Client |-> <<>>] /\ \A c \in Client : is_authenticated[c] = FALSE
    BY DEF Init, ClientInit, ServerInit
  <2>2. [c \in Client |-> Heard(c)] = [c \in Client |-> <<>>]
    BY <2>1 DEF Heard
  <2>3. {sock[t] : t \in {u \in Client : is_authenticated[u]}} = {}
    BY <2>1
  <2> QED BY <2>1, <2>2, <2>3 DEF Talk!Init
<1>2. ChatInv /\ ChatInv' /\ [Next]_vars => [Talk!Next]_(Talk!conversation)
  <2> SUFFICES ASSUME ChatInv, ChatInv', [Next]_vars
               PROVE  Talk!Next \/ UNCHANGED Talk!conversation
    OBVIOUS
  <2>1. OwnerInv /\ OwnerInv'
    BY DEF ChatInv
  <2>2. ASSUME NEW c \in Client, ClientStep(c) \/ KillClient(c), UNCHANGED serverVars
        PROVE  Talk!Next \/ UNCHANGED Talk!conversation
    BY <2>1, <2>2, ClientTalks DEF Talk!Next
  <2>3. ASSUME NEW t \in Client, Authenticate(t) \/ Receive(t), UNCHANGED clientVars
        PROVE  Talk!Next \/ UNCHANGED Talk!conversation
    BY <2>1, <2>3, AuthenticateAdmits, ReceiveHears DEF Talk!Next
  <2>4. ASSUME UNCHANGED <<clientVars, is_authenticated, log>>
        PROVE  UNCHANGED Talk!conversation
    <3>1. UNCHANGED <<secret, typed, is_authenticated>> /\ \A c \in Client : Heard(c)' = Heard(c)
      BY <2>4, SameLogs DEF clientVars
    <3> QED BY <2>1, <3>1, TalkStutters
  <2>5. ASSUME NEW t \in Client, Start(t) \/ ReadHeader(t) \/ ReadPayload(t), UNCHANGED clientVars
        PROVE  UNCHANGED Talk!conversation
    BY <2>4, <2>5 DEF Start, ReadHeader, ReadPayload
  <2>6. ASSUME Main \/ StopServer \/ RestartServer, UNCHANGED clientVars
        PROVE  UNCHANGED Talk!conversation
    BY <2>4, <2>6 DEF Main, Accept, Spawn, StopServer, RestartServer
  <2>7. ASSUME UNCHANGED vars PROVE UNCHANGED Talk!conversation
    BY <2>4, <2>7 DEF vars, serverVars
  <2> QED BY <2>2, <2>3, <2>5, <2>6, <2>7 DEF Next, Idle, client_handler
<1> QED BY <1>1, <1>2, ChatInvariance, PTL DEF Spec, ImplementsConversation, Talk!Spec
=============================================================================
