----------------------------- MODULE ChatClient -----------------------------
(***************************************************************************)
(* client.c: connect, authenticate, then send one message at a time and    *)
(* wait for its acknowledgement, until the user types exit.  A client may  *)
(* also be killed between any two of its steps.                            *)
(*                                                                         *)
(* malware.c is the other program that connects: it sends one header whose *)
(* length is too large for the server's buffer, and closes.                *)
(*                                                                         *)
(* The result of scanf is not looked at.  At the end of the input it       *)
(* leaves the buffer as it is: the client then sends what the buffer holds *)
(* again and again, XORed once more each time, and never leaves its loop   *)
(* by itself.  The input is assumed to hold a password at least, and no    *)
(* text has a byte that XORs to zero.                                      *)
(***************************************************************************)
EXTENDS Wire, ChatFrames

CONSTANTS
  TestClient,           \* the clients that may be malware.c instead
  MaxTurns,             \* how many messages each user types before exit
  Killable,             \* the clients that may be killed
  Closing               \* the clients whose input may end

VARIABLES
  cpc,                  \* where each client is
  message,              \* its message buffer
  secret,               \* the password its user typed, "" before
  ended,                \* its input has ended
  typed                 \* the messages its buffer held when scanf returned, in order

clientVars == <<cpc, message, secret, ended, typed>>

ClientInit ==
  /\ cpc = [c \in Client |-> "start"]
  /\ message = [c \in Client |-> Plain("")]
  /\ secret = [c \in Client |-> ""]
  /\ ended = [c \in Client |-> FALSE]
  /\ typed = [c \in Client |-> <<>>]

Goto(c, label) == cpc' = [cpc EXCEPT ![c] = label]

\* close(sock_fd) and return, with nothing more sent.
Leave(c) == Goto(c, "closed") /\ HangUp(c) /\ UNCHANGED <<listening, backlog, far, up>>

\* send() of items, which fails if the server is known to be gone.
SendAnd(c, items, label) ==
  \/ up' = Sent(c, items) /\ Goto(c, label) /\ UNCHANGED <<listening, backlog, near, far, down>>
  \/ far[c] = "closed" /\ Leave(c)

\* read() returns at most 0: the server has closed and nothing is left to read.
EndOfStream(c) == far[c] = "closed" /\ down[c] = <<>>

Connect(c) ==
  /\ cpc[c] = "start"
  /\ \/ Dial(c) /\ Goto(c, "password")
     \/ c \in TestClient /\ Dial(c) /\ Goto(c, "forged")
     \/ ~listening /\ Goto(c, "closed") /\ UNCHANGED wire
  /\ UNCHANGED <<message, secret, ended, typed>>

\* malware.c: a header that announces more than the buffer holds, and close.
SendForged(c) ==
  /\ cpc[c] = "forged" /\ Goto(c, "closed") /\ HangUp(c)
  /\ up' = Sent(c, <<Header("MSG", BUFFER_SIZE)>>)
  /\ UNCHANGED <<listening, backlog, far, message, secret, ended, typed>>

TypePassword(c) ==
  /\ cpc[c] = "password"
  /\ \E text \in Text :
       /\ secret' = [secret EXCEPT ![c] = text]
       /\ message' = [message EXCEPT ![c] = custom_crypt(Plain(text))]
  /\ SendAnd(c, <<Header("AUTH", Size)>>, "authBody")
  /\ UNCHANGED <<ended, typed>>

SendPassword(c) ==
  /\ cpc[c] = "authBody"
  /\ SendAnd(c, <<Body(message[c])>>, "authReply")
  /\ UNCHANGED <<message, secret, ended, typed>>

\* One read() takes all the bytes that are there for the server's reply.
ReadVerdict(c) ==
  /\ cpc[c] = "authReply"
  /\ \/ /\ down[c] = <<"AUTH_SUCCESS">>
        /\ down' = [down EXCEPT ![c] = <<>>] /\ Goto(c, "prompt")
        /\ UNCHANGED <<listening, backlog, near, far, up>>
     \/ down[c] \notin {<<>>, <<"AUTH_SUCCESS">>} /\ Leave(c)
     \/ EndOfStream(c) /\ Leave(c)
  /\ UNCHANGED <<message, secret, ended, typed>>

\* The buffer is sealed or, if it was sealed already, opened, and the header sent.
Transmit(c, content) ==
  /\ typed' = [typed EXCEPT ![c] = Append(@, content)]
  /\ message' = [message EXCEPT ![c] = custom_crypt(content)]
  /\ SendAnd(c, <<Header("MSG", Size)>>, "body")
  /\ UNCHANGED secret

TypeMessage(c) ==
  /\ cpc[c] = "prompt" /\ ~ended[c] /\ Len(typed[c]) < MaxTurns[c]
  /\ \E text \in Text : Transmit(c, Plain(text))
  /\ UNCHANGED ended

\* scanf fails: what the last custom_crypt left in the buffer is the message.
\* MaxTurns bounds the repetitions until a send fails.
Repeat(c) ==
  /\ cpc[c] = "prompt" /\ c \in Closing
  /\ Len(typed[c]) < MaxTurns[c] \/ far[c] = "closed"
  /\ ended' = [ended EXCEPT ![c] = TRUE]
  /\ Transmit(c, message[c])

SendMessage(c) ==
  /\ cpc[c] = "body"
  /\ SendAnd(c, <<Body(message[c])>>, "ack")
  /\ UNCHANGED <<message, secret, ended, typed>>

\* Mutated form of ReadAck: the client does not wait for the confirmation.
ReadAckNoWait(c) ==
  /\ cpc[c] = "ack" /\ Goto(c, "prompt")
  /\ UNCHANGED <<wire, message, secret, ended, typed>>

ReadAck(c) ==
  /\ cpc[c] = "ack"
  /\ \/ /\ down[c] # <<>>
        /\ down' = [down EXCEPT ![c] = <<>>] /\ Goto(c, "prompt")
        /\ UNCHANGED <<listening, backlog, near, far, up>>
     \/ EndOfStream(c) /\ Leave(c)
  /\ UNCHANGED <<message, secret, ended, typed>>

\* The result of this send() is not looked at.
TypeExit(c) ==
  /\ cpc[c] = "prompt" /\ ~ended[c] /\ Goto(c, "closed") /\ HangUp(c)
  /\ up' = Sent(c, <<Header("EXIT", 0)>>)
  /\ UNCHANGED <<listening, backlog, far, message, secret, ended, typed>>

ClientStep(c) ==
  \/ Connect(c) \/ SendForged(c) \/ TypePassword(c) \/ SendPassword(c) \/ ReadVerdict(c)
  \/ TypeMessage(c) \/ Repeat(c) \/ SendMessage(c) \/ ReadAck(c)
  \/ TypeExit(c)

\* The kernel closes the socket of a client that is killed.
KillClient(c) ==
  /\ c \in Killable /\ near[c] = "open"
  /\ Leave(c)
  /\ UNCHANGED <<message, secret, ended, typed>>
=============================================================================
