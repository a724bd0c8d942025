-------------------------------- MODULE Wire --------------------------------
(***************************************************************************)
(* The sockets of "Task - 4" as server.c and client.c use them: one TCP    *)
(* connection per client on the loopback interface.  A direction is a      *)
(* queue that keeps order and loses nothing while both ends are open; an   *)
(* end that is closed drops what it has not read.                          *)
(*                                                                         *)
(* What one send() hands over, a frame header or a payload, is one item of *)
(* the queue: on this interface it arrives as a whole.                     *)
(***************************************************************************)
EXTENDS Integers, SequencesExt

CONSTANTS
  Client,               \* the client processes; each connects once
  Backlog               \* the second argument of listen()

ASSUME BacklogAssumption == Backlog \in Nat

VARIABLES
  listening,            \* the server process has its listening socket
  backlog,              \* connections completed and not yet accepted
  near, far,            \* the client's and the server's end: "none", "open", "closed"
  up, down              \* the bytes on the way to the server and to the client

wire == <<listening, backlog, near, far, up, down>>

WireInit ==
  /\ listening = TRUE /\ backlog = <<>>
  /\ near = [c \in Client |-> "none"] /\ far = near
  /\ up = [c \in Client |-> <<>>] /\ down = up

\* connect() returns when the connection is in the listen queue.
Dial(c) ==
  /\ listening /\ Len(backlog) < Backlog
  /\ backlog' = Append(backlog, c)
  /\ near' = [near EXCEPT ![c] = "open"]
  /\ far' = [far EXCEPT ![c] = "open"]
  /\ UNCHANGED <<listening, up, down>>

\* A send() of the client: into the void once the server has closed.
Sent(c, items) == IF far[c] = "open" THEN [up EXCEPT ![c] = @ \o items] ELSE up

\* The same of the server, which keeps MSG_NOSIGNAL from killing it.
Answered(c, answer) == IF near[c] = "open" THEN [down EXCEPT ![c] = Append(@, answer)] ELSE down

\* close() by the client, and by the server.
HangUp(c) ==
  /\ near' = [near EXCEPT ![c] = "closed"]
  /\ down' = [down EXCEPT ![c] = <<>>]

Drop(c) ==
  /\ far' = [far EXCEPT ![c] = "closed"]
  /\ up' = [up EXCEPT ![c] = <<>>]
=============================================================================
