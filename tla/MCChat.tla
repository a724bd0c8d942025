------------------------------- MODULE MCChat -------------------------------
(* Task - 4 for TLC: two clients, each of which types two messages, may be   *)
(* killed or may run out of input, and one of which may be the bounds-check  *)
(* client instead; the server may be stopped twice and started again once.   *)
EXTENDS Chat

MCMaxTurns == [c \in Client |-> 2]
=============================================================================
