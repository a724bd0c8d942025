----------------------------- MODULE ChatFrames -----------------------------
(***************************************************************************)
(* The framing that server.c and client.c each declare for themselves: a   *)
(* fixed-size header with a command and a length, then that many bytes of  *)
(* text, XORed on the wire.  A text is told by its name and by whether it  *)
(* is sealed, that is XORed with the key; the key applied twice is no key. *)
(***************************************************************************)
EXTENDS Integers, Sequences

CONSTANTS
  Text,                 \* what users type
  Password,             \* the text the server takes for the password
  Size,                 \* strlen() of every text
  BUFFER_SIZE

ASSUME TextAssumption == Password \in Text /\ "" \notin Text
ASSUME SizeAssumption == Size \in Nat \ {0} /\ BUFFER_SIZE \in Nat /\ Size < BUFFER_SIZE

Plain(text) == [text |-> text, sealed |-> FALSE]

custom_crypt(payload) == [payload EXCEPT !.sealed = ~@]

Header(command, length) == [kind |-> "header", command |-> command, payload_length |-> length]

Body(payload) == [kind |-> "payload", of |-> payload]
=============================================================================
