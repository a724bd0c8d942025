------------------------------ MODULE Selection ------------------------------
(***************************************************************************)
(* What is left of a sequence when some of its slots are kept, in order.   *)
(* The slot that comes n-th is told by its rank, so that no recursion over *)
(* the sequence is needed.                                                 *)
(***************************************************************************)
EXTENDS Integers, Sequences, FiniteSets

\* How many of the slots lie at i or before, and the slot that is the n-th.
Rank(slots, i) == Cardinality({j \in slots : j <= i})
Nth(slots, n) == CHOOSE i \in slots : Rank(slots, i) = n

Selected(seq, slots) == [n \in 1..Cardinality(slots) |-> seq[Nth(slots, n)]]
=============================================================================
