----------------------------- MODULE TurnOrder -----------------------------
(***************************************************************************)
(* What the round-robin scheduler promises: the flights descend one time   *)
(* quantum at a time, in circular order, until every flight has landed.    *)
(***************************************************************************)
EXTENDS Integers

CONSTANTS
  N,                    \* number of flights
  StartAlt              \* quanta each flight needs

VARIABLES
  turn,                 \* the flight the next quantum goes to
  height                \* height[f]: quanta flight f still needs

vars == <<turn, height>>

Init ==
  /\ turn = 1
  /\ height = [f \in 1..N |-> StartAlt]

Quantum ==
  /\ height[turn] > 0
  /\ height' = [height EXCEPT ![turn] = @ - 1]
  /\ turn' = IF turn = N THEN 1 ELSE turn + 1

Spec == Init /\ [][Quantum]_vars
=============================================================================
