------------------------------ MODULE Arrivals ------------------------------
(***************************************************************************)
(* What the integrated program promises of its flights, without threads    *)
(* and mutexes: they descend a quantum at a time and in turn (TurnOrder),  *)
(* use the runway one by one and once each (Runway), and no flight lands   *)
(* before it has come down.                                                *)
(***************************************************************************)
EXTENDS Integers

CONSTANTS N, StartAlt

VARIABLES turn, height, landing, landed

Turns == INSTANCE TurnOrder
Strip == INSTANCE Runway WITH Flight <- 1..N

vars == <<turn, height, landing, landed>>

Init == Turns!Init /\ Strip!Init

Descend == Turns!Quantum /\ UNCHANGED <<landing, landed>>

Land(f) == height[f] = 0 /\ Strip!Land(f) /\ UNCHANGED <<turn, height>>

Leave(f) == Strip!Leave(f) /\ UNCHANGED <<turn, height>>

Next == Descend \/ \E f \in 1..N : Land(f) \/ Leave(f)

Spec == Init /\ [][Next]_vars
=============================================================================
