----------------------------- MODULE MCDeadlock -----------------------------
(* deadlock.c for TLC: two start routines that lock in opposite orders.      *)
EXTENDS LockPaths

\* flight_path_A
FlightPathA == <<"runway", "taxiway">>

\* flight_path_B
FlightPathB == <<"taxiway", "runway">>

\* main gives the second flight path B and all others path A.
MixedPath == [f \in Flight |-> IF f = 2 THEN FlightPathB ELSE FlightPathA]
=============================================================================
