------------------------------- MODULE Runway -------------------------------
(***************************************************************************)
(* What a runway guarded by a mutex promises, whatever program guards it:  *)
(* a flight lands only on an empty runway, each flight lands once, and a   *)
(* landing is never undone.                                                *)
(***************************************************************************)
CONSTANT Flight

VARIABLES
  landing,              \* the flights on the runway
  landed                \* the flights that have left it

vars == <<landing, landed>>

Init == landing = {} /\ landed = {}

Land(f) ==
  /\ landing = {} /\ f \notin landed
  /\ landing' = {f}
  /\ UNCHANGED landed

Leave(f) ==
  /\ landing = {f}
  /\ landing' = {}
  /\ landed' = landed \cup {f}

Next == \E f \in Flight : Land(f) \/ Leave(f)

Spec == Init /\ [][Next]_vars
=============================================================================
