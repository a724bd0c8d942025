------------------------- MODULE LandingWithoutSync -------------------------
(***************************************************************************)
(* landingwithoutsync.c: the flights share the plain bool runway_occupied  *)
(* and no mutex.  A thread reads the flag to decide whether to land and    *)
(* writes it three seconds later, so each access is a step of its own.     *)
(* The data race is the interleaving of these accesses: every one is a     *)
(* single byte load or store and calls of printf and sleep separate them,  *)
(* so the compiler neither tears nor merges them.                          *)
(***************************************************************************)
EXTENDS FlightProcess

VARIABLES
  runway_occupied,      \* the shared flag
  place,                \* place[f]: "nearing", "clear", "landing", "left" or "away"
  met                   \* history: flights that were on the runway together

runwayVars == <<runway_occupied, place, met>>
vars == <<processVars, runwayVars>>

RunwayInit ==
  /\ runway_occupied = FALSE
  /\ place = [f \in Flight |-> "nearing"]
  /\ met = {}

Init == ProcessInit /\ RunwayInit

Goto(f, p) == place' = [place EXCEPT ![f] = p]

\* The flights on the runway.
Landing == {f \in Flight : place[f] = "landing"}

\* The if statement reads the flag.
Decide(f) ==
  /\ thread[f] = "running" /\ place[f] = "nearing"
  /\ Goto(f, IF runway_occupied THEN "away" ELSE "clear")
  /\ UNCHANGED <<processVars, runway_occupied, met>>

\* After sleep(3): the flag is set and the collision message is printed.
Land(f) ==
  /\ place[f] = "clear"
  /\ runway_occupied' = TRUE
  /\ Goto(f, "landing")
  /\ met' = IF Landing = {} THEN met ELSE met \cup Landing \cup {f}
  /\ UNCHANGED processVars

\* Mutated form of Leave: the flag is not reset.
LeaveOccupied(f) ==
  /\ place[f] = "landing"
  /\ Goto(f, "left")
  /\ UNCHANGED <<processVars, runway_occupied, met>>

\* After sleep(2): the flag is reset, whoever else is on the runway.
Leave(f) ==
  /\ place[f] = "landing"
  /\ runway_occupied' = FALSE
  /\ Goto(f, "left")
  /\ UNCHANGED <<processVars, met>>

\* Landed or turned away, the start routine returns.
LandingReturn(f) ==
  /\ place[f] \in {"left", "away"}
  /\ Return(f)
  /\ UNCHANGED runwayVars

Thread(f) == Decide(f) \/ Land(f) \/ Leave(f) \/ LandingReturn(f)

Next ==
  \/ Main /\ UNCHANGED runwayVars
  \/ \E f \in Flight : Thread(f)
  \/ Exited /\ UNCHANGED vars

Spec == Init /\ [][Next]_vars
-----------------------------------------------------------------------------
(* The flag may be FALSE while flights are on the runway, but it is never    *)
(* TRUE over an empty one: in whatever order racing flights write it, no     *)
(* flight is turned away for nothing, and the flights never all turn one     *)
(* another away (landingwithoutsync.c:18, 26, 31).                           *)
OccupiedByAFlight ==
  /\ runway_occupied => Landing # {}
  /\ child = "exit" => \E f \in Flight : place[f] = "left"

(* "Collision!! Flight %d collided on an active runway!"                     *)
(* (landingwithoutsync.c:27): a flight that prints this and leaves has       *)
(* shared the runway with another one.                                       *)
CollisionIsReal == \A f \in Flight : place[f] = "left" => f \in met
=============================================================================
