---------------------- MODULE LandingWithoutSyncProofs ----------------------
(***************************************************************************)
(* What the data race of landingwithoutsync.c leaves intact for any number *)
(* of flights.  The flag alone is not inductive: that somebody lands when  *)
(* all have returned rests on what a flight that turned away had seen.     *)
(***************************************************************************)
EXTENDS LandingWithoutSync, FlightProcessProofs

Places == {"nearing", "clear", "landing", "left", "away"}

\* The flag is TRUE only over a flight that lands; a flight turned away saw
\* one, which lands still or has left; a thread returns only at the end.
RunwayInv ==
  /\ place \in [Flight -> Places]
  /\ runway_occupied \in BOOLEAN
  /\ runway_occupied => Landing # {}
  /\ (\E f \in Flight : place[f] = "away") => \E g \in Flight : place[g] \in {"landing", "left"}
  /\ \A f \in Flight : thread[f] = "returned" => place[f] \in {"left", "away"}

IInv == ProcessInv /\ RunwayInv

LEMMA InitInv == Init => IInv
BY ProcessInitInv DEF Init, RunwayInit, IInv, RunwayInv, Places, ProcessInit

LEMMA DecideInv ==
  ASSUME IInv, NEW f \in Flight, Decide(f)
  PROVE  RunwayInv'
BY DEF IInv, RunwayInv, Decide, Goto, Landing, Places, processVars

LEMMA LandInv ==
  ASSUME IInv, NEW f \in Flight, Land(f)
  PROVE  RunwayInv'
BY DEF IInv, RunwayInv, Land, Goto, Landing, Places, processVars

LEMMA LeaveInv ==
  ASSUME IInv, NEW f \in Flight, Leave(f)
  PROVE  RunwayInv'
BY DEF IInv, RunwayInv, Leave, Goto, Landing, Places, processVars

\* main creates threads and joins them, and returns none.
LEMMA MainReturnsNone ==
  ASSUME ProcessInv, Main
  PROVE  \A f \in Flight : thread'[f] = "returned" => thread[f] = "returned"
BY NAssumption DEF ProcessInv, ProcessTypeOK, Flight, Main, Fork, CreateThread, JoinThread,
                   ChildExit, ParentExit

LEMMA NextInv == IInv /\ [Next]_vars => IInv'
<1> SUFFICES ASSUME IInv, [Next]_vars PROVE IInv'
  OBVIOUS
<1>1. CASE Main /\ UNCHANGED runwayVars
  <2>1. ProcessInv'
    BY <1>1, MainInv DEF IInv
  <2>2. RunwayInv'
    BY <1>1, MainReturnsNone DEF IInv, RunwayInv, runwayVars, Landing
  <2> QED BY <2>1, <2>2 DEF IInv
<1>2. ASSUME NEW f \in Flight, Decide(f) \/ Land(f) \/ Leave(f) PROVE IInv'
  <2>1. ProcessInv'
    BY <1>2, ProcessStutter DEF IInv, Decide, Land, Leave
  <2> QED BY <1>2, <2>1, DecideInv, LandInv, LeaveInv DEF IInv
<1>3. ASSUME NEW f \in Flight, LandingReturn(f) PROVE IInv'
  <2>1. ProcessInv'
    BY <1>3, ReturnInv DEF IInv, LandingReturn
  <2>2. RunwayInv'
    BY <1>3 DEF IInv, ProcessInv, ProcessTypeOK, RunwayInv, LandingReturn, Return, runwayVars, Landing
  <2> QED BY <2>1, <2>2 DEF IInv
<1>4. CASE UNCHANGED vars
  <2>1. ProcessInv'
    BY <1>4, ProcessStutter DEF IInv, vars
  <2> QED BY <1>4, <2>1 DEF IInv, RunwayInv, vars, processVars, runwayVars, Landing
<1> QED BY <1>1, <1>2, <1>3, <1>4 DEF Next, Thread

(* However many flights race for the flag, and in whatever order they read   *)
(* and write it, it is TRUE only while somebody is on the runway, and when   *)
(* the child has joined them all at least one has landed                     *)
(* (landingwithoutsync.c:18, 26, 31).                                        *)
THEOREM SomebodyLands == Spec => []OccupiedByAFlight
<1>1. IInv => OccupiedByAFlight
  <2> SUFFICES ASSUME IInv, child = "exit" PROVE \E f \in Flight : place[f] = "left"
    BY DEF IInv, RunwayInv, OccupiedByAFlight
  <2>1. \A f \in Flight : place[f] \in {"left", "away"}
    BY DEF IInv, ProcessInv, RunwayInv
  <2>2. 1 \in Flight
    BY NAssumption DEF Flight
  <2> QED BY <2>1, <2>2 DEF IInv, RunwayInv
<1> QED BY <1>1, InitInv, NextInv, PTL DEF Spec
=============================================================================
