------------------------- MODULE FinalProgramProofs -------------------------
(***************************************************************************)
(* The integrated program inherits what its two halves guarantee: each of  *)
(* its steps is a step of the round robin or leaves it alone, and likewise *)
(* for the locking of the runway and the taxiway.                          *)
(***************************************************************************)
EXTENDS FinalProgram, FlightProcessProofs

RRP == INSTANCE RoundRobinProofs

LPP == INSTANCE LockPathsProofs WITH
  Lock <- AirportLocks, RunwayLock <- "runway", Path <- LandingPath

LEMMA RoundRobinAssumptions == RRP!NAssumption /\ RRP!StartAltAssumption
BY NAssumption, QuantaAssumption DEF RRP!NAssumption, RRP!StartAltAssumption

LEMMA LockPathsAssumptions == LPP!NAssumption /\ LPP!PathAssumption
<1>1. LPP!Flight = Flight
  BY DEF LPP!Flight, Flight
<1>2. \A f \in Flight : LandingPath[f] = <<"runway", "taxiway">>
  BY DEF LandingPath
<1> QED BY NAssumption, <1>1, <1>2 DEF LPP!NAssumption, LPP!PathAssumption, LandingPath, AirportLocks

\* Every step is one of the round robin or leaves it alone.
LEMMA RoundRobinStep == [Next]_vars => [RRP!Next]_(RRP!vars)
<1> SUFFICES ASSUME [Next]_vars PROVE [RRP!Next]_(RRP!vars)
  OBVIOUS
<1> USE DEF RRP!vars, RRP!processVars, RRP!turnVars, turnVars, processVars
<1>1. CASE MainStep
  BY <1>1
  DEF MainStep, Main, Fork, CreateThread, JoinThread, ChildExit, ParentExit,
      RRP!Next, RRP!Main, RRP!Fork, RRP!CreateThread, RRP!JoinThread,
      RRP!ChildExit, RRP!ParentExit
<1>2. ASSUME NEW f \in Flight, Descent(f) PROVE RRP!Next
  <2>1. RRP!Descent(f)
    BY <1>2
    DEF Descent, RR!Descent, RR!LockTurn, RR!Descend, RR!PassTurn, RR!SkipTurn,
        RR!UnlockTurn, RR!Goto, RR!NextTurn, RR!Free, RR!processVars,
        RRP!Descent, RRP!LockTurn, RRP!Descend, RRP!PassTurn, RRP!SkipTurn,
        RRP!UnlockTurn, RRP!Goto, RRP!NextTurn, RRP!Free
  <2> QED BY <2>1 DEF RRP!Next, RRP!Flight, Flight
<1>3. ASSUME NEW f \in Flight, Landing(f) PROVE UNCHANGED RRP!vars
  BY <1>3 DEF Landing, LP!Acquire, LP!Release, LP!processVars
<1>4. ASSUME NEW f \in Flight, LandingReturn(f) PROVE RRP!Next
  BY <1>4 DEF LandingReturn, LP!PathReturn, LP!Return, RRP!Next,
              RRP!DescentReturn, RRP!Return, RRP!Flight, Flight
<1>5. CASE UNCHANGED vars
  BY <1>5 DEF vars
<1> QED BY <1>1, <1>2, <1>3, <1>4, <1>5 DEF Next, Thread

\* Every step is one of the locking of the paths or leaves it alone.
LEMMA LockPathsStep == [Next]_vars => [LPP!Next]_(LPP!vars)
<1> SUFFICES ASSUME [Next]_vars PROVE [LPP!Next]_(LPP!vars)
  OBVIOUS
<1> USE DEF LPP!vars, LPP!processVars, LPP!lockVars, lockVars, processVars
<1>1. CASE MainStep
  BY <1>1
  DEF MainStep, Main, Fork, CreateThread, JoinThread, ChildExit, ParentExit,
      LPP!Next, LPP!Main, LPP!Fork, LPP!CreateThread, LPP!JoinThread,
      LPP!ChildExit, LPP!ParentExit
<1>2. ASSUME NEW f \in Flight, Descent(f) PROVE UNCHANGED LPP!vars
  BY <1>2
  DEF Descent, RR!Descent, RR!LockTurn, RR!Descend, RR!PassTurn, RR!SkipTurn,
      RR!UnlockTurn, RR!processVars
<1>3. ASSUME NEW f \in Flight, Landing(f) \/ LandingReturn(f) PROVE LPP!Next
  <2>1. LPP!Thread(f)
    BY <1>3
    DEF Landing, LandingReturn, LP!Acquire, LP!Acquiring, LP!Wanted, LP!Free,
        LP!Release, LP!PathReturn, LP!Return, LP!processVars, LP!lockVars,
        LPP!Thread, LPP!Acquire, LPP!Acquiring, LPP!Wanted, LPP!Free,
        LPP!Release, LPP!PathReturn, LPP!Return
  <2> QED BY <2>1 DEF LPP!Next, LPP!Flight, Flight
<1>4. CASE UNCHANGED vars
  BY <1>4 DEF vars
<1> QED BY <1>1, <1>2, <1>3, <1>4 DEF Next, Thread

LEMMA InitBoth == Init => RRP!Init /\ LPP!Init
BY DEF Init, ProcessInit, RR!TurnInit, LP!LockInit, RR!Free, LP!Free, RR!Flight, LP!Flight, Flight,
       RRP!Init, RRP!ProcessInit, RRP!TurnInit, RRP!Flight, RRP!Free,
       LPP!Init, LPP!ProcessInit, LPP!LockInit, LPP!Flight, LPP!Free
-----------------------------------------------------------------------------
\* What the order of the two halves in airplane_lifecycle adds: a flight with
\* a mutex of the landing is on the ground and out of the loop, and one that
\* has returned has no mutex left.
LandingInv ==
  \A f \in Flight :
    /\ held[f] > 0 => alt[f] = 0 /\ step[f] = "loop"
    /\ thread[f] = "returned" => held[f] = 0

IInv == RRP!IInv /\ LPP!IInv /\ LandingInv

\* The parts of the two invariants that the proofs below use.
LEMMA Parts ==
  ASSUME IInv
  PROVE  /\ held \in [Flight -> Nat]
         /\ thread \in [Flight -> {"new", "running", "returned"}]
         /\ alt \in [Flight -> Nat]
         /\ step \in [Flight -> RRP!Steps]
         /\ turn_lock \in Flight \cup {0}
         /\ \A f \in Flight : step[f] # "loop" <=> turn_lock = f
         /\ \A f \in Flight : step[f] # "loop" => thread[f] = "running"
         /\ \A f \in Flight : f \in Int /\ f > 0
<1>1. RRP!Flight = Flight /\ LPP!Flight = Flight /\ RRP!Free = 0
  BY DEF RRP!Flight, LPP!Flight, Flight, RRP!Free
<1>2. held \in [Flight -> Nat]
  BY <1>1 DEF IInv, LPP!IInv, LPP!TypeOK
<1>3. thread \in [Flight -> {"new", "running", "returned"}]
  BY <1>1 DEF IInv, LPP!IInv, LPP!ProcessInv, LPP!ProcessTypeOK
<1>4. alt \in [Flight -> Nat]
  BY <1>1, QuantaAssumption DEF IInv, RRP!IInv, RRP!TypeOK
<1>5. step \in [Flight -> RRP!Steps] /\ turn_lock \in Flight \cup {0}
  BY <1>1 DEF IInv, RRP!IInv, RRP!TypeOK
<1>6. \A f \in Flight : step[f] # "loop" <=> turn_lock = f
  BY <1>1 DEF IInv, RRP!IInv, RRP!TurnLockOwnership
<1>7. \A f \in Flight : step[f] # "loop" => thread[f] = "running"
  BY <1>1 DEF IInv, RRP!IInv, RRP!StepInv
<1>8. \A f \in Flight : f \in Int /\ f > 0
  BY NAssumption DEF Flight
<1> QED BY <1>2, <1>3, <1>4, <1>5, <1>6, <1>7, <1>8

LEMMA InitInv == Init => IInv
<1> SUFFICES ASSUME Init PROVE IInv
  OBVIOUS
<1>1. RRP!IInv /\ LPP!IInv
  BY InitBoth, RoundRobinAssumptions, LockPathsAssumptions, RRP!InitInv, LPP!InitInv
<1>2. LandingInv
  BY DEF Init, ProcessInit, LP!LockInit, LP!Flight, LandingInv, Flight
<1> QED BY <1>1, <1>2 DEF IInv

LEMMA NextInv == IInv /\ [Next]_vars => IInv'
<1> SUFFICES ASSUME IInv, [Next]_vars PROVE IInv'
  OBVIOUS
<1>1. RRP!IInv'
  BY RoundRobinStep, RoundRobinAssumptions, RRP!NextInv DEF IInv
<1>2. LPP!IInv'
  BY LockPathsStep, LockPathsAssumptions, LPP!NextInv DEF IInv
<1>3. LandingInv'
  <2>1. ASSUME NEW f \in Flight, Descent(f) PROVE LandingInv'
    <3>1. held' = held /\ thread' = thread /\ held[f] = 0
      BY <2>1, Parts
      DEF IInv, LandingInv, Descent, lockVars, RR!Descent, RR!LockTurn, RR!Descend,
          RR!PassTurn, RR!SkipTurn, RR!UnlockTurn, RR!processVars
    <3>2. \A g \in Flight : g # f => alt'[g] = alt[g] /\ step'[g] = step[g]
      BY <2>1, Parts
      DEF Descent, RR!Descent, RR!LockTurn, RR!Descend, RR!PassTurn, RR!SkipTurn,
          RR!UnlockTurn, RR!Goto
    <3> QED BY <3>1, <3>2 DEF IInv, LandingInv
  <2>2. ASSUME NEW f \in Flight, Landing(f) PROVE LandingInv'
    <3>1. /\ alt[f] = 0 /\ step[f] = "loop" /\ thread[f] = "running"
          /\ alt' = alt /\ step' = step /\ thread' = thread
          /\ \A g \in Flight : g # f => held'[g] = held[g]
      BY <2>2, Parts DEF Landing, LP!Acquire, LP!Acquiring, LP!Release, LP!processVars, turnVars
    <3> QED BY <3>1 DEF IInv, LandingInv
  <2>3. ASSUME NEW f \in Flight, LandingReturn(f) PROVE LandingInv'
    BY <2>3, Parts
    DEF IInv, LandingInv, LandingReturn, LP!PathReturn, LP!Return, LP!lockVars, turnVars
  <2>4. CASE MainStep
    <3>1. \A f \in Flight : thread'[f] = "returned" => thread[f] = "returned"
      BY <2>4, Parts DEF MainStep, Main, Fork, CreateThread, JoinThread, ChildExit, ParentExit
    <3> QED BY <2>4, <3>1 DEF IInv, LandingInv, MainStep, turnVars, lockVars
  <2>5. CASE UNCHANGED vars
    BY <2>5 DEF IInv, LandingInv, vars, processVars, turnVars, lockVars
  <2> QED BY <2>1, <2>2, <2>3, <2>4, <2>5 DEF Next, Thread
<1> QED BY <1>1, <1>2, <1>3 DEF IInv

LEMMA Invariance == Spec => []IInv
BY InitInv, NextInv, PTL DEF Spec

\* The owner of turn_lock waits for no mutex.
LEMMA TurnOwnerRuns ==
  ASSUME IInv, NEW f \in Flight, turn_lock = f
  PROVE  held[f] = 0 /\ WaitsFor(f) = {}
<1>1. step[f] # "loop"
  BY Parts
<1>2. held[f] = 0
  BY <1>1, Parts DEF IInv, LandingInv
<1> QED BY <1>1, <1>2 DEF WaitsFor

(* Whoever owns turn_lock goes on without waiting and owns nothing else, so  *)
(* the descent of the others never depends on the runway.                    *)
THEOREM DescentFree == Spec => []DescentNeverBlocked
<1>1. IInv => DescentNeverBlocked
  BY TurnOwnerRuns, Parts DEF DescentNeverBlocked
<1> QED BY <1>1, Invariance, PTL

\* No circular wait for the runway and the taxiway alone.
LEMMA LandingNoCircularWait == IInv => LPP!NoCircularWait
<1> SUFFICES ASSUME IInv PROVE LPP!NoCircularWait
  OBVIOUS
<1>1. \A f \in LPP!Flight : LandingPath[f] = <<"runway", "taxiway">>
  BY DEF LPP!Flight, Flight, LandingPath
<1>2. "runway" \in AirportLocks /\ "taxiway" \in AirportLocks /\ "taxiway" # "runway"
  BY DEF AirportLocks
<1> QED BY <1>1, <1>2, LockPathsAssumptions, LPP!FixedOrder DEF IInv

(* No set of flights waits for one another over the three mutexes together,  *)
(* for any number of flights (finalprogram.c:16-69).                         *)
THEOREM NoDeadlock == Spec => []NoCircularWait
<1>1. IInv => NoCircularWait
  <2> SUFFICES ASSUME IInv, NEW S \in SUBSET Flight, S # {},
                      \A f \in S : WaitsFor(f) \cap S # {}
               PROVE  FALSE
    BY DEF NoCircularWait
  <2>1. \A f \in S : turn_lock # f
    BY TurnOwnerRuns
  <2>2. ASSUME NEW f \in S
        PROVE  /\ LP!Acquiring(f) /\ WaitsFor(f) = {holder[LP!Wanted(f)]} \ {0, f}
    BY <2>1 DEF WaitsFor
  <2>3. ASSUME NEW f \in S
        PROVE  LPP!Blocked(f) /\ holder[LPP!Wanted(f)] \in S
    <3>1. LPP!Acquiring(f) /\ LPP!Wanted(f) = LP!Wanted(f)
      BY <2>2 DEF LP!Acquiring, LPP!Acquiring, LP!Wanted, LPP!Wanted
    <3>2. holder[LP!Wanted(f)] \in S
      BY <2>2
    <3> QED BY <3>1, <3>2, Parts DEF LPP!Blocked, LPP!Free
  <2>4. S \in SUBSET LPP!Flight
    BY DEF LPP!Flight, Flight
  <2> QED BY <2>3, <2>4, LandingNoCircularWait DEF LPP!NoCircularWait, LPP!CircularWait
<1> QED BY <1>1, Invariance, PTL

(* The mutexes are destroyed free and after all threads have returned, and   *)
(* the parent outlives its child (finalprogram.c:92-105).                    *)
THEOREM Shutdown == Spec => []OrderlyShutdown
<1>1. IInv => OrderlyShutdown
  <2> SUFFICES ASSUME IInv PROVE OrderlyShutdown
    OBVIOUS
  <2>1. LPP!Flight = Flight
    BY DEF LPP!Flight, Flight
  <2>2. ASSUME child = "exit"
        PROVE  /\ \A f \in Flight : thread[f] = "returned"
               /\ turn_lock = 0
               /\ \A l \in AirportLocks : holder[l] = 0
    <3>1. \A f \in Flight : thread[f] = "returned"
      BY <2>1, <2>2 DEF IInv, LPP!IInv, LPP!ProcessInv
    <3>2. turn_lock = 0
      BY <3>1, Parts
    <3>3. \A f \in Flight : LPP!HeldLocks(f) = {}
      BY <3>1, Parts DEF IInv, LandingInv, LPP!HeldLocks
    <3>4. \A l \in AirportLocks : holder[l] = 0
      <4>1. holder \in [AirportLocks -> Flight \cup {0}]
        BY <2>1 DEF IInv, LPP!IInv, LPP!TypeOK, LPP!Free
      <4>2. \A l \in AirportLocks, f \in Flight : holder[l] # f
        BY <2>1, <3>3 DEF IInv, LPP!IInv, LPP!MutexOwnership
      <4> QED BY <4>1, <4>2
    <3> QED BY <3>1, <3>2, <3>4
  <2>3. parent = "exit" => child \in {"none", "exit"}
    BY DEF IInv, LPP!IInv, LPP!ProcessInv
  <2> QED BY <2>2, <2>3 DEF OrderlyShutdown
<1> QED BY <1>1, Invariance, PTL

-----------------------------------------------------------------------------
\* What the two abstract halves see of the flights is what Arrivals sees.
LEMMA SameTurns ==
  /\ RRP!Order!Init <=> Flights!Turns!Init
  /\ [RRP!Order!Quantum]_(RRP!Order!vars) <=> [Flights!Turns!Quantum]_(Flights!Turns!vars)
BY DEF RRP!Order!Init, Flights!Turns!Init, RRP!Order!Quantum, Flights!Turns!Quantum,
       RRP!Order!vars, Flights!Turns!vars, RRP!Settled, RR!Settled, RRP!Flight, Flight

LEMMA SameStrip ==
  /\ LPP!Airport!Init <=> Flights!Strip!Init
  /\ [LPP!Airport!Next]_(LPP!Airport!vars) <=> [Flights!Strip!Next]_(Flights!Strip!vars)
<1> USE DEF LPP!OnRunway, LP!OnRunway, LPP!Landed, LP!Landed, LPP!HeldLocks, LP!HeldLocks,
            LPP!Flight, LP!Flight
<1>1. LPP!OnRunway = LP!OnRunway /\ LPP!Landed = LP!Landed /\ LPP!Flight = 1..N
  OBVIOUS
<1>2. LPP!OnRunway' = LP!OnRunway' /\ LPP!Landed' = LP!Landed'
  OBVIOUS
<1> HIDE DEF LPP!OnRunway, LP!OnRunway, LPP!Landed, LP!Landed, LPP!Flight
<1> QED BY <1>1, <1>2
  DEF LPP!Airport!Init, Flights!Strip!Init, LPP!Airport!Next, Flights!Strip!Next,
      LPP!Airport!Land, Flights!Strip!Land, LPP!Airport!Leave, Flights!Strip!Leave,
      LPP!Airport!vars, Flights!Strip!vars

\* A flight on the runway is down.
DownOnRunway == \A f \in LP!OnRunway : f \in Flight /\ RR!Settled(f) = 0

LEMMA RunwayAfterDescent == IInv => DownOnRunway
<1> SUFFICES ASSUME IInv, NEW f \in LP!OnRunway PROVE f \in Flight /\ RR!Settled(f) = 0
  BY DEF DownOnRunway
<1>1. f \in Flight /\ LP!HeldLocks(f) # {}
  BY DEF LP!OnRunway, LP!Flight, Flight
<1>2. held[f] > 0
  BY <1>1, Parts DEF LP!HeldLocks
<1>3. alt[f] = 0 /\ step[f] = "loop"
  BY <1>1, <1>2 DEF IInv, LandingInv
<1> QED BY <1>1, <1>3 DEF RR!Settled

\* A step of the landing as Arrivals sees it.
LEMMA LandingArrives ==
  ASSUME DownOnRunway', UNCHANGED turnVars,
         [Flights!Strip!Next]_(Flights!Strip!vars)
  PROVE  [Flights!Next]_(Flights!vars)
<1>1. UNCHANGED <<current, [f \in Flight |-> RR!Settled(f)]>>
  BY DEF turnVars, RR!Settled
<1>2. CASE UNCHANGED Flights!Strip!vars
  BY <1>1, <1>2 DEF Flights!Strip!vars, Flights!vars
<1>3. ASSUME NEW f \in 1..N, Flights!Strip!Leave(f) PROVE Flights!Next
  BY <1>1, <1>3 DEF Flights!Next, Flights!Leave
<1>4. ASSUME NEW f \in 1..N, Flights!Strip!Land(f) PROVE Flights!Next
  <2>1. f \in LP!OnRunway'
    BY <1>4 DEF Flights!Strip!Land
  <2>2. RR!Settled(f)' = 0 /\ f \in Flight
    BY <2>1, <1>4 DEF DownOnRunway, Flight
  <2>3. [g \in Flight |-> RR!Settled(g)][f] = 0
    BY <1>1, <2>2
  <2> QED BY <1>1, <1>4, <2>3 DEF Flights!Next, Flights!Land
<1> QED BY <1>2, <1>3, <1>4 DEF Flights!Strip!Next

\* Every step of the program is one of Arrivals, or changes nothing of it.
LEMMA ArrivalsStep == IInv /\ DownOnRunway' /\ [Next]_vars => [Flights!Next]_(Flights!vars)
<1> SUFFICES ASSUME IInv, DownOnRunway', [Next]_vars PROVE [Flights!Next]_(Flights!vars)
  OBVIOUS
<1>1. [Flights!Turns!Quantum]_(Flights!Turns!vars)
  BY RoundRobinStep, RoundRobinAssumptions, RRP!TurnOrderStep, SameTurns DEF IInv
<1>2. [Flights!Strip!Next]_(Flights!Strip!vars)
  BY LockPathsStep, LockPathsAssumptions, LPP!RunwayStep, SameStrip DEF IInv
<1>3. CASE UNCHANGED turnVars
  BY <1>2, <1>3, LandingArrives
<1>4. CASE UNCHANGED lockVars
  <2>1. UNCHANGED <<LP!OnRunway, LP!Landed>>
    BY <1>4 DEF lockVars, LP!OnRunway, LP!Landed, LP!HeldLocks
  <2>2. CASE Flights!Turns!Quantum
    BY <2>1, <2>2 DEF Flights!Next, Flights!Descend
  <2>3. CASE UNCHANGED Flights!Turns!vars
    BY <2>1, <2>3 DEF Flights!vars, Flights!Turns!vars
  <2> QED BY <1>1, <2>2, <2>3
<1>5. UNCHANGED turnVars \/ UNCHANGED lockVars
  BY DEF Next, MainStep, Thread, Descent, Landing, LandingReturn, LP!PathReturn, vars
<1> QED BY <1>3, <1>4, <1>5

(* The integrated program as its flights see it: they come down a quantum at *)
(* a time and in turn, land one by one and once each, and none before it is  *)
(* down, for any number of flights and any altitude (finalprogram.c:20-66).  *)
THEOREM ArrivalsRefinement == Spec => ImplementsArrivals
<1>1. Init => Flights!Init
  BY InitBoth, RRP!TurnOrderInit, LPP!RunwayInit, RoundRobinAssumptions, LockPathsAssumptions,
     SameTurns, SameStrip DEF Flights!Init
<1> QED BY <1>1, ArrivalsStep, RunwayAfterDescent, Invariance, PTL DEF Spec, ImplementsArrivals, Flights!Spec
-----------------------------------------------------------------------------
(* Until all threads have returned, one of those that run is not blocked, so *)
(* the program never stops halfway, for any number of flights: were all of   *)
(* them blocked, nobody would have turn_lock, and they would be in a         *)
(* circular wait for the other two mutexes (finalprogram.c:16-69).           *)
THEOREM NobodyStuck == Spec => []SomebodyGoesOn
<1>1. ASSUME IInv, LPP!RunInv PROVE SomebodyGoesOn
  <2> SUFFICES ASSUME NEW r \in Flight, thread[r] = "running", \A f \in Flight : ~CanGoOn(f)
               PROVE  FALSE
    BY DEF SomebodyGoesOn
  <2>1. turn_lock = 0
    <3> SUFFICES ASSUME turn_lock # 0 PROVE FALSE
      OBVIOUS
    <3>1. PICK f \in Flight : turn_lock = f
      BY <1>1, Parts
    <3> QED BY <1>1, <3>1, Parts DEF CanGoOn
  <2>2. ASSUME NEW f \in Flight, thread[f] = "running" PROVE LP!Blocked(f)
    BY <2>1, <2>2 DEF CanGoOn
  <2>3. \A f \in Flight : LP!Blocked(f) => LPP!Blocked(f)
    BY DEF LP!Blocked, LPP!Blocked, LP!Acquiring, LPP!Acquiring, LP!Wanted, LPP!Wanted,
           LP!Free, LPP!Free
  <2>4. LPP!CircularWait
    <3>1. LPP!StuckOnlyInCircularWait
      BY <1>1, LockPathsAssumptions, LPP!RunningCircle DEF IInv
    <3>2. LPP!Flight = Flight
      BY DEF LPP!Flight, Flight
    <3> QED BY <2>2, <2>3, <3>1, <3>2 DEF LPP!StuckOnlyInCircularWait
  <2> QED BY <1>1, <2>4, LandingNoCircularWait DEF LPP!NoCircularWait
<1>2. Init => LPP!RunInv
  BY InitBoth, LockPathsAssumptions, LPP!RunInit
<1>3. IInv /\ LPP!RunInv /\ [Next]_vars => LPP!RunInv'
  BY LockPathsStep, LockPathsAssumptions, LPP!RunStep DEF IInv
<1> QED BY <1>1, <1>2, <1>3, Invariance, PTL DEF Spec
=============================================================================
