---------------------------- MODULE FinalProgram ----------------------------
(***************************************************************************)
(* finalprogram.c: the integrated program.  Each flight first descends by  *)
(* round robin (module RoundRobin), then lands through the runway and the  *)
(* taxiway (module LockPaths), and only then does its thread return.  The  *)
(* two parts share the threads and nothing else, and both run at once:     *)
(* some flights land while others still descend.                           *)
(***************************************************************************)
EXTENDS FlightProcess, Sequences

CONSTANT StartAlt       \* quanta from the initial altitude to the ground

ASSUME QuantaAssumption == StartAlt \in Nat \ {0}

VARIABLES
  turn_lock, current, alt, step,        \* the descent, see RoundRobin
  holder, held, phase                   \* the landing, see LockPaths

turnVars == <<turn_lock, current, alt, step>>
lockVars == <<holder, held, phase>>
vars == <<processVars, turnVars, lockVars>>

AirportLocks == {"runway", "taxiway"}

\* Mutated form of LandingPath: the second flight locks the taxiway first.
LandingPathMixed == [f \in Flight |->
  IF f = 2 THEN <<"taxiway", "runway">> ELSE <<"runway", "taxiway">>]

\* Every flight locks the runway, then the taxiway.
LandingPath == [f \in Flight |-> <<"runway", "taxiway">>]

RR == INSTANCE RoundRobin

LP == INSTANCE LockPaths WITH
  Lock <- AirportLocks, RunwayLock <- "runway", Path <- LandingPath

Init == ProcessInit /\ RR!TurnInit /\ LP!LockInit

\* The while loop: as in roundrobin.c.
Descent(f) == RR!Descent(f) /\ UNCHANGED lockVars

\* Mutated form of Landing: the loop is left with turn_lock still locked.
LandingHoldingTurn(f) ==
  /\ step[f] \in {"loop", "unlock"} /\ alt[f] = 0
  /\ LP!Acquire(f) \/ LP!Release(f)
  /\ UNCHANGED turnVars

\* Mutated form of Landing: the runway is asked for before the flight is down.
LandingInTheAir(f) ==
  /\ step[f] = "loop"
  /\ LP!Acquire(f) \/ LP!Release(f)
  /\ UNCHANGED turnVars

\* After the loop, on the ground: as in deadlockprevention.c.
Landing(f) ==
  /\ step[f] = "loop" /\ alt[f] = 0
  /\ LP!Acquire(f) \/ LP!Release(f)
  /\ UNCHANGED turnVars

\* Mutated form of LandingReturn: a flight that has the runway returns.
LandingReturnEarly(f) ==
  /\ step[f] = "loop" /\ alt[f] = 0
  /\ phase[f] = "releasing"
  /\ Return(f)
  /\ UNCHANGED <<turnVars, lockVars>>

\* The start routine returns once both mutexes are unlocked.
LandingReturn(f) ==
  /\ step[f] = "loop" /\ alt[f] = 0
  /\ LP!PathReturn(f)
  /\ UNCHANGED turnVars

Thread(f) == Descent(f) \/ Landing(f) \/ LandingReturn(f)

MainStep == Main /\ UNCHANGED <<turnVars, lockVars>>

Next ==
  \/ MainStep
  \/ \E f \in Flight : Thread(f)
  \/ Exited /\ UNCHANGED vars

\* As in RoundRobin and LockPaths: only the contended turn_lock needs more
\* than weak fairness.
Fairness ==
  /\ WF_vars(MainStep)
  /\ \A f \in Flight :
       /\ WF_vars(Thread(f))
       /\ SF_vars(RR!LockTurn(f) /\ UNCHANGED lockVars)

Spec == Init /\ [][Next]_vars /\ Fairness
-----------------------------------------------------------------------------
TypeOK == RR!TypeOK /\ LP!TypeOK

\* The flights that own the mutex flight f is blocked on, if any.
WaitsFor(f) ==
  IF LP!Acquiring(f) /\ alt[f] = 0 /\ step[f] = "loop"
  THEN {holder[LP!Wanted(f)]} \ {0, f}
  ELSE IF thread[f] = "running" /\ alt[f] > 0 /\ step[f] = "loop"
  THEN {turn_lock} \ {0}
  ELSE {}

(* No set of flights waits for one another over the three mutexes together:  *)
(* a descending flight never waits for a landing one, whatever the landing   *)
(* flight itself waits for (finalprogram.c keeps no mutex across the two).   *)
NoCircularWait ==
  ~ \E S \in SUBSET Flight :
      S # {} /\ \A f \in S : WaitsFor(f) \cap S # {}

(* The descent never waits for the runway: the owner of turn_lock is in the  *)
(* air or about to unlock, and owns no other mutex.                          *)
DescentNeverBlocked ==
  turn_lock # 0 => held[turn_lock] = 0 /\ WaitsFor(turn_lock) = {}

(* The mutexes are destroyed only after every thread has returned, with all  *)
(* of them unlocked, and the parent leaves last.                             *)
OrderlyShutdown ==
  /\ child = "exit" =>
       /\ \A f \in Flight : thread[f] = "returned"
       /\ turn_lock = 0
       /\ \A l \in AirportLocks : holder[l] = 0
  /\ parent = "exit" => child \in {"none", "exit"}

\* A thread that is not blocked, in the air by turn_lock or on the ground by a
\* mutex of the landing.
CanGoOn(f) ==
  /\ thread[f] = "running"
  /\ step[f] = "loop" => IF alt[f] > 0 THEN turn_lock = 0 ELSE ~LP!Blocked(f)

(* Until all threads have returned, one that runs can go on: the two halves  *)
(* bring no deadlock into each other, whatever mutex each flight waits for   *)
(* (finalprogram.c:16-69).                                                   *)
SomebodyGoesOn ==
  (\E f \in Flight : thread[f] = "running") => \E f \in Flight : CanGoOn(f)

(* Seen from outside, the flights come down in turn, land one at a time and  *)
(* once each, and not before they are down (finalprogram.c:20-66).           *)
Flights == INSTANCE Arrivals WITH
  turn <- current,
  height <- [f \in Flight |-> RR!Settled(f)],
  landing <- LP!OnRunway,
  landed <- LP!Landed

ImplementsArrivals == Flights!Spec

(* Every flight descends, lands and returns, and the parent sees its child   *)
(* terminate, once the fork has succeeded.                                   *)
Terminates == (parent = "wait") ~> (parent = "exit")
=============================================================================
