----------------------------- MODULE LockPaths -----------------------------
(***************************************************************************)
(* The programs whose threads take mutexes one after the other and release *)
(* them in the reverse order: landingwithsync.c (the runway alone),        *)
(* deadlock.c (runway then taxiway, or taxiway then runway) and            *)
(* deadlockprevention.c (runway then taxiway for everybody).  A program is *)
(* a value of Path: the mutexes of each flight in the order it locks them. *)
(***************************************************************************)
EXTENDS FlightProcess, Sequences

CONSTANTS
  Lock,                 \* the mutexes of the program
  RunwayLock,           \* the one that stands for the runway
  Path                  \* Path[f]: the mutexes flight f locks, in order

\* A start routine locks each of its mutexes once (they are not recursive),
\* and the runway is one of them.
ASSUME PathAssumption ==
  /\ Path \in [Flight -> Seq(Lock)]
  /\ \A f \in Flight :
       /\ \A j, k \in 1..Len(Path[f]) : Path[f][j] = Path[f][k] => j = k
       /\ \E j \in 1..Len(Path[f]) : Path[f][j] = RunwayLock

\* airplane_landing of landingwithsync.c: the runway and nothing else.
AirplaneLanding == [f \in Flight |-> <<RunwayLock>>]

VARIABLES
  holder,               \* holder[l]: the flight whose thread owns mutex l, or Free
  held,                 \* held[f]: how many mutexes of its path f owns
  phase                 \* phase[f]: "acquiring" or "releasing"

lockVars == <<holder, held, phase>>
vars == <<processVars, lockVars>>

Free == 0

TypeOK ==
  /\ ProcessTypeOK
  /\ holder \in [Lock -> Flight \cup {Free}]
  /\ held \in [Flight -> Nat]
  /\ \A f \in Flight : held[f] \in 0..Len(Path[f])
  /\ phase \in [Flight -> {"acquiring", "releasing"}]

LockInit ==
  /\ holder = [l \in Lock |-> Free]
  /\ held = [f \in Flight |-> 0]
  /\ phase = [f \in Flight |-> "acquiring"]

Init == ProcessInit /\ LockInit

\* The mutex flight f locks next, while it still has one to lock.
Wanted(f) == Path[f][held[f] + 1]

Acquiring(f) ==
  /\ thread[f] = "running"
  /\ phase[f] = "acquiring"
  /\ held[f] < Len(Path[f])

\* Mutated form of Acquire: the mutex is taken from its owner.
AcquireUnguarded(f) ==
  /\ Acquiring(f)
  /\ holder' = [holder EXCEPT ![Wanted(f)] = f]
  /\ held' = [held EXCEPT ![f] = @ + 1]
  /\ phase' = [phase EXCEPT ![f] =
       IF held[f] + 1 = Len(Path[f]) THEN "releasing" ELSE "acquiring"]
  /\ UNCHANGED processVars

\* pthread_mutex_lock on the next mutex of the path: blocks while it is owned.
Acquire(f) ==
  /\ Acquiring(f)
  /\ holder[Wanted(f)] = Free
  /\ holder' = [holder EXCEPT ![Wanted(f)] = f]
  /\ held' = [held EXCEPT ![f] = @ + 1]
  /\ phase' = [phase EXCEPT ![f] =
       IF held[f] + 1 = Len(Path[f]) THEN "releasing" ELSE "acquiring"]
  /\ UNCHANGED processVars

\* Mutated form of Release: the first mutex is unlocked in place of the last.
ReleaseFirst(f) ==
  /\ thread[f] = "running"
  /\ phase[f] = "releasing" /\ held[f] > 0
  /\ holder' = [holder EXCEPT ![Path[f][1]] = Free]
  /\ held' = [held EXCEPT ![f] = @ - 1]
  /\ UNCHANGED <<processVars, phase>>

\* pthread_mutex_unlock, last mutex first.
Release(f) ==
  /\ thread[f] = "running"
  /\ phase[f] = "releasing" /\ held[f] > 0
  /\ holder' = [holder EXCEPT ![Path[f][held[f]]] = Free]
  /\ held' = [held EXCEPT ![f] = @ - 1]
  /\ UNCHANGED <<processVars, phase>>

\* Mutated form of PathReturn: the routine may return before unlocking.
PathReturnLocked(f) ==
  /\ phase[f] = "releasing"
  /\ Return(f)
  /\ UNCHANGED lockVars

\* The start routine returns once it has unlocked everything.
PathReturn(f) ==
  /\ phase[f] = "releasing" /\ held[f] = 0
  /\ Return(f)
  /\ UNCHANGED lockVars

Thread(f) == Acquire(f) \/ Release(f) \/ PathReturn(f)

Next ==
  \/ Main /\ UNCHANGED lockVars
  \/ \E f \in Flight : Thread(f)
  \/ Exited /\ UNCHANGED vars

(***************************************************************************)
(* Fairness: the kernel keeps running a thread that can run.  A flight     *)
(* locks each mutex once, so a mutex others compete for is eventually free *)
(* for good and weak fairness of each thread is enough.                    *)
(***************************************************************************)
Fairness == WF_vars(Main /\ UNCHANGED lockVars) /\ \A f \in Flight : WF_vars(Thread(f))

Spec == Init /\ [][Next]_vars /\ Fairness
-----------------------------------------------------------------------------
\* The mutexes flight f owns, going by how far its start routine has come.
HeldLocks(f) == {Path[f][j] : j \in 1..held[f]}

\* pthread_mutex_lock has been called and will not return in this state.
Blocked(f) == Acquiring(f) /\ holder[Wanted(f)] # Free

\* A set of flights each blocked on a mutex that another of them owns.
CircularWait ==
  \E S \in SUBSET Flight :
    S # {} /\ \A f \in S : Blocked(f) /\ holder[Wanted(f)] \in S

(* The kernel's owner of a mutex is the flight whose code believes it owns   *)
(* it, so no two flights are between lock and unlock of the same mutex       *)
(* ("guaranteed *exclusive*", landingwithsync.c:25).                         *)
MutexOwnership ==
  \A l \in Lock, f \in Flight : holder[l] = f <=> l \in HeldLocks(f)

(* Locking in one fixed order leaves no circular wait: the claim of          *)
(* deadlockprevention.c:11-15.                                               *)
NoCircularWait == ~CircularWait

(* When no thread can go on, it is because of a circular wait, never because *)
(* a flight returned with a mutex still locked (deadlock.c:25, 48).          *)
StuckOnlyInCircularWait ==
  /\ \E f \in Flight : thread[f] = "running"
  /\ \A f \in Flight : thread[f] = "running" => Blocked(f)
  => CircularWait

(* "permanently freezes here due to circular wait" (deadlock.c:25): no step  *)
(* of any thread or of main ever undoes a circular wait.                     *)
FreezeIsPermanent == [][CircularWait => CircularWait']_vars

(* deadlock.c either runs to its end or ends up in a circular wait.          *)
LandOrFreeze == (parent = "wait") ~> (parent = "exit" \/ CircularWait)

(* Every flight completes and the parent sees its child terminate, once the  *)
(* fork has succeeded.                                                       *)
Terminates == (parent = "wait") ~> (parent = "exit")

(* The flights use the runway as the abstract module Runway says: one at a   *)
(* time, each of them once.                                                  *)
OnRunway == {f \in Flight : RunwayLock \in HeldLocks(f)}
Landed == {f \in Flight : phase[f] = "releasing" /\ RunwayLock \notin HeldLocks(f)}

Airport == INSTANCE Runway WITH landing <- OnRunway, landed <- Landed

ImplementsRunway == Airport!Spec
=============================================================================
