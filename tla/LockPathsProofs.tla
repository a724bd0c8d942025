-------------------------- MODULE LockPathsProofs --------------------------
(***************************************************************************)
(* What holds of LockPaths for every number of flights and every choice of *)
(* paths.  The inductive invariant is the type invariant with the          *)
(* ownership of the mutexes: whether a mutex is free decides who may go on *)
(* only because its recorded holder is the flight that has come so far.    *)
(***************************************************************************)
EXTENDS LockPaths, FlightProcessProofs, WellFoundedInduction

IInv == ProcessInv /\ TypeOK /\ MutexOwnership

\* A flight's path, element by element.
LEMMA PathType ==
  ASSUME NEW f \in Flight
  PROVE  /\ Path[f] \in Seq(Lock)
         /\ Len(Path[f]) \in Nat
         /\ \A j \in 1..Len(Path[f]) : Path[f][j] \in Lock
         /\ \A j, k \in 1..Len(Path[f]) : Path[f][j] = Path[f][k] => j = k
BY PathAssumption

\* A flight number is not the mark of a free mutex.
LEMMA FlightNotFree == \A f \in Flight : f \in Int /\ f # Free
BY NAssumption DEF Flight, Free

\* The runway is on every path, so a flight with all its mutexes has it.
LEMMA RunwayHeldAtEnd ==
  ASSUME NEW f \in Flight, held[f] = Len(Path[f])
  PROVE  RunwayLock \in HeldLocks(f)
BY PathAssumption DEF HeldLocks

\* Acquire adds the wanted mutex, which the flight did not have, to its own.
LEMMA HeldAfterAcquire ==
  ASSUME TypeOK, NEW f \in Flight, Acquire(f)
  PROVE  /\ Wanted(f) \in Lock
         /\ HeldLocks(f)' = HeldLocks(f) \cup {Wanted(f)}
         /\ Wanted(f) \notin HeldLocks(f)
         /\ \A g \in Flight : g # f => HeldLocks(g)' = HeldLocks(g)
<1>1. held[f] \in 0..Len(Path[f]) /\ held[f] < Len(Path[f])
  BY DEF TypeOK, Acquire, Acquiring
<1>2. held' = [held EXCEPT ![f] = @ + 1] /\ held \in [Flight -> Nat]
  BY DEF Acquire, TypeOK
<1>3. held'[f] = held[f] + 1 /\ \A g \in Flight : g # f => held'[g] = held[g]
  BY <1>2
<1>4. 1..(held[f] + 1) = (1..held[f]) \cup {held[f] + 1}
  BY <1>1
<1>5. held[f] + 1 \in 1..Len(Path[f]) /\ 1..held[f] \subseteq 1..Len(Path[f])
  BY <1>1, PathType
<1>6. HeldLocks(f)' = HeldLocks(f) \cup {Wanted(f)}
  BY <1>3, <1>4 DEF HeldLocks, Wanted
<1>7. Wanted(f) \in Lock
  BY <1>5, PathType DEF Wanted
<1>8. Wanted(f) \notin HeldLocks(f)
  BY <1>1, <1>5, PathType DEF HeldLocks, Wanted
<1> QED BY <1>3, <1>6, <1>7, <1>8 DEF HeldLocks

\* Release takes the mutex locked last, and only it, from the flight's own.
LEMMA HeldAfterRelease ==
  ASSUME TypeOK, NEW f \in Flight, Release(f)
  PROVE  /\ Path[f][held[f]] \in HeldLocks(f) \cap Lock
         /\ HeldLocks(f)' = HeldLocks(f) \ {Path[f][held[f]]}
         /\ \A g \in Flight : g # f => HeldLocks(g)' = HeldLocks(g)
<1>1. held[f] \in 1..Len(Path[f])
  BY DEF TypeOK, Release
<1>2. held' = [held EXCEPT ![f] = @ - 1] /\ held \in [Flight -> Nat]
  BY DEF Release, TypeOK
<1>3. held'[f] = held[f] - 1 /\ \A g \in Flight : g # f => held'[g] = held[g]
  BY <1>2
<1>4. 1..held[f] = (1..(held[f] - 1)) \cup {held[f]} /\ held[f] \notin 1..(held[f] - 1)
  BY <1>1
<1>5. 1..held[f] \subseteq 1..Len(Path[f])
  BY <1>1, PathType
<1>6. HeldLocks(f)' = HeldLocks(f) \ {Path[f][held[f]]}
  BY <1>1, <1>3, <1>4, <1>5, PathType DEF HeldLocks
<1>7. Path[f][held[f]] \in HeldLocks(f) \cap Lock
  BY <1>1, <1>4, PathType DEF HeldLocks
<1> QED BY <1>3, <1>6, <1>7 DEF HeldLocks

-----------------------------------------------------------------------------
LEMMA InitInv == Init => IInv
<1> SUFFICES ASSUME Init PROVE IInv
  OBVIOUS
<1>1. ProcessInv
  BY ProcessInitInv DEF Init
<1>2. TypeOK
  <2>1. \A f \in Flight : held[f] = 0 /\ 0 \in 0..Len(Path[f])
    BY PathType DEF Init, LockInit
  <2> QED BY <1>1, <2>1 DEF Init, LockInit, TypeOK, ProcessInv
<1>3. \A f \in Flight : HeldLocks(f) = {}
  BY DEF Init, LockInit, HeldLocks
<1>4. MutexOwnership
  BY <1>3, FlightNotFree DEF Init, LockInit, MutexOwnership
<1> QED BY <1>1, <1>2, <1>4 DEF IInv

\* Steps that leave the mutexes alone keep their ownership.
LEMMA LockStutter ==
  ASSUME IInv, ProcessInv', UNCHANGED lockVars
  PROVE  IInv'
<1>1. \A f \in Flight : HeldLocks(f)' = HeldLocks(f)
  BY DEF lockVars, HeldLocks
<1>2. TypeOK'
  BY DEF IInv, TypeOK, lockVars, ProcessInv
<1>3. MutexOwnership'
  BY <1>1 DEF IInv, MutexOwnership, lockVars
<1> QED BY <1>2, <1>3 DEF IInv

LEMMA AcquireInv ==
  ASSUME IInv, NEW f \in Flight, Acquire(f)
  PROVE  IInv'
<1>1. ProcessInv'
  BY ProcessStutter DEF IInv, Acquire
<1>2. TypeOK'
  <2>1. held' \in [Flight -> Nat] /\ \A g \in Flight : held'[g] \in 0..Len(Path[g])
    BY PathType DEF IInv, TypeOK, Acquire, Acquiring
  <2> QED BY <1>1, <2>1, HeldAfterAcquire DEF IInv, TypeOK, Acquire, ProcessInv
<1>3. MutexOwnership'
  <2>1. \A g \in Flight : Wanted(f) \notin HeldLocks(g)
    BY HeldAfterAcquire, FlightNotFree DEF IInv, MutexOwnership, Acquire
  <2>2. holder' = [holder EXCEPT ![Wanted(f)] = f] /\ holder \in [Lock -> Flight \cup {Free}]
    BY DEF IInv, TypeOK, Acquire
  <2>3. SUFFICES ASSUME NEW l \in Lock, NEW g \in Flight
                 PROVE  holder'[l] = g <=> l \in HeldLocks(g)'
    BY DEF MutexOwnership
  <2>4. holder[l] = g <=> l \in HeldLocks(g)
    BY DEF IInv, MutexOwnership
  <2>5. CASE l = Wanted(f)
    BY <2>1, <2>2, <2>5, HeldAfterAcquire DEF IInv
  <2>6. CASE l # Wanted(f)
    BY <2>2, <2>4, <2>6, HeldAfterAcquire DEF IInv
  <2> QED BY <2>5, <2>6
<1> QED BY <1>1, <1>2, <1>3 DEF IInv

LEMMA ReleaseInv ==
  ASSUME IInv, NEW f \in Flight, Release(f)
  PROVE  IInv'
<1>1. ProcessInv'
  BY ProcessStutter DEF IInv, Release
<1>2. TypeOK'
  <2>1. held' \in [Flight -> Nat] /\ \A g \in Flight : held'[g] \in 0..Len(Path[g])
    BY PathType DEF IInv, TypeOK, Release
  <2> QED BY <1>1, <2>1, HeldAfterRelease DEF IInv, TypeOK, Release, ProcessInv
<1>3. MutexOwnership'
  <2> DEFINE m == Path[f][held[f]]
  <2>1. m \in Lock /\ holder[m] = f
    BY HeldAfterRelease DEF IInv, MutexOwnership
  <2>2. holder' = [holder EXCEPT ![m] = Free] /\ holder \in [Lock -> Flight \cup {Free}]
    BY DEF IInv, TypeOK, Release
  <2>3. SUFFICES ASSUME NEW l \in Lock, NEW g \in Flight
                 PROVE  holder'[l] = g <=> l \in HeldLocks(g)'
    BY DEF MutexOwnership
  <2>4. holder[l] = g <=> l \in HeldLocks(g)
    BY DEF IInv, MutexOwnership
  <2>5. CASE l = m
    <3>1. holder'[l] # g
      BY <2>1, <2>2, <2>5, FlightNotFree
    <3>2. g # f => l \notin HeldLocks(g)
      BY <2>1, <2>4, <2>5
    <3> QED BY <2>5, <3>1, <3>2, HeldAfterRelease DEF IInv
  <2>6. CASE l # m
    BY <2>2, <2>4, <2>6, HeldAfterRelease DEF IInv
  <2> QED BY <2>5, <2>6
<1> QED BY <1>1, <1>2, <1>3 DEF IInv

LEMMA NextInv == IInv /\ [Next]_vars => IInv'
<1> SUFFICES ASSUME IInv, [Next]_vars PROVE IInv'
  OBVIOUS
<1>1. CASE Main /\ UNCHANGED lockVars
  BY <1>1, MainInv, LockStutter DEF IInv
<1>2. ASSUME NEW f \in Flight, Acquire(f) PROVE IInv'
  BY <1>2, AcquireInv
<1>3. ASSUME NEW f \in Flight, Release(f) PROVE IInv'
  BY <1>3, ReleaseInv
<1>4. ASSUME NEW f \in Flight, PathReturn(f) PROVE IInv'
  BY <1>4, ReturnInv, LockStutter DEF IInv, PathReturn
<1>5. CASE UNCHANGED vars
  BY <1>5, ProcessStutter, LockStutter DEF IInv, vars
<1> QED BY <1>1, <1>2, <1>3, <1>4, <1>5 DEF Next, Thread

LEMMA Invariance == Spec => []IInv
BY InitInv, NextInv, PTL DEF Spec

(* Every variable keeps its type.                                            *)
THEOREM Typing == Spec => []TypeOK
BY Invariance, PTL DEF IInv

(* However many flights there are and whatever mutexes they lock, the kernel *)
(* and the flights agree on who owns each mutex (landingwithsync.c:25).      *)
THEOREM Exclusion == Spec => []MutexOwnership
BY Invariance, PTL DEF IInv
-----------------------------------------------------------------------------
LEMMA LeastNumber ==
  ASSUME NEW T, T \subseteq Nat, T # {}
  PROVE  \E x \in T : \A y \in T : x <= y
<1>1. PICK x \in T : \A y \in T : ~(<<y, x>> \in OpToRel(<, Nat))
  BY NatLessThanWellFounded, WFMin
<1>2. \A y \in T : ~(y < x)
  BY <1>1 DEF OpToRel
<1> QED BY <1>2

\* Levels of the mutexes that go down along every path.
Descending(level) ==
  /\ level \in [Lock -> Nat]
  /\ \A f \in Flight : \A j, k \in 1..Len(Path[f]) :
       j < k => level[Path[f][k]] < level[Path[f][j]]

\* In a circular wait, the flight that wants the lowest mutex would wait for
\* one that wants a still lower one.
LEMMA DescendingNoCircularWait ==
  ASSUME IInv, NEW level, Descending(level)
  PROVE  NoCircularWait
<1> SUFFICES ASSUME NEW S \in SUBSET Flight, S # {},
                    \A f \in S : Blocked(f) /\ holder[Wanted(f)] \in S
             PROVE  FALSE
  BY DEF NoCircularWait, CircularWait
<1>1. ASSUME NEW f \in S
      PROVE  /\ held[f] + 1 \in 1..Len(Path[f])
             /\ Wanted(f) \in Lock
  BY PathType DEF IInv, TypeOK, Blocked, Acquiring, Wanted
<1> DEFINE T == {level[Wanted(f)] : f \in S}
<1>2. T \subseteq Nat /\ T # {}
  BY <1>1 DEF Descending
<1>3. PICK f \in S : \A g \in S : level[Wanted(f)] <= level[Wanted(g)]
  <2>1. PICK x \in T : \A y \in T : x <= y
    BY <1>2, LeastNumber
  <2>2. PICK f \in S : x = level[Wanted(f)]
    BY <2>1
  <2> QED BY <2>1, <2>2
<1>4. PICK g \in S : holder[Wanted(f)] = g
  OBVIOUS
<1>5. Wanted(f) \in HeldLocks(g)
  BY <1>1, <1>4 DEF IInv, MutexOwnership
<1>6. PICK j \in 1..held[g] : Wanted(f) = Path[g][j]
  BY <1>5 DEF HeldLocks
<1>7. level[Wanted(g)] < level[Path[g][j]]
  <2>1. held[g] \in Nat
    BY DEF IInv, TypeOK
  <2>2. j \in 1..Len(Path[g]) /\ j < held[g] + 1
    BY <1>1, <2>1, PathType
  <2> QED BY <1>1, <2>2 DEF Descending, Wanted
<1>8. level[Wanted(f)] \in Nat /\ level[Wanted(g)] \in Nat
  BY <1>1 DEF Descending
<1> QED BY <1>3, <1>6, <1>7, <1>8

(* Flights that lock along one descending order of the mutexes are never in  *)
(* a circular wait, however many mutexes and flights there are: the          *)
(* principle deadlockprevention.c:11-15 appeals to.                          *)
THEOREM DeadlockPrevention ==
  ASSUME NEW CONSTANT level, Descending(level)
  PROVE  Spec => []NoCircularWait
<1>1. IInv => NoCircularWait
  BY DescendingNoCircularWait
<1> QED BY <1>1, Invariance, PTL

\* The runway first and the taxiway second is such an order.
LEMMA FixedOrder ==
  ASSUME NEW taxiway, taxiway # RunwayLock,
         RunwayLock \in Lock, taxiway \in Lock,
         \A f \in Flight : Path[f] = <<RunwayLock, taxiway>>,
         IInv
  PROVE  NoCircularWait
<1> DEFINE level == [l \in Lock |-> IF l = taxiway THEN 0 ELSE 1]
<1>1. level \in [Lock -> Nat]
  OBVIOUS
<1>2. ASSUME NEW f \in Flight, NEW j \in 1..Len(Path[f]), NEW k \in 1..Len(Path[f]), j < k
      PROVE  level[Path[f][k]] < level[Path[f][j]]
  <2>1. Path[f] = <<RunwayLock, taxiway>>
    OBVIOUS
  <2>2. Len(Path[f]) = 2
    BY <2>1
  <2>3. j \in 1..2 /\ k \in 1..2
    BY <2>2
  <2>4. j = 1 /\ k = 2
    BY <1>2, <2>3
  <2> QED BY <2>1, <2>4
<1> QED BY <1>1, <1>2, DescendingNoCircularWait DEF Descending

(* The paths of deadlockprevention.c and of the landing in finalprogram.c    *)
(* are such: every flight locks the runway first and the taxiway second.     *)
THEOREM FixedOrderPrevention ==
  ASSUME NEW CONSTANT taxiway, taxiway # RunwayLock,
         RunwayLock \in Lock, taxiway \in Lock,
         \A f \in Flight : Path[f] = <<RunwayLock, taxiway>>
  PROVE  Spec => []NoCircularWait
<1>1. IInv => NoCircularWait
  BY FixedOrder
<1> QED BY <1>1, Invariance, PTL

(* landingwithsync.c has one mutex, so that nobody waits for it holding      *)
(* another: no flight is ever in a circular wait.                            *)
THEOREM SingleLockPrevention ==
  ASSUME Path = AirplaneLanding
  PROVE  Spec => []NoCircularWait
<1> DEFINE level == [l \in Lock |-> 0]
<1>1. ASSUME NEW f \in Flight PROVE Len(Path[f]) = 1
  BY DEF AirplaneLanding
<1>2. Descending(level)
  BY <1>1 DEF Descending
<1>3. IInv => NoCircularWait
  BY <1>2, DescendingNoCircularWait
<1> QED BY <1>3, Invariance, PTL

-----------------------------------------------------------------------------
\* A thread that has not started, or that has returned, owns no mutex.
RunInv == \A f \in Flight : thread[f] # "running" => held[f] = 0

LEMMA RunStep ==
  ASSUME IInv, RunInv, [Next]_vars
  PROVE  RunInv'
<1> USE DEF RunInv, IInv, TypeOK, ProcessTypeOK
<1>1. CASE Main /\ UNCHANGED lockVars
  <2>1. \A f \in Flight : thread'[f] # "running" => thread[f] # "running"
    BY <1>1, NAssumption DEF ProcessInv, Flight, Main, Fork, CreateThread, JoinThread, ChildExit, ParentExit
  <2> QED BY <1>1, <2>1 DEF lockVars
<1>2. ASSUME NEW f \in Flight, Acquire(f) PROVE RunInv'
  BY <1>2 DEF Acquire, Acquiring, processVars
<1>3. ASSUME NEW f \in Flight, Release(f) PROVE RunInv'
  BY <1>3 DEF Release, processVars
<1>4. ASSUME NEW f \in Flight, PathReturn(f) PROVE RunInv'
  BY <1>4 DEF PathReturn, Return, lockVars
<1>5. CASE UNCHANGED vars
  BY <1>5 DEF vars, processVars, lockVars
<1> QED BY <1>1, <1>2, <1>3, <1>4, <1>5 DEF Next, Thread

\* The owner of a mutex still runs.
LEMMA OwnerRuns ==
  ASSUME IInv, RunInv, NEW l \in Lock, holder[l] # Free
  PROVE  holder[l] \in Flight /\ thread[holder[l]] = "running"
<1>1. holder[l] \in Flight
  BY DEF IInv, TypeOK
<1>2. held[holder[l]] # 0
  <2>1. l \in HeldLocks(holder[l])
    BY <1>1 DEF IInv, MutexOwnership
  <2> QED BY <2>1 DEF HeldLocks
<1> QED BY <1>1, <1>2 DEF RunInv

LEMMA RunInit == Init => RunInv
BY DEF Init, LockInit, RunInv

\* The running threads are the circle: each waits for a mutex whose owner runs.
LEMMA RunningCircle ==
  ASSUME IInv, RunInv
  PROVE  StuckOnlyInCircularWait
<1> DEFINE S == {f \in Flight : thread[f] = "running"}
<1> SUFFICES ASSUME S # {}, \A f \in S : Blocked(f)
             PROVE  CircularWait
  BY DEF StuckOnlyInCircularWait
<1>1. ASSUME NEW f \in S PROVE holder[Wanted(f)] \in S
  <2>1. Wanted(f) \in Lock
    BY PathType DEF IInv, TypeOK, Blocked, Acquiring, Wanted
  <2>2. holder[Wanted(f)] # Free
    BY DEF Blocked
  <2> QED BY <2>1, <2>2, OwnerRuns
<1> QED BY <1>1 DEF CircularWait

(* If no thread can go on although one still runs, the running threads are   *)
(* in a circular wait: each waits for a mutex whose owner still runs, since  *)
(* a thread returns only after its last unlock (deadlock.c:25, 33, 48).      *)
THEOREM StuckInCircularWait == Spec => []StuckOnlyInCircularWait
<1>1. IInv /\ RunInv /\ [Next]_vars => RunInv'
  BY RunStep
<1>2. IInv /\ RunInv => StuckOnlyInCircularWait
  BY RunningCircle
<1> QED BY <1>1, <1>2, RunInit, Invariance, PTL DEF Spec
-----------------------------------------------------------------------------
\* A flight in a circular wait can take no step, and no step of another
\* flight takes a mutex from its owner or gives it one.
LEMMA FreezeStep ==
  ASSUME IInv, CircularWait, [Next]_vars
  PROVE  CircularWait'
<1>1. PICK S \in SUBSET Flight :
        S # {} /\ \A f \in S : Blocked(f) /\ holder[Wanted(f)] \in S
  BY DEF CircularWait
<1>2. ASSUME NEW f \in S PROVE Wanted(f) \in Lock
  BY <1>1, PathType DEF IInv, TypeOK, Blocked, Acquiring, Wanted
<1> DEFINE Same(f) ==
      /\ thread'[f] = thread[f] /\ phase'[f] = phase[f] /\ held'[f] = held[f]
      /\ holder'[Wanted(f)] = holder[Wanted(f)]
<1>3. SUFFICES \A f \in S : Same(f)
  <2> SUFFICES ASSUME NEW f \in S
               PROVE  Blocked(f)' /\ (holder[Wanted(f)])' \in S
    BY <1>1, Zenon DEF CircularWait
  <2>1. Same(f)
    BY <1>3
  <2>2. Wanted(f)' = Wanted(f)
    BY <2>1 DEF Wanted
  <2> QED BY <1>1, <2>1, <2>2 DEF Blocked, Acquiring
<1>4. ASSUME NEW f \in Flight, Acquire(f) PROVE \A g \in S : Same(g)
  <2>1. f \notin S
    BY <1>1, <1>4 DEF Blocked, Acquire
  <2>2. \A g \in S : Wanted(g) # Wanted(f)
    BY <1>1, <1>4, FlightNotFree DEF Acquire
  <2> QED BY <1>2, <1>4, <2>1, <2>2, HeldAfterAcquire DEF IInv, TypeOK, Acquire, processVars
<1>5. ASSUME NEW f \in Flight, Release(f) PROVE \A g \in S : Same(g)
  <2>1. f \notin S
    BY <1>1, <1>5 DEF Blocked, Acquiring, Release
  <2>2. holder[Path[f][held[f]]] = f
    BY <1>5, HeldAfterRelease DEF IInv, MutexOwnership
  <2>3. \A g \in S : Wanted(g) # Path[f][held[f]]
    BY <1>1, <2>1, <2>2
  <2> QED BY <1>2, <1>5, <2>1, <2>3 DEF IInv, TypeOK, Release, processVars
<1>6. ASSUME NEW f \in Flight, PathReturn(f) PROVE \A g \in S : Same(g)
  <2>1. f \notin S
    BY <1>1, <1>6 DEF Blocked, Acquiring, PathReturn
  <2> QED BY <1>6, <2>1 DEF IInv, TypeOK, ProcessTypeOK, PathReturn, Return, lockVars, Wanted
<1>7. CASE Main /\ UNCHANGED lockVars
  <2>1. \A g \in S : thread[g] = "running"
    BY <1>1 DEF Blocked, Acquiring
  <2>2. \A g \in S : thread'[g] = "running"
    BY <1>7, <2>1, NAssumption
    DEF IInv, ProcessInv, ProcessTypeOK, Flight, Main, Fork, CreateThread,
        JoinThread, ChildExit, ParentExit
  <2> QED BY <1>7, <2>1, <2>2 DEF lockVars, Wanted
<1>8. CASE UNCHANGED vars
  BY <1>8 DEF vars, processVars, lockVars, Wanted
<1> QED BY <1>4, <1>5, <1>6, <1>7, <1>8 DEF Next, Thread

(* No circular wait ever dissolves, whatever paths the flights follow:       *)
(* "permanently freezes here due to circular wait" (deadlock.c:25, 48).      *)
THEOREM Freeze == Spec => FreezeIsPermanent
<1>1. IInv /\ [Next]_vars => [CircularWait => CircularWait']_vars
  BY FreezeStep
<1> QED BY <1>1, Invariance, PTL DEF Spec, FreezeIsPermanent
-----------------------------------------------------------------------------
\* Whoever has the runway mutex is the only flight on the runway.
LEMMA RunwayOwner ==
  ASSUME IInv
  PROVE  \A f \in Flight : f \in OnRunway <=> holder[RunwayLock] = f
<1>1. RunwayLock \in Lock
  BY NAssumption, PathAssumption, PathType DEF Flight
<1> QED BY <1>1 DEF IInv, MutexOwnership, OnRunway

\* Acquire either leaves the runway as it is or lands a flight on it.
LEMMA AcquireLands ==
  ASSUME IInv, NEW f \in Flight, Acquire(f)
  PROVE  [Airport!Next]_(Airport!vars)
<1>1. /\ thread[f] = "running" /\ phase[f] = "acquiring"
      /\ holder[Wanted(f)] = Free
      /\ phase' = [phase EXCEPT ![f] =
            IF held[f] + 1 = Len(Path[f]) THEN "releasing" ELSE "acquiring"]
      /\ held' = [held EXCEPT ![f] = @ + 1]
  BY DEF Acquire, Acquiring
<1>2. held \in [Flight -> Nat] /\ phase \in [Flight -> {"acquiring", "releasing"}]
  BY DEF IInv, TypeOK
<1>3. Landed' = Landed
  <2>1. phase'[f] = "releasing" => RunwayLock \in HeldLocks(f)'
    BY <1>1, <1>2, PathAssumption DEF HeldLocks
  <2> QED BY <1>1, <1>2, <2>1, HeldAfterAcquire DEF IInv, Landed
<1>4. CASE Wanted(f) = RunwayLock
  <2>1. OnRunway = {}
    BY <1>1, <1>4, RunwayOwner, FlightNotFree DEF OnRunway
  <2>2. OnRunway' = {f}
    BY <1>4, <2>1, HeldAfterAcquire DEF IInv, OnRunway
  <2>3. f \notin Landed
    BY <1>1 DEF Landed
  <2> QED BY <1>3, <2>1, <2>2, <2>3 DEF Airport!Next, Airport!Land
<1>5. CASE Wanted(f) # RunwayLock
  <2>1. OnRunway' = OnRunway
    BY <1>5, HeldAfterAcquire DEF IInv, OnRunway
  <2> QED BY <1>3, <2>1 DEF Airport!vars
<1> QED BY <1>4, <1>5

\* Release either leaves the runway as it is or takes its flight off it.
LEMMA ReleaseLeaves ==
  ASSUME IInv, NEW f \in Flight, Release(f)
  PROVE  [Airport!Next]_(Airport!vars)
<1> DEFINE m == Path[f][held[f]]
<1>1. phase[f] = "releasing" /\ phase' = phase
  BY DEF Release
<1>2. m \in HeldLocks(f)
  BY HeldAfterRelease DEF IInv
<1>3. CASE m = RunwayLock
  <2>1. OnRunway = {f}
    BY <1>2, <1>3, RunwayOwner DEF OnRunway
  <2>2. OnRunway' = {}
    BY <1>3, <2>1, HeldAfterRelease DEF IInv, OnRunway
  <2>3. Landed' = Landed \cup {f}
    BY <1>1, <1>3, HeldAfterRelease DEF IInv, Landed
  <2> QED BY <2>1, <2>2, <2>3 DEF Airport!Next, Airport!Leave
<1>4. CASE m # RunwayLock
  <2>1. \A g \in Flight : RunwayLock \in HeldLocks(g)' <=> RunwayLock \in HeldLocks(g)
    BY <1>4, HeldAfterRelease DEF IInv
  <2>2. OnRunway' = OnRunway /\ Landed' = Landed
    BY <1>1, <2>1 DEF OnRunway, Landed
  <2> QED BY <2>2 DEF Airport!vars
<1> QED BY <1>3, <1>4

LEMMA RunwayInit == Init => Airport!Init
<1> SUFFICES ASSUME Init PROVE OnRunway = {} /\ Landed = {}
  BY DEF Airport!Init
<1>1. \A f \in Flight : HeldLocks(f) = {} /\ phase[f] = "acquiring"
  BY DEF Init, LockInit, HeldLocks
<1> QED BY <1>1 DEF OnRunway, Landed

\* Every step lands a flight, lets one leave, or changes nothing of the runway.
LEMMA RunwayStep == IInv /\ [Next]_vars => [Airport!Next]_(Airport!vars)
<1> SUFFICES ASSUME IInv, [Next]_vars PROVE [Airport!Next]_(Airport!vars)
  OBVIOUS
<1>1. UNCHANGED lockVars => UNCHANGED (Airport!vars)
  BY DEF lockVars, Airport!vars, OnRunway, Landed, HeldLocks
<1>2. ASSUME NEW f \in Flight, Thread(f) PROVE [Airport!Next]_(Airport!vars)
  BY <1>1, <1>2, AcquireLands, ReleaseLeaves DEF Thread, PathReturn
<1> QED BY <1>1, <1>2 DEF Next, vars

(* The programs use the runway as Runway specifies: one flight at a time on  *)
(* it, each flight once, for any number of flights and mutexes and even when *)
(* the paths allow a deadlock.                                               *)
THEOREM RunwayRefinement == Spec => ImplementsRunway
BY RunwayInit, RunwayStep, Invariance, PTL DEF Spec, ImplementsRunway, Airport!Spec
=============================================================================
