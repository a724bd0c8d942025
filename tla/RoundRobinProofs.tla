------------------------- MODULE RoundRobinProofs -------------------------
(***************************************************************************)
(* What holds of RoundRobin for every number of flights and every starting *)
(* altitude.  The inductive invariant adds to the types where each thread  *)
(* may be: only the owner of turn_lock is past its lock, a flight passes   *)
(* only its own turn, and a thread that has returned is on the ground.     *)
(***************************************************************************)
EXTENDS RoundRobin, FlightProcessProofs

\* What the position of a thread says of its altitude and of the turn.
StepInv ==
  \A f \in Flight :
    /\ step[f] # "loop" => thread[f] = "running"
    /\ step[f] = "turn" => alt[f] > 0
    /\ step[f] = "pass" => current = f
    /\ thread[f] = "returned" => alt[f] = 0

IInv == ProcessInv /\ TypeOK /\ TurnLockOwnership /\ StepInv /\ TurnsInOrder

LEMMA ConstantTypes == N \in Nat /\ N > 0 /\ StartAlt \in Nat /\ StartAlt > 0
BY NAssumption, StartAltAssumption

LEMMA SettledType ==
  ASSUME TypeOK, NEW f \in Flight
  PROVE  Settled(f) \in Nat /\ alt[f] \in Nat /\ alt[f] <= Settled(f)
BY ConstantTypes DEF TypeOK, Settled

LEMMA NextTurnType ==
  ASSUME NEW f \in Flight PROVE NextTurn(f) \in Flight
BY ConstantTypes DEF Flight, NextTurn

LEMMA InitInv == Init => IInv
<1> SUFFICES ASSUME Init PROVE IInv
  OBVIOUS
<1>1. ProcessInv
  BY ProcessInitInv DEF Init
<1>2. TypeOK
  BY <1>1, ConstantTypes DEF Init, TurnInit, TypeOK, ProcessInv, Flight, Steps
<1>3. TurnLockOwnership /\ StepInv
  BY ConstantTypes DEF Init, ProcessInit, TurnInit, TurnLockOwnership, StepInv, Flight, Free
<1>4. TurnsInOrder
  BY ConstantTypes DEF Init, TurnInit, TurnsInOrder, Settled, Flight
<1> QED BY <1>1, <1>2, <1>3, <1>4 DEF IInv

\* The five kinds of step that a thread takes inside the loop, one at a time;
\* each leaves the process alone, so ProcessInv is kept by ProcessStutter.
LEMMA DescentInv ==
  ASSUME IInv, NEW f \in Flight, Descent(f)
  PROVE  TypeOK' /\ TurnLockOwnership' /\ StepInv'
<1> USE ConstantTypes DEF IInv, TypeOK, ProcessTypeOK, TurnLockOwnership, StepInv,
                          Goto, Flight, Free, Steps
<1>1. CASE LockTurn(f)
  BY <1>1 DEF LockTurn, processVars
<1>2. CASE Descend(f)
  BY <1>2 DEF Descend, processVars
<1>3. CASE PassTurn(f)
  BY <1>3, NextTurnType DEF PassTurn, processVars
<1>4. CASE SkipTurn(f)
  BY <1>4 DEF SkipTurn, processVars
<1>5. CASE UnlockTurn(f)
  BY <1>5 DEF UnlockTurn, processVars
<1> QED BY <1>1, <1>2, <1>3, <1>4, <1>5 DEF Descent

\* Only PassTurn changes a settled altitude, and then only the passer's.
LEMMA SettledStep ==
  ASSUME IInv, NEW f \in Flight, Descent(f)
  PROVE  \/ /\ current' = current
            /\ \A g \in Flight : Settled(g)' = Settled(g)
         \/ /\ PassTurn(f)
            /\ current = f /\ current' = NextTurn(f)
            /\ Settled(f) > 0 /\ Settled(f)' = Settled(f) - 1
            /\ \A g \in Flight : g # f => Settled(g)' = Settled(g)
<1> USE ConstantTypes DEF IInv, TypeOK, Goto, Settled
<1>1. CASE PassTurn(f)
  BY <1>1 DEF PassTurn, StepInv
<1>2. CASE Descend(f)
  BY <1>2 DEF Descend
<1>3. CASE LockTurn(f)
  BY <1>3 DEF LockTurn
<1>4. CASE SkipTurn(f)
  BY <1>4 DEF SkipTurn
<1>5. CASE UnlockTurn(f)
  BY <1>5 DEF UnlockTurn, TurnLockOwnership
<1> QED BY <1>1, <1>2, <1>3, <1>4, <1>5 DEF Descent

\* Passing the turn keeps the flights level: the passer joins those before
\* the new current flight, or all are level again when the last one passes.
LEMMA OrderStep ==
  ASSUME IInv, TypeOK', NEW f \in Flight, Descent(f)
  PROVE  TurnsInOrder'
<1>1. CASE current' = current /\ \A g \in Flight : Settled(g)' = Settled(g)
  BY <1>1 DEF IInv, TurnsInOrder
<1>2. CASE /\ current = f /\ current' = NextTurn(f)
           /\ Settled(f) > 0 /\ Settled(f)' = Settled(f) - 1
           /\ \A g \in Flight : g # f => Settled(g)' = Settled(g)
  <2> SUFFICES ASSUME NEW a \in Flight, NEW b \in Flight
               PROVE  Settled(b)' = Settled(a)' +
                        (IF a < current' /\ b >= current' THEN 1 ELSE 0) -
                        (IF b < current' /\ a >= current' THEN 1 ELSE 0)
    BY DEF TurnsInOrder
  <2>1. /\ Settled(a) \in Nat /\ Settled(b) \in Nat /\ Settled(f) \in Nat
    BY SettledType DEF IInv
  <2>2. Settled(b) = Settled(a) + (IF a < f /\ b >= f THEN 1 ELSE 0) -
                                  (IF b < f /\ a >= f THEN 1 ELSE 0)
    BY <1>2 DEF IInv, TurnsInOrder
  <2>3. a \in 1..N /\ b \in 1..N /\ f \in 1..N
    BY DEF Flight
  <2>4. Settled(a)' = IF a = f THEN Settled(a) - 1 ELSE Settled(a)
    BY <1>2
  <2>5. Settled(b)' = IF b = f THEN Settled(b) - 1 ELSE Settled(b)
    BY <1>2
  <2>6. CASE f = N
    <3>1. current' = 1
      BY <1>2, <2>6 DEF NextTurn
    <3> QED BY <2>1, <2>2, <2>3, <2>4, <2>5, <2>6, <3>1, ConstantTypes
  <2>7. CASE f # N
    <3>1. current' = f + 1
      BY <1>2, <2>7 DEF NextTurn
    <3> QED BY <2>1, <2>2, <2>3, <2>4, <2>5, <3>1, ConstantTypes
  <2> QED BY <2>6, <2>7
<1> QED BY <1>1, <1>2, SettledStep

LEMMA NextInv == IInv /\ [Next]_vars => IInv'
<1> SUFFICES ASSUME IInv, [Next]_vars PROVE IInv'
  OBVIOUS
<1>1. ASSUME NEW f \in Flight, Descent(f) PROVE IInv'
  <2>1. UNCHANGED processVars
    BY <1>1 DEF Descent, LockTurn, Descend, PassTurn, SkipTurn, UnlockTurn
  <2> QED BY <1>1, <2>1, ProcessStutter, DescentInv, OrderStep DEF IInv
<1>2. ASSUME UNCHANGED turnVars, ProcessInv',
             \A f \in Flight : /\ thread[f] = "running" /\ step[f] # "loop" => thread'[f] = "running"
                               /\ thread'[f] = "returned" => thread[f] = "returned" \/ alt[f] = 0
      PROVE  IInv'
  <2>1. TypeOK' /\ TurnLockOwnership'
    BY <1>2 DEF IInv, TypeOK, TurnLockOwnership, turnVars, ProcessInv
  <2>2. StepInv'
    <3>1. alt' = alt /\ step' = step /\ current' = current
      BY <1>2 DEF turnVars
    <3> SUFFICES ASSUME NEW f \in Flight
                 PROVE  /\ step[f] # "loop" => thread'[f] = "running"
                        /\ step[f] = "turn" => alt[f] > 0
                        /\ step[f] = "pass" => current = f
                        /\ thread'[f] = "returned" => alt[f] = 0
      BY <3>1 DEF StepInv
    <3> QED BY <1>2 DEF IInv, StepInv
  <2>3. TurnsInOrder'
    BY <1>2 DEF IInv, TurnsInOrder, Settled, turnVars
  <2> QED BY <1>2, <2>1, <2>2, <2>3 DEF IInv
<1>3. CASE Main /\ UNCHANGED turnVars
  <2>1. \A f \in Flight : /\ thread[f] = "running" => thread'[f] = "running"
                          /\ thread'[f] = "returned" => thread[f] = "returned"
    BY <1>3, ConstantTypes
    DEF IInv, ProcessInv, ProcessTypeOK, Flight, Main, Fork, CreateThread,
        JoinThread, ChildExit, ParentExit
  <2> QED BY <1>2, <1>3, <2>1, MainInv DEF IInv
<1>4. ASSUME NEW f \in Flight, DescentReturn(f) PROVE IInv'
  <2>1. \A g \in Flight : /\ thread[g] = "running" /\ step[g] # "loop" => thread'[g] = "running"
                          /\ thread'[g] = "returned" => thread[g] = "returned" \/ alt[g] = 0
    BY <1>4 DEF IInv, ProcessInv, ProcessTypeOK, DescentReturn, Return
  <2> QED BY <1>2, <1>4, <2>1, ReturnInv DEF IInv, DescentReturn
<1>5. CASE UNCHANGED vars
  BY <1>2, <1>5, ProcessStutter DEF IInv, vars, processVars
<1> QED BY <1>1, <1>3, <1>4, <1>5 DEF Next

LEMMA Invariance == Spec => []IInv
BY InitInv, NextInv, PTL DEF Spec

(* Every variable keeps its type; in particular no altitude drops below the  *)
(* ground, so that the loop test alt != 0 (roundrobin.c:16) always ends it.  *)
THEOREM Typing == Spec => []TypeOK
BY Invariance, PTL DEF IInv

(* For any number of flights and any altitude the quanta go round in circles *)
(* (roundrobin.c:32-41).                                                     *)
THEOREM RoundRobinOrder == Spec => []TurnsInOrder
BY Invariance, PTL DEF IInv

(* No flight is left in the air with the turn at a thread that has ended.    *)
THEOREM TurnAlive == Spec => []NoStrandedTurn
<1>1. IInv => NoStrandedTurn
  <2> SUFFICES ASSUME IInv, NEW f \in Flight, alt[f] > 0, thread[current] = "returned"
               PROVE  FALSE
    BY DEF NoStrandedTurn
  <2>1. current \in Flight
    BY DEF IInv, TypeOK
  <2>2. alt[current] = 0 /\ step[current] = "loop"
    BY <2>1 DEF IInv, StepInv
  <2>3. Settled(current) = 0
    BY <2>2 DEF Settled
  <2>4. f \in Int /\ current \in Int
    BY <2>1 DEF Flight
  <2>5. Settled(f) <= 0
    BY <2>1, <2>3, <2>4 DEF IInv, TurnsInOrder
  <2> QED BY <2>5, SettledType DEF IInv
<1> QED BY <1>1, Invariance, PTL

\* Every step is a quantum for the flight whose turn it is, or changes nothing of it.
LEMMA TurnOrderStep == IInv /\ [Next]_vars => [Order!Quantum]_(Order!vars)
<1> SUFFICES ASSUME IInv, [Next]_vars PROVE [Order!Quantum]_(Order!vars)
  OBVIOUS
<1>1. UNCHANGED turnVars => UNCHANGED Order!vars
  BY DEF turnVars, Order!vars, Settled
<1>2. ASSUME NEW f \in Flight, Descent(f) PROVE [Order!Quantum]_(Order!vars)
  <2>1. CASE current' = current /\ \A g \in Flight : Settled(g)' = Settled(g)
    BY <2>1 DEF Order!vars
  <2>2. CASE /\ current = f /\ current' = NextTurn(f)
             /\ Settled(f) > 0 /\ Settled(f)' = Settled(f) - 1
             /\ \A g \in Flight : g # f => Settled(g)' = Settled(g)
    BY <2>2 DEF Order!Quantum, NextTurn
  <2> QED BY <1>2, <2>1, <2>2, SettledStep
<1> QED BY <1>1, <1>2 DEF Next, DescentReturn, vars

LEMMA TurnOrderInit == Init => Order!Init
BY DEF Init, TurnInit, Order!Init, Settled, Flight

(* The mutex and the turn variable together hand out the quanta as TurnOrder *)
(* specifies.                                                                *)
THEOREM TurnOrderRefinement == Spec => ImplementsTurnOrder
BY TurnOrderInit, TurnOrderStep, Invariance, PTL DEF Spec, ImplementsTurnOrder, Order!Spec
=============================================================================
