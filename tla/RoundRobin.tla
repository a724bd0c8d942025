----------------------------- MODULE RoundRobin -----------------------------
(***************************************************************************)
(* roundrobin.c: the flights share one mutex and a turn variable.  Each    *)
(* thread polls: it locks turn_lock, and when the turn is its own it       *)
(* descends one quantum and passes the turn on; in either case it unlocks  *)
(* and tests its altitude again.  The mutex is held over the sleep(3) that *)
(* separates the descent from the update of the turn, so these are two     *)
(* steps here.  Altitudes count quanta of 1000 feet.                       *)
(***************************************************************************)
EXTENDS FlightProcess

CONSTANT StartAlt       \* quanta from the initial altitude to the ground

ASSUME StartAltAssumption == StartAlt \in Nat \ {0}

VARIABLES
  turn_lock,            \* the flight that owns the mutex, or Free
  current,              \* the flight whose turn it is
  alt,                  \* alt[f]: altitude of flight f (local to its thread)
  step                  \* step[f]: where in the while loop thread f is

turnVars == <<turn_lock, current, alt, step>>
vars == <<processVars, turnVars>>

Free == 0

\* "loop": at the while test; "turn": owns the mutex, about to test current;
\* "pass": descended, turn not passed on yet; "unlock": about to unlock.
Steps == {"loop", "turn", "pass", "unlock"}

TypeOK ==
  /\ ProcessTypeOK
  /\ turn_lock \in Flight \cup {Free}
  /\ current \in Flight
  /\ alt \in [Flight -> 0..StartAlt]
  /\ step \in [Flight -> Steps]

TurnInit ==
  /\ turn_lock = Free
  /\ current = 1
  /\ alt = [f \in Flight |-> StartAlt]
  /\ step = [f \in Flight |-> "loop"]

Init == ProcessInit /\ TurnInit

Goto(f, s) == step' = [step EXCEPT ![f] = s]

\* Mutated form of LockTurn: the loop does not end on the ground.
LockTurnGrounded(f) ==
  /\ thread[f] = "running" /\ step[f] = "loop"
  /\ turn_lock = Free
  /\ turn_lock' = f
  /\ Goto(f, "turn")
  /\ UNCHANGED <<processVars, current, alt>>

\* pthread_mutex_lock(&turn_lock), while still in the air.
LockTurn(f) ==
  /\ thread[f] = "running" /\ step[f] = "loop" /\ alt[f] # 0
  /\ turn_lock = Free
  /\ turn_lock' = f
  /\ Goto(f, "turn")
  /\ UNCHANGED <<processVars, current, alt>>

\* Mutated form of Descend: the turn is not tested.
DescendAnyTurn(f) ==
  /\ step[f] = "turn"
  /\ alt' = [alt EXCEPT ![f] = @ - 1]
  /\ Goto(f, "pass")
  /\ UNCHANGED <<processVars, turn_lock, current>>

\* It is this flight's turn: one quantum of descent.
Descend(f) ==
  /\ step[f] = "turn" /\ current = f
  /\ alt' = [alt EXCEPT ![f] = @ - 1]
  /\ Goto(f, "pass")
  /\ UNCHANGED <<processVars, turn_lock, current>>

\* Mutated form of NextTurn: the last flight keeps the turn.
NextTurnNoWrap(f) == IF f = N THEN N ELSE f + 1

\* The circular order 5 -> 11 -> 19 -> 5.
NextTurn(f) == IF f = N THEN 1 ELSE f + 1

\* The turn goes to the next flight.
PassTurn(f) ==
  /\ step[f] = "pass"
  /\ current' = NextTurn(f)
  /\ Goto(f, "unlock")
  /\ UNCHANGED <<processVars, turn_lock, alt>>

\* Mutated form of SkipTurn: the turn is passed on whoever had it.
SkipTurnPassing(f) ==
  /\ step[f] = "turn" /\ current # f
  /\ current' = NextTurn(current)
  /\ Goto(f, "unlock")
  /\ UNCHANGED <<processVars, turn_lock, alt>>

\* Mutated form of SkipTurn: this branch does not unlock.
SkipTurnLocked(f) ==
  /\ step[f] = "turn" /\ current # f
  /\ Goto(f, "loop")
  /\ UNCHANGED <<processVars, turn_lock, current, alt>>

\* It is another flight's turn.
SkipTurn(f) ==
  /\ step[f] = "turn" /\ current # f
  /\ Goto(f, "unlock")
  /\ UNCHANGED <<processVars, turn_lock, current, alt>>

\* pthread_mutex_unlock(&turn_lock), on both branches.
UnlockTurn(f) ==
  /\ step[f] = "unlock"
  /\ turn_lock' = Free
  /\ Goto(f, "loop")
  /\ UNCHANGED <<processVars, current, alt>>

Descent(f) == LockTurn(f) \/ Descend(f) \/ PassTurn(f) \/ SkipTurn(f) \/ UnlockTurn(f)

\* The while loop is left on the ground and the start routine returns.
DescentReturn(f) ==
  /\ step[f] = "loop" /\ alt[f] = 0
  /\ Return(f)
  /\ UNCHANGED turnVars

Next ==
  \/ Main /\ UNCHANGED turnVars
  \/ \E f \in Flight : Descent(f) \/ DescentReturn(f)
  \/ Exited /\ UNCHANGED vars

(***************************************************************************)
(* Fairness: a thread that can run does.  The other flights lock turn_lock *)
(* again and again, so a flight waiting for it needs strong fairness: the  *)
(* code sleeps a second outside the mutex after each unlock so that the    *)
(* waiting thread gets it (roundrobin.c:47-48).                            *)
(***************************************************************************)
Fairness ==
  /\ WF_vars(Main /\ UNCHANGED turnVars)
  /\ \A f \in Flight : WF_vars(Descent(f) \/ DescentReturn(f)) /\ SF_vars(LockTurn(f))

Spec == Init /\ [][Next]_vars /\ Fairness
-----------------------------------------------------------------------------
\* The altitude of a flight as of the last turn that was passed on.
Settled(f) == IF step[f] = "pass" THEN alt[f] + 1 ELSE alt[f]

\* Only the owner of turn_lock is between its lock and its unlock.
TurnLockOwnership ==
  \A f \in Flight : step[f] # "loop" <=> turn_lock = f

(* The flights before the current one are exactly one quantum further down   *)
(* than the current one and those after it: no flight is skipped and none    *)
(* gets two quanta in a round (roundrobin.c:32-41).                          *)
TurnsInOrder ==
  \A f, g \in Flight :
    Settled(g) = Settled(f) +
      (IF f < current /\ g >= current THEN 1 ELSE 0) -
      (IF g < current /\ f >= current THEN 1 ELSE 0)

(* The turn never rests with a thread that has returned while another flight *)
(* is still in the air waiting for it.                                       *)
NoStrandedTurn ==
  (\E f \in Flight : alt[f] > 0) => thread[current] # "returned"

(* Every flight lands and the parent sees its child terminate, once the fork *)
(* has succeeded.                                                            *)
Terminates == (parent = "wait") ~> (parent = "exit")

(* The quanta are handed out as the abstract module TurnOrder says.          *)
Order == INSTANCE TurnOrder WITH
  turn <- current,
  height <- [f \in Flight |-> Settled(f)]

ImplementsTurnOrder == Order!Spec
=============================================================================
