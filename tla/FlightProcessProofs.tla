------------------------ MODULE FlightProcessProofs ------------------------
(***************************************************************************)
(* The steps of main and the return of a thread keep ProcessInv, for any   *)
(* number of flights.  The proofs about the programs rest on these lemmas. *)
(***************************************************************************)
EXTENDS FlightProcess, TLAPS

\* The state before fork() satisfies the invariant.
LEMMA ProcessInitInv == ProcessInit => ProcessInv
BY NAssumption DEF ProcessInit, ProcessInv, ProcessTypeOK, Flight

\* main keeps it: one step for each of its actions.
LEMMA MainInv == ProcessInv /\ Main => ProcessInv'
<1> SUFFICES ASSUME ProcessInv, Main PROVE ProcessInv'
  OBVIOUS
<1> USE NAssumption DEF ProcessInv, ProcessTypeOK, Flight
<1>1. CASE Fork
  BY <1>1 DEF Fork
<1>2. CASE CreateThread
  BY <1>2 DEF CreateThread
<1>3. CASE JoinThread
  BY <1>3 DEF JoinThread
<1>4. CASE ChildExit
  BY <1>4 DEF ChildExit
<1>5. CASE ParentExit
  BY <1>5 DEF ParentExit
<1> QED BY <1>1, <1>2, <1>3, <1>4, <1>5 DEF Main

\* A thread that returns keeps it.
LEMMA ReturnInv ==
  ASSUME ProcessInv, NEW f \in Flight, Return(f)
  PROVE  ProcessInv'
BY NAssumption DEF ProcessInv, ProcessTypeOK, Flight, Return

\* So does a step that touches neither process nor thread.
LEMMA ProcessStutter == ProcessInv /\ UNCHANGED processVars => ProcessInv'
BY DEF ProcessInv, ProcessTypeOK, processVars
=============================================================================
