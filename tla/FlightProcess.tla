--------------------------- MODULE FlightProcess ---------------------------
(***************************************************************************)
(* The process and thread skeleton that every program of "Task - 1" shares *)
(* (its main function): the parent forks a child and waits for it; the     *)
(* child initialises its mutexes, creates one thread per flight, joins the *)
(* threads in order, destroys the mutexes and returns.                     *)
(*                                                                         *)
(* What a thread does is left to the modules that extend this one.  They   *)
(* take a thread from "running" to "returned" with Return.                 *)
(*                                                                         *)
(* Flight f stands for the entry flight_ids[f-1]: the code only compares   *)
(* flight numbers with one another, so 5, 11 and 19 are 1, 2 and 3 here.   *)
(* pthread_create is assumed to succeed: no program checks its result.     *)
(***************************************************************************)
EXTENDS Integers

CONSTANT N              \* how many flights the child launches

ASSUME NAssumption == N \in Nat \ {0}

VARIABLES
  parent,               \* the forking process: "fork", "wait", "exit"
  child,                \* the child's main thread: "none", "create", "join", "exit"
  i,                    \* its loop index
  thread                \* thread[f]: "new", "running", "returned"

processVars == <<parent, child, i, thread>>

Flight == 1..N

ProcessTypeOK ==
  /\ parent \in {"fork", "wait", "exit"}
  /\ child \in {"none", "create", "join", "exit"}
  /\ i \in 0..N
  /\ thread \in [Flight -> {"new", "running", "returned"}]

ProcessInit ==
  /\ parent = "fork"
  /\ child = "none"
  /\ i = 0
  /\ thread = [f \in Flight |-> "new"]

\* fork() returns in both processes, or fails; the child initialises its
\* mutexes before any thread exists, which is part of this step.
Fork ==
  /\ parent = "fork"
  /\ \/ parent' = "wait" /\ child' = "create"
     \/ parent' = "exit" /\ child' = "none"
  /\ UNCHANGED <<i, thread>>

\* One turn of the pthread_create loop; the threads already created run.
CreateThread ==
  /\ child = "create"
  /\ thread' = [thread EXCEPT ![i + 1] = "running"]
  /\ IF i + 1 = N THEN child' = "join" /\ i' = 0
                  ELSE child' = "create" /\ i' = i + 1
  /\ UNCHANGED parent

\* Mutated form of JoinThread: the loop does not wait for the thread.
JoinThreadNoWait ==
  /\ child = "join" /\ i < N
  /\ i' = i + 1
  /\ UNCHANGED <<parent, child, thread>>

\* One turn of the pthread_join loop: blocks until that thread has returned.
JoinThread ==
  /\ child = "join" /\ i < N
  /\ thread[i + 1] = "returned"
  /\ i' = i + 1
  /\ UNCHANGED <<parent, child, thread>>

\* The loop is over: the mutexes are destroyed and the child returns 0.
ChildExit ==
  /\ child = "join" /\ i = N
  /\ child' = "exit"
  /\ UNCHANGED <<parent, i, thread>>

\* wait(NULL) blocks until the child has terminated.
ParentExit ==
  /\ parent = "wait" /\ child = "exit"
  /\ parent' = "exit"
  /\ UNCHANGED <<child, i, thread>>

Main == Fork \/ CreateThread \/ JoinThread \/ ChildExit \/ ParentExit

\* The thread of flight f returns from its start routine.
Return(f) ==
  /\ thread[f] = "running"
  /\ thread' = [thread EXCEPT ![f] = "returned"]
  /\ UNCHANGED <<parent, child, i>>

\* Both processes are gone: the program may stop here and nowhere else.
Exited == parent = "exit"
-----------------------------------------------------------------------------
(* What the loops of main guarantee whatever the threads do: the creation    *)
(* loop indexes only the N entries of flights[], the flights already joined  *)
(* have returned, and a process that has exited leaves no thread behind      *)
(* ("only terminates when all of its threads", deadlock.c:83).               *)
ProcessInv ==
  /\ ProcessTypeOK
  /\ parent = "fork" => child = "none" /\ i = 0
  /\ parent = "exit" => child \in {"none", "exit"}
  /\ child = "create" => i < N
  /\ child \in {"none", "create"} => \A f \in Flight : f > i => thread[f] = "new"
  /\ child = "join" => \A f \in Flight : f <= i => thread[f] = "returned"
  /\ child = "exit" => \A f \in Flight : thread[f] = "returned"
=============================================================================
