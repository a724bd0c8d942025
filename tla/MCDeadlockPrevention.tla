------------------------ MODULE MCDeadlockPrevention ------------------------
(* deadlockprevention.c for TLC: every flight locks the runway first.        *)
EXTENDS LockPaths

\* Mutated form of SafePath: half of the flights lock the taxiway first.
MixedPath == [f \in Flight |->
  IF f = 2 THEN <<"taxiway", "runway">> ELSE <<"runway", "taxiway">>]

\* safe_path: the one start routine of all threads.
SafePath == [f \in Flight |-> <<"runway", "taxiway">>]
=============================================================================
