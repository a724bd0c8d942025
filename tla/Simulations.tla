---------------------------- MODULE Simulations ----------------------------
(***************************************************************************)
(* The programs of "Task - 2".  pagingsys.c, pagingsyswithfifo.c and       *)
(* pagingsyswithlru.c run one simulation each.  final1.c, final2.c and     *)
(* final3.c put their workload through FIFO and, after everything has been *)
(* reset, through LRU; they differ in their workload only.                 *)
(***************************************************************************)
EXTENDS PagingFifo, PagingLru

CONSTANTS Workload1, Workload2, Workload3      \* those of final1.c, final2.c, final3.c

VARIABLES
  todo,                 \* the simulations that the program has yet to finish
  printed               \* the hits and faults printed for those it has

vars == <<requests_cpu, k, memory, ptr_fifo, last_time_used, todo, printed>>

Programs == {<<"plain">>, <<"fifo">>, <<"lru">>, <<"fifo", "lru">>}

Init ==
  /\ FifoInit /\ LruInit
  /\ todo \in Programs /\ printed = <<>>

Runs(simulation) == todo # <<>> /\ Head(todo) = simulation

PlainTurn == Runs("plain") /\ PlainRequest /\ UNCHANGED <<ptr_fifo, last_time_used, todo, printed>>
FifoTurn == Runs("fifo") /\ FifoRequest /\ UNCHANGED <<last_time_used, todo, printed>>
LruTurn == Runs("lru") /\ LruRequest /\ UNCHANGED <<ptr_fifo, todo, printed>>

\* Mutated form of Conclude: the second result is that of the first again.
ConcludeOnce ==
  /\ Over /\ todo' = Tail(todo)
  /\ printed' = Append(printed, IF printed = <<>> THEN [hits |-> pg_hits, faults |-> pg_faults]
                                ELSE printed[1])

Conclude ==
  /\ Over /\ todo' = Tail(todo)
  /\ printed' = Append(printed, [hits |-> pg_hits, faults |-> pg_faults])

\* Mutated form of Reset: the counters go on.
ResetMemoryOnly ==
  /\ Len(todo) > 1 /\ Conclude
  /\ k' = 0 /\ UNCHANGED <<pg_hits, pg_faults>>
  /\ physical_frames' = EmptyMemory /\ addr_history' = NoAddresses
  /\ last_time_used' = Unused
  /\ UNCHANGED <<requests_cpu, ptr_fifo>>

\* The same arrays and counters serve the second simulation.
Reset ==
  /\ Len(todo) > 1 /\ Conclude
  /\ k' = 0 /\ pg_hits' = 0 /\ pg_faults' = 0
  /\ physical_frames' = EmptyMemory /\ addr_history' = NoAddresses
  /\ last_time_used' = Unused
  /\ UNCHANGED <<requests_cpu, ptr_fifo>>

Finish ==
  /\ Len(todo) = 1 /\ Conclude
  /\ UNCHANGED <<requests_cpu, k, memory, ptr_fifo, last_time_used>>

Done == todo = <<>> /\ UNCHANGED vars

Next == PlainTurn \/ FifoTurn \/ LruTurn \/ Reset \/ Finish \/ Done

Spec == Init /\ [][Next]_vars
-----------------------------------------------------------------------------
\* The hits and faults of a policy over all the requests.
Result(policy) ==
  LET last == Cache!After(policy, NUM_FRAMES, requests_cpu)[Len(requests_cpu)]
  IN  [hits |-> last.hits, faults |-> last.faults]

\* A comparison program has printed the results of both policies, in their order.
PrintsResults ==
  Len(printed) + Len(todo) = 2 =>
    \A i \in DOMAIN printed : printed[i] = Result(<<"fifo", "lru">>[i])

(* Without replacement the frames keep the first pages ever requested, and   *)
(* exactly the later requests for these are hits (pagingsys.c:111-147).      *)
PlainKeepsTheFirst == Runs("plain") => FirstComeFirstKept

(* README.md:186-190: FIFO "evicts whichever page has been resident the      *)
(* longest", LRU "whichever page hasn't been *used* the longest".  After     *)
(* every request the ring pointer makes the frames the queue of pages it     *)
(* should be, and the time stamps make them the list by recency; hits,       *)
(* faults and the addresses shown for each frame are those of the list, in   *)
(* the second simulation of a program too (final1.c:116-167, 206-236), and   *)
(* what a comparison program prints at the end of each is its policy's       *)
(* result (final1.c:198-199, 364-365).                                       *)
FollowsPolicy ==
  /\ Runs("fifo") => IsQueue
  /\ Runs("lru") => IsRecencyList
  /\ PrintsResults

\* FIFO with a frame less, and LRU with so many frames.
FifoLess == Cache!After("fifo", NUM_FRAMES - 1, requests_cpu)
LruWith(capacity) == Cache!After("lru", capacity, requests_cpu)
Smaller == 0..(NUM_FRAMES - 1)

(* More frames never cost LRU a fault: what any smaller memory would hold    *)
(* after the same requests is in the frames (pagingsyswithlru.c:157-186).    *)
LruKeepsMore ==
  Runs("lru") =>
    \A capacity \in Smaller : LET less == LruWith(capacity)[k] IN
      /\ \A i \in DOMAIN less.list : \E f \in Frames : physical_frames[f] = less.list[i].page
      /\ pg_faults <= less.faults

(* The test cases of README.md:131-133 and 192: on the first workload "LRU   *)
(* gets roughly double the hit ratio of FIFO", on the second both "perform   *)
(* identically", and on the third "Increase in frame hampers FIFO            *)
(* performance".                                                             *)
TestCases ==
  todo = <<>> /\ Len(printed) = 2 =>
    /\ requests_cpu = Workload1 => printed[2].hits = 2 * printed[1].hits /\ printed[1].hits > 0
    /\ requests_cpu = Workload2 => printed[2] = printed[1]
    /\ requests_cpu = Workload3 => printed[1].faults > FifoLess[Len(requests_cpu)].faults
=============================================================================
