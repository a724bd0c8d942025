------------------------------- MODULE Paging -------------------------------
(***************************************************************************)
(* The paging simulation of "Task - 2": what all its programs share, and   *)
(* pagingsys.c, which has no replacement.  One step is one turn of the     *)
(* loop over requests_cpu.                                                 *)
(*                                                                         *)
(* history_count[f] is the length of addr_history[f].                      *)
(***************************************************************************)
EXTENDS Integers, Sequences, FiniteSets

CONSTANTS
  PROCESS_SIZE,         \* the virtual space of the process
  MEM_SIZE,             \* the physical memory
  PAGE_SIZE,            \* 2^OFFSET_BIT, and the size of a frame
  HISTORY,              \* how many addresses addr_history has room for per frame
  Workloads             \* the contents that requests_cpu may have

ASSUME SizeAssumption ==
  /\ PROCESS_SIZE \in Nat /\ MEM_SIZE \in Nat /\ PAGE_SIZE \in Nat \ {0}
  /\ MEM_SIZE >= PAGE_SIZE

ASSUME WorkloadAssumption ==
  /\ HISTORY \in Nat
  /\ \A w \in Workloads : w \in Seq(Nat) /\ Len(w) <= HISTORY

VARIABLES
  requests_cpu,         \* the addresses to be requested, in order
  k,                    \* how many were
  physical_frames,      \* the page in each frame
  addr_history,         \* the physical addresses listed for each frame
  pg_hits, pg_faults

memory == <<physical_frames, addr_history, pg_hits, pg_faults>>

NUM_FRAMES == MEM_SIZE \div PAGE_SIZE
Frames == 0..(NUM_FRAMES - 1)
Empty == -1

PageOf(address) == address \div PAGE_SIZE
Pages == {PageOf(address) : address \in 0..(PROCESS_SIZE - 1)}
page_offset(address) == address % PAGE_SIZE
phys_addr(f, address) == f * PAGE_SIZE + page_offset(address)

virtual_address == requests_cpu[k + 1]
page_no == PageOf(virtual_address)

EmptyMemory == [f \in Frames |-> Empty]
NoAddresses == [f \in Frames |-> <<>>]

PagingInit ==
  /\ requests_cpu \in Workloads /\ k = 0
  /\ physical_frames = EmptyMemory /\ addr_history = NoAddresses
  /\ pg_hits = 0 /\ pg_faults = 0

\* The head of the loop: the next request, which every turn takes.
Request ==
  /\ k < Len(requests_cpu) /\ k' = k + 1
  /\ UNCHANGED requests_cpu

Over == k = Len(requests_cpu)

\* Mutated form of InProcess: the first address after the process passes.
InProcessLate == virtual_address <= PROCESS_SIZE

InProcess == virtual_address < PROCESS_SIZE

OutOfBounds ==
  /\ Request /\ ~InProcess
  /\ UNCHANGED memory

Resident == \E f \in Frames : physical_frames[f] = page_no

\* The search from frame 0 stops at the first frame with this content.
FirstWith(content, f) ==
  physical_frames[f] = content /\ \A g \in 0..(f - 1) : physical_frames[g] # content

Hit(f) ==
  /\ Request /\ InProcess
  /\ FirstWith(page_no, f)
  /\ pg_hits' = pg_hits + 1
  /\ addr_history' = [addr_history EXCEPT ![f] = Append(@, phys_addr(f, virtual_address))]
  /\ UNCHANGED <<physical_frames, pg_faults>>

Fault ==
  /\ Request /\ InProcess
  /\ ~Resident
  /\ pg_faults' = pg_faults + 1
  /\ UNCHANGED pg_hits

\* Mutated form of Load: the search for a free frame goes on after the first.
LoadEverywhere(f) ==
  /\ Fault /\ FirstWith(Empty, f)
  /\ physical_frames' = [g \in Frames |-> IF physical_frames[g] = Empty THEN page_no
                                          ELSE physical_frames[g]]
  /\ addr_history' = [addr_history EXCEPT ![f] = Append(@, phys_addr(f, virtual_address))]

Load(f) ==
  /\ Fault /\ FirstWith(Empty, f)
  /\ physical_frames' = [physical_frames EXCEPT ![f] = page_no]
  /\ addr_history' = [addr_history EXCEPT ![f] = Append(@, phys_addr(f, virtual_address))]

Full == \A f \in Frames : physical_frames[f] # Empty

\* Mutated form of Replace: the list of the page that leaves is kept.
ReplaceKeepList(f) ==
  /\ Fault /\ Full
  /\ physical_frames' = [physical_frames EXCEPT ![f] = page_no]
  /\ addr_history' = [addr_history EXCEPT ![f] = Append(@, phys_addr(f, virtual_address))]

\* The page in frame f makes room; which frame that is, the policy says.
Replace(f) ==
  /\ Fault /\ Full
  /\ physical_frames' = [physical_frames EXCEPT ![f] = page_no]
  /\ addr_history' = [addr_history EXCEPT ![f] = <<phys_addr(f, virtual_address)>>]

\* Mutated form of NoRoom: a page that finds no room takes frame 0.
NoRoomFirst == Replace(0)

\* pagingsys.c: without replacement the page is not loaded.
NoRoom == Fault /\ Full /\ UNCHANGED <<physical_frames, addr_history>>

PlainRequest ==
  \/ OutOfBounds
  \/ \E f \in Frames : Hit(f) \/ Load(f)
  \/ NoRoom
-----------------------------------------------------------------------------
(* Type correctness: every frame is empty or holds a page of the process,    *)
(* and its list never outgrows its row of addr_history (pagingsys.c:43).     *)
PagingTypeOK ==
  /\ k \in 0..Len(requests_cpu)
  /\ physical_frames \in [Frames -> {Empty} \union Pages]
  /\ \A f \in Frames :
       /\ Len(addr_history[f]) <= HISTORY
       /\ (addr_history[f] = <<>>) = (physical_frames[f] = Empty)

(* Two requested addresses that are in memory never share a physical         *)
(* address, and no address has two (pagingsys.c:93-94, 100-142).             *)
OneToOne ==
  LET Mapped(f, address) == physical_frames[f] = PageOf(address) IN
  \A f, g \in Frames : \A a, b \in {requests_cpu[i] : i \in 1..k} :
    Mapped(f, a) /\ Mapped(g, b) => (a = b <=> phys_addr(f, a) = phys_addr(g, b))

\* What a frame holds, as an item of the abstract list.
Held(f) ==
  [page |-> physical_frames[f],
   offsets |-> [i \in DOMAIN addr_history[f] |-> addr_history[f][i] % PAGE_SIZE]]

Occupied == {f \in Frames : physical_frames[f] # Empty}

\* The frames in use are the items of an abstract list, and come in its order
\* by a number that each frame has; the counters agree.
Shows(state, turn) ==
  LET list == state.list IN
  /\ {Held(f) : f \in Occupied} = {list[i] : i \in DOMAIN list}
  /\ \A f, g \in Occupied : \A i, j \in DOMAIN list :
       Held(f) = list[i] /\ Held(g) = list[j] => (turn[f] < turn[g] <=> i < j)
  /\ pg_hits = state.hits /\ pg_faults = state.faults

Cache == INSTANCE PageCache WITH PageSize <- PAGE_SIZE, ProcessSize <- PROCESS_SIZE

\* The requests for addresses of the process, and the first for each page.
Served == {i \in 1..k : requests_cpu[i] < PROCESS_SIZE}
PageAt(i) == PageOf(requests_cpu[i])
Firsts == {i \in Served : \A j \in Served : PageAt(j) = PageAt(i) => i <= j}
Before(i) == {j \in Firsts : j < i}

\* The frames hold the first pages ever requested, in that order; the hits are
\* the later requests for these pages, and all other requests are faults.
FirstComeFirstKept ==
  /\ \A i \in Firsts :
       Cardinality(Before(i)) < NUM_FRAMES => physical_frames[Cardinality(Before(i))] = PageAt(i)
  /\ \A f \in Frames : f < Cardinality(Firsts) <=> f \in Occupied
  /\ pg_hits = Cardinality({i \in Served \ Firsts : \E f \in Frames : physical_frames[f] = PageAt(i)})
  /\ pg_hits + pg_faults = Cardinality(Served)
=============================================================================
