------------------------- MODULE SimulationsProofs -------------------------
(***************************************************************************)
(* What holds of the paging programs of "Task - 2" for every size of the   *)
(* process, the memory and the pages and for every workload that fits the  *)
(* rows of addr_history: frames and lists keep their types, the memory     *)
(* maps addresses one to one, FIFO and LRU follow their policies and print *)
(* their results, no smaller memory has fewer faults under LRU, and without*)
(* replacement the first pages stay.                                       *)
(***************************************************************************)
EXTENDS Simulations, SequenceTheorems, FiniteSetTheorems, NaturalsInduction,
        WellFoundedInduction, TLAPS

\* The arithmetic of an address: page, offset, and back.
LEMMA AddressParts ==
  ASSUME NEW a \in Nat
  PROVE  /\ PageOf(a) \in Nat /\ page_offset(a) \in 0..(PAGE_SIZE - 1)
         /\ a = PAGE_SIZE * PageOf(a) + page_offset(a)
BY SizeAssumption DEF PageOf, page_offset

LEMMA FramesAreNumbers == NUM_FRAMES \in Nat /\ Frames \subseteq Nat
BY SizeAssumption DEF NUM_FRAMES, Frames

\* Frame and offset can be told from a physical address.
LEMMA PhysicalParts ==
  ASSUME NEW f \in Nat, NEW g \in Nat,
         NEW x \in 0..(PAGE_SIZE - 1), NEW y \in 0..(PAGE_SIZE - 1),
         f * PAGE_SIZE + x = g * PAGE_SIZE + y
  PROVE  f = g /\ x = y
<1>0. PAGE_SIZE \in Nat \ {0}
  BY SizeAssumption
<1>1. ASSUME NEW p \in Nat, NEW q \in Nat, p < q PROVE p * PAGE_SIZE + PAGE_SIZE <= q * PAGE_SIZE
  <2>1. (q - p - 1) \in Nat
    BY <1>1
  <2>2. q * PAGE_SIZE = p * PAGE_SIZE + PAGE_SIZE + (q - p - 1) * PAGE_SIZE
    BY <1>0, <1>1
  <2>3. (q - p - 1) * PAGE_SIZE \in Nat
    BY <1>0, <2>1
  <2> QED BY <1>0, <2>2, <2>3
<1>2. ~(f < g) /\ ~(g < f)
  BY <1>0, <1>1
<1> QED BY <1>0, <1>2

-----------------------------------------------------------------------------
\* No page is in two frames.
NoCopies ==
  \A f, g \in Frames :
    physical_frames[f] = physical_frames[g] /\ physical_frames[f] # Empty => f = g

\* A list has no more addresses than there were requests.
Lists ==
  /\ addr_history \in [Frames -> Seq(Int)]
  /\ \A f \in Frames :
       /\ Len(addr_history[f]) <= k
       /\ addr_history[f] = <<>> <=> physical_frames[f] = Empty

MemInv ==
  /\ requests_cpu \in Workloads /\ k \in 0..Len(requests_cpu)
  /\ physical_frames \in [Frames -> {Empty} \union Pages]
  /\ Lists
  /\ NoCopies

\* The pointer names a frame.
IInv == MemInv /\ ptr_fifo \in Frames

LEMMA InitInv == Init => MemInv
<1> SUFFICES ASSUME Init PROVE MemInv
  OBVIOUS
<1>1. requests_cpu \in Workloads /\ k \in 0..Len(requests_cpu)
  BY WorkloadAssumption, LenProperties DEF Init, FifoInit, PagingInit
<1>2. physical_frames = EmptyMemory /\ addr_history = NoAddresses /\ k = 0
  BY DEF Init, FifoInit, PagingInit
<1> QED BY <1>1, <1>2, EmptySeq DEF MemInv, Lists, NoCopies, EmptyMemory, NoAddresses

\* A page that is asked for is one of the process, and none is Empty.
LEMMA RequestedPage ==
  ASSUME MemInv, Request, InProcess
  PROVE  /\ virtual_address \in Nat
         /\ page_no \in Pages /\ page_no # Empty
<1>1. requests_cpu \in Seq(Nat) /\ k + 1 \in 1..Len(requests_cpu)
  BY WorkloadAssumption, LenProperties DEF MemInv, Request
<1>2. virtual_address \in Nat
  BY <1>1, ElementOfSeq DEF virtual_address
<1>3. virtual_address \in 0..(PROCESS_SIZE - 1)
  BY <1>2, SizeAssumption DEF InProcess
<1>4. page_no \in Nat
  BY <1>2, AddressParts DEF page_no
<1> QED BY <1>2, <1>3, <1>4 DEF page_no, Pages, Empty

\* An address put at the end of a list, or in place of the list.
LEMMA ListStep ==
  ASSUME MemInv, k' = k + 1, NEW f \in Frames, NEW a \in Int, NEW new,
         new \in {Append(addr_history[f], a), <<a>>},
         addr_history' = [addr_history EXCEPT ![f] = new],
         physical_frames'[f] # Empty,
         \A g \in Frames \ {f} : physical_frames'[g] = physical_frames[g]
  PROVE  Lists'
<1>1. addr_history[f] \in Seq(Int) /\ Len(addr_history[f]) \in Nat /\ k \in Nat
  BY LenProperties, WorkloadAssumption DEF MemInv, Lists
<1>2. new \in Seq(Int) /\ new # <<>> /\ Len(new) <= k + 1
  <2>1. CASE new = Append(addr_history[f], a)
    BY <1>1, <2>1, AppendProperties DEF MemInv, Lists
  <2>2. CASE new = <<a>>
    BY <1>1, <2>2
  <2> QED BY <2>1, <2>2
<1>3. addr_history'[f] = new /\ \A g \in Frames \ {f} : addr_history'[g] = addr_history[g]
  BY DEF MemInv, Lists
<1>4. addr_history' \in [Frames -> Seq(Int)]
  BY <1>2 DEF MemInv, Lists
<1>5. ASSUME NEW g \in Frames
      PROVE  /\ Len(addr_history'[g]) <= k'
             /\ addr_history'[g] = <<>> <=> physical_frames'[g] = Empty
  <2>1. CASE g = f
    BY <1>2, <1>3, <2>1
  <2>2. CASE g # f
    <3>1. Len(addr_history[g]) \in Nat
      BY LenProperties DEF MemInv, Lists
    <3> QED BY <1>1, <1>3, <2>2, <3>1 DEF MemInv, Lists
  <2> QED BY <2>1, <2>2
<1> QED BY <1>4, <1>5 DEF Lists

LEMMA PhysicalAddress ==
  ASSUME NEW f \in Frames, NEW a \in Nat
  PROVE  phys_addr(f, a) \in Int
<1>1. f \in Nat /\ PAGE_SIZE \in Nat /\ page_offset(a) \in Nat
  BY FramesAreNumbers, AddressParts, SizeAssumption
<1> QED BY <1>1 DEF phys_addr

LEMMA HitInv ==
  ASSUME MemInv, NEW f \in Frames, Hit(f)
  PROVE  MemInv'
<1>1. k' = k + 1 /\ requests_cpu' = requests_cpu /\ k' \in 0..Len(requests_cpu')
  BY LenProperties, WorkloadAssumption DEF MemInv, Hit, Request
<1>2. virtual_address \in Nat /\ page_no # Empty
  BY RequestedPage DEF Hit
<1>3. physical_frames' = physical_frames /\ physical_frames[f] # Empty
  BY <1>2 DEF Hit, FirstWith
<1>4. Lists'
  BY <1>1, <1>2, <1>3, ListStep, PhysicalAddress DEF Hit
<1> QED BY <1>1, <1>3, <1>4 DEF MemInv, NoCopies

\* A page that is not resident goes into one frame, whoever chose it.
LEMMA PlaceInv ==
  ASSUME MemInv, NEW f \in Frames, Load(f) \/ Replace(f)
  PROVE  MemInv'
<1>1. Request /\ InProcess /\ ~Resident
  BY DEF Load, Replace, Fault
<1>2. k' = k + 1 /\ requests_cpu' = requests_cpu /\ k' \in 0..Len(requests_cpu')
  BY <1>1, LenProperties, WorkloadAssumption DEF MemInv, Request
<1>3. virtual_address \in Nat /\ page_no \in Pages /\ page_no # Empty
  BY <1>1, RequestedPage
<1>4. physical_frames' = [physical_frames EXCEPT ![f] = page_no]
  BY DEF Load, Replace
<1>5. /\ physical_frames' \in [Frames -> {Empty} \union Pages]
      /\ physical_frames'[f] = page_no
      /\ \A g \in Frames \ {f} : physical_frames'[g] = physical_frames[g]
  BY <1>3, <1>4 DEF MemInv
<1>6. Lists'
  BY <1>2, <1>3, <1>5, ListStep, PhysicalAddress DEF Load, Replace
<1>7. NoCopies'
  <2>1. \A g \in Frames : physical_frames[g] # page_no
    BY <1>1 DEF Resident
  <2> QED BY <1>5, <2>1 DEF MemInv, NoCopies
<1> QED BY <1>2, <1>5, <1>6, <1>7 DEF MemInv

\* The turns that leave frames and lists alone.
LEMMA SkipInv ==
  ASSUME MemInv, Request, UNCHANGED <<physical_frames, addr_history>>
  PROVE  MemInv'
<1>1. k \in Nat /\ k' = k + 1 /\ requests_cpu' = requests_cpu /\ k' \in 0..Len(requests_cpu')
  BY LenProperties, WorkloadAssumption DEF MemInv, Request
<1>2. \A f \in Frames : Len(addr_history[f]) \in Nat
  BY LenProperties DEF MemInv, Lists
<1> QED BY <1>1, <1>2 DEF MemInv, Lists, NoCopies

LEMMA NextMemInv == IInv /\ [Next]_vars => MemInv'
<1> USE DEF IInv
<1> SUFFICES ASSUME IInv, [Next]_vars PROVE MemInv'
  OBVIOUS
<1>1. CASE PlainTurn
  BY <1>1, HitInv, PlaceInv, SkipInv DEF PlainTurn, PlainRequest, OutOfBounds, NoRoom, Fault, memory
<1>2. CASE FifoTurn
  BY <1>2, HitInv, PlaceInv, SkipInv
  DEF FifoTurn, FifoRequest, FifoHitOrLoad, EvictOldest, OutOfBounds, memory
<1>3. CASE LruTurn
  BY <1>3, HitInv, PlaceInv, SkipInv
  DEF LruTurn, LruRequest, LruHit, LruLoad, EvictLeastRecent, OutOfBounds, memory
<1>4. CASE Reset
  <2>1. k' = 0 /\ requests_cpu' = requests_cpu /\ 0 \in 0..Len(requests_cpu)
    BY <1>4, LenProperties, WorkloadAssumption DEF Reset, MemInv
  <2>2. physical_frames' = EmptyMemory /\ addr_history' = NoAddresses
    BY <1>4 DEF Reset
  <2> QED BY <2>1, <2>2 DEF MemInv, Lists, NoCopies, EmptyMemory, NoAddresses
<1>5. CASE Finish \/ Done \/ UNCHANGED vars
  BY <1>5 DEF Finish, Done, vars, memory, MemInv, Lists, NoCopies
<1> QED BY <1>1, <1>2, <1>3, <1>4, <1>5 DEF Next

\* The memory has a frame at least.
LEMMA SomeFrame == NUM_FRAMES \in Nat \ {0} /\ 0 \in Frames
BY SizeAssumption DEF NUM_FRAMES, Frames

LEMMA NextPtrInv == IInv /\ [Next]_vars => ptr_fifo' \in Frames
<1> SUFFICES ASSUME ptr_fifo \in Frames, [Next]_vars PROVE ptr_fifo' \in Frames
  BY DEF IInv
<1>1. (ptr_fifo + 1) % NUM_FRAMES \in Frames
  BY SomeFrame DEF Frames
<1> QED BY <1>1 DEF Next, PlainTurn, FifoTurn, FifoRequest, FifoHitOrLoad, EvictOldest, LruTurn,
                    Reset, Finish, Done, vars

LEMMA Invariance == Spec => []IInv
<1>1. Init => IInv
  BY InitInv, SomeFrame DEF IInv, Init, FifoInit
<1>2. IInv /\ [Next]_vars => IInv'
  BY NextMemInv, NextPtrInv DEF IInv
<1> QED BY <1>1, <1>2, PTL DEF Spec

(* Whatever the sizes and the workload, a frame holds a page of the process  *)
(* or nothing, and no row of addr_history overflows (pagingsys.c:43, 74,     *)
(* 119, 135), whichever policy chooses the frame.                            *)
THEOREM Typing == Spec => []PagingTypeOK
<1>1. IInv => PagingTypeOK
  <2> SUFFICES ASSUME MemInv PROVE PagingTypeOK
    BY DEF IInv
  <2>1. Len(requests_cpu) <= HISTORY /\ Len(requests_cpu) \in Nat /\ HISTORY \in Nat
    BY WorkloadAssumption, LenProperties DEF MemInv
  <2>2. ASSUME NEW f \in Frames PROVE Len(addr_history[f]) <= HISTORY
    <3>1. Len(addr_history[f]) \in Nat /\ Len(addr_history[f]) <= k
      BY LenProperties DEF MemInv, Lists
    <3> QED BY <2>1, <3>1 DEF MemInv
  <2> QED BY <2>2 DEF MemInv, Lists, PagingTypeOK
<1> QED BY <1>1, Invariance, PTL

(* Two requested addresses share a physical address only if they are the     *)
(* same, and one address has only one, under every policy: the translation   *)
(* of pagingsys.c:93-94, 113-114 loses no address.                           *)
THEOREM Translation == Spec => []OneToOne
<1>1. IInv => OneToOne
  <2> SUFFICES ASSUME MemInv, NEW f \in Frames, NEW g \in Frames,
                      NEW a \in {requests_cpu[i] : i \in 1..k},
                      NEW b \in {requests_cpu[i] : i \in 1..k},
                      physical_frames[f] = PageOf(a), physical_frames[g] = PageOf(b)
               PROVE  a = b <=> phys_addr(f, a) = phys_addr(g, b)
    BY DEF IInv, OneToOne
  <2>1. a \in Nat /\ b \in Nat
    <3>1. requests_cpu \in Seq(Nat) /\ k \in 0..Len(requests_cpu)
      BY WorkloadAssumption DEF MemInv
    <3>2. \A i \in 1..k : i \in 1..Len(requests_cpu) /\ requests_cpu[i] \in Nat
      BY <3>1, LenProperties, ElementOfSeq
    <3> QED BY <3>2
  <2>2. f \in Nat /\ g \in Nat
    BY FramesAreNumbers
  <2>3. physical_frames[f] # Empty /\ physical_frames[g] # Empty
    BY <2>1, AddressParts DEF Empty
  <2>4. ASSUME a = b PROVE phys_addr(f, a) = phys_addr(g, b)
    BY <2>3, <2>4 DEF MemInv, NoCopies
  <2>5. ASSUME phys_addr(f, a) = phys_addr(g, b) PROVE a = b
    <3>1. f = g /\ page_offset(a) = page_offset(b)
      BY <2>1, <2>2, <2>5, AddressParts, PhysicalParts DEF phys_addr
    <3> QED BY <2>1, <3>1, AddressParts
  <2> QED BY <2>4, <2>5
<1> QED BY <1>1, Invariance, PTL

-----------------------------------------------------------------------------
(* The policies.  After has one value for every number of requests, because  *)
(* any set of natural numbers has a least member: the numbers of requests    *)
(* after which it had none would have one.                                   *)
\* A set of numbers that has a member has a least one.
LEMMA Least ==
  ASSUME NEW T \in SUBSET Nat, NEW t \in T
  PROVE  \E m \in T : \A n \in T : m <= n
<1>1. IsWellFoundedOn(OpToRel(<, Nat), Nat)
  BY NatLessThanWellFounded
<1>2. PICK x \in T : \A y \in T : ~(<<y, x>> \in OpToRel(<, Nat))
  BY <1>1, WFMin
<1>3. \A y \in T : ~(y < x)
  BY <1>2 DEF OpToRel
<1> QED BY <1>3

\* What After defines is a function that satisfies its equation.
LEMMA AfterIsDefined ==
  ASSUME NEW policy, NEW capacity, NEW requests \in Seq(Nat),
         NEW after, after = Cache!After(policy, capacity, requests)
  PROVE  /\ after[0] = Cache!Start
         /\ \A n \in 1..Len(requests) :
              after[n] = Cache!Serve(policy, capacity, after[n - 1], requests[n])
<1> DEFINE Solves(g, m) ==
             g = [n \in 0..m |-> IF n = 0 THEN Cache!Start
                                 ELSE Cache!Serve(policy, capacity, g[n - 1], requests[n])]
           Unsolved == {m \in Nat : ~(\E g : Solves(g, m))}
<1>1. Len(requests) \in Nat
  BY LenProperties
<1>2. \E g : Solves(g, 0)
  <2>1. Solves([n \in 0..0 |-> Cache!Start], 0)
    OBVIOUS
  <2> QED BY <2>1
<1>3. ASSUME NEW m \in Nat, NEW g, Solves(g, m) PROVE \E h : Solves(h, m + 1)
  <2> DEFINE h == [n \in 0..(m + 1) |-> IF n <= m THEN g[n]
                     ELSE Cache!Serve(policy, capacity, g[m], requests[n])]
  <2>1. ASSUME NEW n \in 0..(m + 1)
        PROVE  h[n] = IF n = 0 THEN Cache!Start
                      ELSE Cache!Serve(policy, capacity, h[n - 1], requests[n])
    <3>1. CASE n = 0
      BY <1>3, <3>1
    <3>2. CASE n \in 1..m
      <4>1. h[n - 1] = g[n - 1] /\ h[n] = g[n]
        BY <3>2
      <4>2. g[n] = Cache!Serve(policy, capacity, g[n - 1], requests[n])
        BY <1>3, <3>2
      <4> QED BY <3>2, <4>1, <4>2
    <3>3. CASE n = m + 1
      BY <3>3
    <3> QED BY <3>1, <3>2, <3>3
  <2>2. Solves(h, m + 1)
    BY <2>1
  <2> HIDE DEF h
  <2> QED BY <2>2
<1>4. Unsolved = {}
  <2> SUFFICES ASSUME NEW t \in Unsolved PROVE FALSE
    OBVIOUS
  <2>1. PICK m \in Unsolved : \A n \in Unsolved : m <= n
    <3>1. Unsolved \in SUBSET Nat
      OBVIOUS
    <3> HIDE DEF Unsolved
    <3> QED BY <3>1, Least
  <2>2. m \in Nat /\ m # 0
    BY <1>2
  <2>3. m - 1 \in Nat /\ ~(m - 1 \in Unsolved)
    <3>1. m - 1 \in Nat /\ ~(m <= m - 1)
      BY <2>2
    <3> HIDE DEF Unsolved
    <3> QED BY <2>1, <3>1
  <2>4. PICK g : Solves(g, m - 1)
    BY <2>3
  <2>5. \E h : Solves(h, (m - 1) + 1)
    <3> HIDE DEF Solves
    <3> QED BY <1>3, <2>3, <2>4
  <2>6. (m - 1) + 1 = m
    BY <2>2
  <2>7. \E h : Solves(h, m)
    BY <2>5, <2>6
  <2> QED BY <2>7
<1>5. PICK g : Solves(g, Len(requests))
  BY <1>1, <1>4
<1>6. Solves(after, Len(requests))
  BY <1>5 DEF Cache!After
<1>7. \A n \in 1..Len(requests) : n - 1 \in 0..Len(requests) /\ n \in 0..Len(requests) /\ n # 0
  BY <1>1
<1> QED BY <1>1, <1>6, <1>7

-----------------------------------------------------------------------------
(* A list of items beside the frames in use.                                 *)
\* The items of an abstract list.
Items == [page : Nat, offsets : Seq(Nat)]

\* Every frame in use has a place in a list: what it holds is there, and the
\* places follow the turns of the frames.
Placed(place, list, used, held, turn) ==
  /\ place \in [used -> 1..Len(list)]
  /\ \A f \in used : list[place[f]] = held[f]
  /\ \A i \in 1..Len(list) : \E f \in used : place[f] = i
  /\ \A f, g \in used : place[f] = place[g] => f = g
  /\ \A f, g \in used : turn[f] < turn[g] <=> place[f] < place[g]

\* What ToEnd makes of a list.
MovedToEnd(end, list, i, x) ==
  /\ end \in Seq(Items) /\ Len(end) = Len(list)
  /\ \A j \in 1..Len(list) : j < i => end[j] = list[j]
  /\ \A j \in 1..(Len(list) - 1) : ~(j < i) => end[j] = list[j + 1]
  /\ end[Len(list)] = x

LEMMA ToEndFacts ==
  ASSUME NEW list \in Seq(Items), NEW i \in 1..Len(list), NEW x \in Items,
         NEW end, end = Cache!ToEnd(list, i, x)
  PROVE  MovedToEnd(end, list, i, x)
<1>1. Len(list) \in Nat /\ DOMAIN list = 1..Len(list) /\ \A j \in 1..Len(list) : list[j] \in Items
  BY LenProperties, ElementOfSeq
<1>2. PICK new : new = [j \in 1..Len(list) |->
              IF j < i THEN list[j] ELSE IF j < Len(list) THEN list[j + 1] ELSE x]
  OBVIOUS
<1>3. \A j \in 1..Len(list) : new[j] \in Items
  BY <1>1, <1>2
<1>4. new \in Seq(Items) /\ Len(new) = Len(list)
  BY <1>1, <1>2, <1>3
<1>5. new = end
  BY <1>1, <1>2 DEF Cache!ToEnd
<1>6. \A j \in 1..Len(list) : j < i => new[j] = list[j]
  BY <1>2
<1>7. \A j \in 1..(Len(list) - 1) : j \in 1..Len(list) /\ j < Len(list)
  BY <1>1
<1>8. \A j \in 1..(Len(list) - 1) : ~(j < i) => new[j] = list[j + 1]
  BY <1>2, <1>7
<1>9. new[Len(list)] = x
  BY <1>1, <1>2
<1> QED BY <1>4, <1>5, <1>6, <1>8, <1>9 DEF MovedToEnd

\* The item of a frame changes and stays where it is.
LEMMA PlacedStay ==
  ASSUME NEW list \in Seq(Items), NEW used, NEW held, NEW turn, NEW place,
         Placed(place, list, used, held, turn),
         NEW f \in used, NEW x \in Items, NEW now,
         now[f] = x, \A g \in used \ {f} : now[g] = held[g]
  PROVE  /\ [list EXCEPT ![place[f]] = x] \in Seq(Items)
         /\ Len([list EXCEPT ![place[f]] = x]) = Len(list)
         /\ Placed(place, [list EXCEPT ![place[f]] = x], used, now, turn)
<1>1. Len(list) \in Nat /\ place[f] \in 1..Len(list)
  BY LenProperties DEF Placed
<1>2. PICK new : new = [list EXCEPT ![place[f]] = x]
  OBVIOUS
<1>3. new \in Seq(Items) /\ Len(new) = Len(list)
  BY <1>1, <1>2, ExceptSeq
<1>4. new[place[f]] = x /\ \A j \in 1..Len(list) : j # place[f] => new[j] = list[j]
  BY <1>1, <1>2, ExceptSeq
<1>5. \A g \in used : place[g] \in 1..Len(list) /\ (g # f => place[g] # place[f])
  BY DEF Placed
<1>6. \A g \in used : new[place[g]] = now[g]
  BY <1>4, <1>5 DEF Placed
<1>7. Placed(place, new, used, now, turn)
  BY <1>3, <1>6 DEF Placed
<1> QED BY <1>2, <1>3, <1>7

\* The frame that held the i-th item gets another and goes to the end.
LEMMA PlacedToEnd ==
  ASSUME NEW list \in Seq(Items), NEW used, NEW held, NEW turn, NEW place,
         Placed(place, list, used, held, turn),
         NEW f \in used, NEW x \in Items, NEW now, NEW later,
         now[f] = x, \A g \in used \ {f} : now[g] = held[g],
         \A g, h \in used \ {f} : later[g] < later[h] <=> turn[g] < turn[h],
         \A g \in used : later[g] \in Int,
         \A g \in used \ {f} : later[g] < later[f]
  PROVE  \E there : Placed(there, Cache!ToEnd(list, place[f], x), used, now, later)
<1>1. Len(list) \in Nat /\ \A g \in used : place[g] \in 1..Len(list)
  BY LenProperties DEF Placed
<1>2. PICK new : new = Cache!ToEnd(list, place[f], x)
  OBVIOUS
<1>3. /\ new \in Seq(Items) /\ Len(new) = Len(list)
      /\ \A j \in 1..Len(list) : j < place[f] => new[j] = list[j]
      /\ \A j \in 1..(Len(list) - 1) : ~(j < place[f]) => new[j] = list[j + 1]
      /\ new[Len(list)] = x
  <2>1. PICK i \in 1..Len(list) : i = place[f]
    BY <1>1
  <2>2. new = Cache!ToEnd(list, i, x)
    BY <1>2, <2>1
  <2>3. MovedToEnd(new, list, i, x)
    BY <2>2, ToEndFacts
  <2>4. new \in Seq(Items) /\ Len(new) = Len(list)
    BY <2>3 DEF MovedToEnd
  <2>5. \A j \in 1..Len(list) : j < place[f] => new[j] = list[j]
    BY <2>1, <2>3 DEF MovedToEnd
  <2>6. \A j \in 1..(Len(list) - 1) : ~(j < place[f]) => new[j] = list[j + 1]
    BY <2>1, <2>3 DEF MovedToEnd
  <2>7. new[Len(list)] = x
    BY <2>3 DEF MovedToEnd
  <2> QED BY <2>4, <2>5, <2>6, <2>7
<1>4. PICK there : there = [g \in used |-> IF place[g] < place[f] THEN place[g]
                                          ELSE IF g = f THEN Len(list) ELSE place[g] - 1]
  OBVIOUS
<1>5. \A g \in used \ {f} : place[g] < place[f] \/ place[g] > place[f]
  BY <1>1 DEF Placed
<1>6. there \in [used -> 1..Len(list)]
  BY <1>1, <1>4, <1>5
<1>7. ASSUME NEW g \in used PROVE new[there[g]] = now[g]
  <2>1. CASE g = f
    BY <1>1, <1>3, <1>4, <2>1
  <2>2. CASE g # f /\ place[g] < place[f]
    BY <1>1, <1>3, <1>4, <2>2 DEF Placed
  <2>3. CASE g # f /\ place[g] > place[f]
    <3>1. there[g] = place[g] - 1 /\ place[g] - 1 \in 1..Len(list)
      BY <1>1, <1>4, <2>3
    <3>2. new[place[g] - 1] = list[place[g]]
      <4>1. PICK j \in 1..(Len(list) - 1) : j = place[g] - 1
        BY <1>1, <2>3
      <4>2. ~(j < place[f]) /\ j + 1 = place[g]
        BY <1>1, <2>3, <4>1
      <4>3. new[j] = list[j + 1]
        BY <1>3, <4>2
      <4> QED BY <4>1, <4>2, <4>3
    <3> QED BY <2>3, <3>1, <3>2 DEF Placed
  <2> QED BY <1>5, <2>1, <2>2, <2>3
<1>8. ASSUME NEW i \in 1..Len(list) PROVE \E g \in used : there[g] = i
  <2>1. CASE i < place[f]
    <3>1. PICK g \in used : place[g] = i
      BY DEF Placed
    <3> QED BY <1>4, <2>1, <3>1
  <2>2. CASE i = Len(list)
    <3>1. there[f] = Len(list)
      BY <1>1, <1>4
    <3> QED BY <2>2, <3>1
  <2>3. CASE ~(i < place[f]) /\ i # Len(list)
    <3>1. i + 1 \in 1..Len(list)
      BY <1>1, <2>3
    <3>2. PICK g \in used : place[g] = i + 1
      BY <3>1 DEF Placed
    <3>3. g # f /\ ~(place[g] < place[f])
      BY <1>1, <2>3, <3>2
    <3>4. there[g] = place[g] - 1
      BY <1>4, <3>3
    <3>5. there[g] = i
      BY <3>2, <3>4
    <3> QED BY <3>5
  <2> QED BY <2>1, <2>2, <2>3
<1>9. \A g \in used : place[g] \in Int /\ (g # f => place[g] # place[f]) /\ place[g] <= Len(list)
  BY <1>1 DEF Placed
<1>10. ASSUME NEW g \in used, NEW h \in used PROVE there[g] = there[h] => g = h
  <2>1. place[g] = place[h] => g = h
    BY DEF Placed
  <2> QED BY <1>1, <1>4, <1>9, <2>1
<1>11. ASSUME NEW g \in used, NEW h \in used
       PROVE  later[g] < later[h] <=> there[g] < there[h]
  <2>1. CASE g = f /\ h = f
    BY <1>1, <1>4, <2>1
  <2>2. CASE g # f /\ h = f
    <3>1. there[g] < there[h]
      BY <1>1, <1>4, <1>9, <2>2
    <3> QED BY <2>2, <3>1
  <2>3. CASE g = f /\ h # f
    <3>1. there[h] < there[g] /\ there[h] \in Int /\ there[g] \in Int
      BY <1>1, <1>4, <1>9, <2>3
    <3>2. later[h] < later[g]
      BY <2>3
    <3> QED BY <3>1, <3>2
  <2>4. CASE g # f /\ h # f
    <3>1. there[g] < there[h] <=> place[g] < place[h]
      BY <1>1, <1>4, <1>9, <2>4
    <3>2. later[g] < later[h] <=> turn[g] < turn[h]
      BY <2>4
    <3> QED BY <3>1, <3>2 DEF Placed
  <2> QED BY <2>1, <2>2, <2>3, <2>4
<1>12. Placed(there, new, used, now, later)
  BY <1>3, <1>6, <1>7, <1>8, <1>10, <1>11 DEF Placed
<1> QED BY <1>2, <1>12

\* A frame that was empty is the last.
LEMMA PlacedAppend ==
  ASSUME NEW list \in Seq(Items), NEW used, NEW held, NEW turn, NEW place,
         Placed(place, list, used, held, turn),
         NEW f, f \notin used, NEW x \in Items, NEW now, NEW later,
         now[f] = x, \A g \in used : now[g] = held[g],
         \A g, h \in used : later[g] < later[h] <=> turn[g] < turn[h],
         \A g \in used \union {f} : later[g] \in Int,
         \A g \in used : later[g] < later[f]
  PROVE  \E there : Placed(there, Append(list, x), used \union {f}, now, later)
<1>1. Len(list) \in Nat /\ \A g \in used : place[g] \in 1..Len(list)
  BY LenProperties DEF Placed
<1>2. PICK new : new = Append(list, x)
  OBVIOUS
<1>3. /\ new \in Seq(Items) /\ Len(new) = Len(list) + 1
      /\ \A j \in 1..Len(list) : new[j] = list[j]
      /\ new[Len(list) + 1] = x
  BY <1>1, <1>2, AppendProperties
<1>4. PICK there : there = [g \in used \union {f} |-> IF g = f THEN Len(list) + 1 ELSE place[g]]
  OBVIOUS
<1>5. there \in [used \union {f} -> 1..Len(new)]
  BY <1>1, <1>3, <1>4
<1>6. \A g \in used \union {f} : new[there[g]] = now[g]
  BY <1>1, <1>3, <1>4 DEF Placed
<1>7. ASSUME NEW i \in 1..Len(new) PROVE \E g \in used \union {f} : there[g] = i
  <2>1. CASE i = Len(new)
    BY <1>3, <1>4, <2>1
  <2>2. CASE i # Len(new)
    <3>1. i \in 1..Len(list)
      BY <1>1, <1>3, <2>2
    <3>2. PICK g \in used : place[g] = i
      BY <3>1 DEF Placed
    <3> QED BY <1>4, <3>2
  <2> QED BY <2>1, <2>2
<1>8. \A g, h \in used \union {f} : there[g] = there[h] => g = h
  BY <1>1, <1>4 DEF Placed
<1>9. ASSUME NEW g \in used \union {f}, NEW h \in used \union {f}
      PROVE  later[g] < later[h] <=> there[g] < there[h]
  <2>1. CASE g = f /\ h = f
    BY <1>1, <1>4, <2>1
  <2>2. CASE g # f /\ h = f
    BY <1>1, <1>4, <2>2
  <2>3. CASE g = f /\ h # f
    <3>1. there[h] < there[g] /\ there[h] \in Int /\ there[g] \in Int
      BY <1>1, <1>4, <2>3
    <3>2. later[h] < later[g]
      BY <2>3
    <3> QED BY <3>1, <3>2
  <2>4. CASE g # f /\ h # f
    BY <1>1, <1>4, <2>4 DEF Placed
  <2> QED BY <2>1, <2>2, <2>3, <2>4
<1>10. Placed(there, new, used \union {f}, now, later)
  BY <1>5, <1>6, <1>7, <1>8, <1>9 DEF Placed
<1> QED BY <1>2, <1>10

-----------------------------------------------------------------------------
(* The memory beside a state of the abstract cache: what one turn of the     *)
(* loop makes of either.                                                     *)
\* What the frames hold, as a function.
HeldItems == [f \in Frames |-> Held(f)]
CacheStates == [list : Seq(Items), hits : Nat, faults : Nat]

\* The frames follow a list: they fill in order, and show it.
Follows(state, turn) ==
  /\ state \in CacheStates /\ pg_hits = state.hits /\ pg_faults = state.faults
  /\ Len(state.list) <= NUM_FRAMES
  /\ \A f \in Frames : f \in Occupied <=> f < Len(state.list)
  /\ \E place : Placed(place, state.list, Occupied, HeldItems, turn)

\* The offsets of the addresses in a history.
Offsets(history) == [i \in DOMAIN history |-> history[i] % PAGE_SIZE]

\* The offset can be read off the physical address.
LEMMA PhysicalOffset ==
  ASSUME NEW f \in Nat, NEW a \in Nat
  PROVE  phys_addr(f, a) % PAGE_SIZE = page_offset(a)
<1>1. PAGE_SIZE \in Nat \ {0} /\ page_offset(a) \in 0..(PAGE_SIZE - 1)
  BY AddressParts, SizeAssumption
<1>2. f * PAGE_SIZE \in Nat
  BY <1>1
<1>3. phys_addr(f, a) \in Nat
  BY <1>1, <1>2 DEF phys_addr
<1>4. PICK p \in Nat : p = phys_addr(f, a)
  BY <1>3
<1>5. PageOf(p) \in Nat /\ page_offset(p) \in 0..(PAGE_SIZE - 1) /\ p = PAGE_SIZE * PageOf(p) + page_offset(p)
  BY AddressParts
<1>6. PAGE_SIZE * PageOf(p) = PageOf(p) * PAGE_SIZE
  BY <1>1, <1>5
<1>7. f * PAGE_SIZE + page_offset(a) = PageOf(p) * PAGE_SIZE + page_offset(p)
  BY <1>4, <1>5, <1>6 DEF phys_addr
<1>8. page_offset(p) = page_offset(a)
  <2>1. PICK x \in 0..(PAGE_SIZE - 1) : x = page_offset(a)
    BY <1>1
  <2>2. PICK y \in 0..(PAGE_SIZE - 1) : y = page_offset(p)
    BY <1>5
  <2>3. PICK g \in Nat : g = PageOf(p)
    BY <1>5
  <2>4. f * PAGE_SIZE + x = g * PAGE_SIZE + y
    BY <1>7, <2>1, <2>2, <2>3
  <2>5. x = y
    BY <2>4, PhysicalParts
  <2> QED BY <2>1, <2>2, <2>5
<1> QED BY <1>4, <1>8 DEF page_offset

\* Offsets keeps the length and the order of a history.
LEMMA OffsetsType ==
  ASSUME NEW history \in Seq(Int)
  PROVE  /\ Offsets(history) \in Seq(Nat) /\ Len(Offsets(history)) = Len(history)
         /\ \A i \in 1..Len(history) : Offsets(history)[i] = history[i] % PAGE_SIZE
<1>1. Len(history) \in Nat /\ DOMAIN history = 1..Len(history) /\ \A i \in 1..Len(history) : history[i] \in Int
  BY LenProperties, ElementOfSeq
<1>2. \A a \in Int : a % PAGE_SIZE \in Nat
  BY SizeAssumption
<1>3. PICK new : new = [i \in 1..Len(history) |-> history[i] % PAGE_SIZE]
  OBVIOUS
<1>4. \A i \in 1..Len(history) : new[i] \in Nat
  BY <1>1, <1>2, <1>3
<1>5. new \in Seq(Nat) /\ Len(new) = Len(history)
  BY <1>1, <1>3, <1>4
<1>6. new = Offsets(history)
  BY <1>1, <1>3 DEF Offsets
<1> QED BY <1>3, <1>5, <1>6

LEMMA OffsetsAppend ==
  ASSUME NEW history \in Seq(Int), NEW a \in Int
  PROVE  Offsets(Append(history, a)) = Append(Offsets(history), a % PAGE_SIZE)
<1>1. PICK longer : longer = Append(history, a)
  OBVIOUS
<1>2. /\ longer \in Seq(Int) /\ Len(longer) = Len(history) + 1
      /\ \A i \in 1..Len(history) : longer[i] = history[i]
      /\ longer[Len(history) + 1] = a
  BY <1>1, AppendProperties
<1>3. PICK left : left = Offsets(longer)
  OBVIOUS
<1>4. /\ left \in Seq(Nat) /\ Len(left) = Len(longer)
      /\ \A i \in 1..Len(longer) : left[i] = longer[i] % PAGE_SIZE
  BY <1>2, <1>3, OffsetsType
<1>5. PICK before : before = Offsets(history)
  OBVIOUS
<1>6. /\ before \in Seq(Nat) /\ Len(before) = Len(history)
      /\ \A i \in 1..Len(history) : before[i] = history[i] % PAGE_SIZE
  BY <1>5, OffsetsType
<1>7. a % PAGE_SIZE \in Nat
  BY SizeAssumption
<1>8. PICK right : right = Append(before, a % PAGE_SIZE)
  OBVIOUS
<1>9. /\ right \in Seq(Nat) /\ Len(right) = Len(history) + 1
      /\ \A i \in 1..Len(history) : right[i] = before[i]
      /\ right[Len(history) + 1] = a % PAGE_SIZE
  BY <1>6, <1>7, <1>8, AppendProperties
<1>10. Len(history) \in Nat
  BY LenProperties
<1>11. \A i \in 1..Len(left) : left[i] = right[i]
  <2> SUFFICES ASSUME NEW i \in 1..(Len(history) + 1) PROVE left[i] = right[i]
    BY <1>2, <1>4
  <2>1. left[i] = longer[i] % PAGE_SIZE
    BY <1>2, <1>4
  <2>2. CASE i \in 1..Len(history)
    BY <1>2, <1>6, <1>9, <2>1, <2>2
  <2>3. CASE i = Len(history) + 1
    BY <1>2, <1>9, <2>1, <2>3
  <2> QED BY <1>10, <2>2, <2>3
<1>12. left = right
  <2>1. Len(left) = Len(right)
    BY <1>2, <1>4, <1>9
  <2> QED BY <1>4, <1>9, <1>11, <2>1, SeqEqual
<1> QED BY <1>1, <1>3, <1>5, <1>8, <1>12

LEMMA PagesAreNumbers == Pages \subseteq Nat
BY AddressParts, SizeAssumption DEF Pages

\* A frame in use holds an item.
LEMMA HeldIsItem ==
  ASSUME MemInv, NEW f \in Occupied
  PROVE  /\ Held(f) \in Items /\ Held(f).page = physical_frames[f]
         /\ Held(f).offsets = Offsets(addr_history[f])
<1>1. f \in Frames /\ physical_frames[f] \in Nat /\ addr_history[f] \in Seq(Int)
  BY PagesAreNumbers DEF Occupied, MemInv, Lists
<1>2. Offsets(addr_history[f]) \in Seq(Nat)
  BY <1>1, OffsetsType
<1> QED BY <1>1, <1>2 DEF Held, Items, Offsets

\* And one that nobody touches holds the same one as before.
LEMMA HeldElsewhere ==
  ASSUME NEW g, physical_frames'[g] = physical_frames[g], addr_history'[g] = addr_history[g]
  PROVE  Held(g)' = Held(g)
BY DEF Held

\* A hit lists one more offset.
LEMMA HeldAfterHit ==
  ASSUME MemInv, NEW f \in Frames, Hit(f)
  PROVE  /\ Occupied' = Occupied /\ f \in Occupied /\ physical_frames[f] = page_no
         /\ page_offset(virtual_address) \in Nat
         /\ Held(f)' = [page |-> Held(f).page,
                        offsets |-> Append(Held(f).offsets, page_offset(virtual_address))]
         /\ \A g \in Frames \ {f} : Held(g)' = Held(g)
<1>1. physical_frames' = physical_frames /\ physical_frames[f] = page_no
  BY DEF Hit, FirstWith
<1>2. virtual_address \in Nat /\ page_no # Empty
  BY RequestedPage DEF Hit
<1>3. Occupied' = Occupied /\ f \in Occupied
  BY <1>1, <1>2 DEF Occupied
<1>4. addr_history[f] \in Seq(Int) /\ phys_addr(f, virtual_address) \in Int /\ f \in Nat
  BY <1>2, PhysicalAddress, FramesAreNumbers DEF MemInv, Lists
<1>5. /\ addr_history'[f] = Append(addr_history[f], phys_addr(f, virtual_address))
      /\ \A g \in Frames \ {f} : addr_history'[g] = addr_history[g]
  BY DEF Hit, MemInv, Lists
<1>6. Offsets(addr_history'[f]) = Append(Offsets(addr_history[f]), page_offset(virtual_address))
  BY <1>2, <1>4, <1>5, OffsetsAppend, PhysicalOffset
<1>7. Held(f).page = physical_frames[f] /\ Held(f).offsets = Offsets(addr_history[f])
  BY <1>3, HeldIsItem
<1>8. Held(f)' = [page |-> physical_frames'[f], offsets |-> Offsets(addr_history'[f])]
  BY DEF Held, Offsets
<1>9. \A g \in Frames \ {f} : Held(g)' = Held(g)
  BY <1>1, <1>5, HeldElsewhere
<1>10. page_offset(virtual_address) \in Nat
  BY <1>2, AddressParts, SizeAssumption
<1> QED BY <1>1, <1>3, <1>6, <1>7, <1>8, <1>9, <1>10

\* The page that comes in has one offset.
NewItem == [page |-> page_no, offsets |-> <<page_offset(virtual_address)>>]

LEMMA NewItemIsItem ==
  ASSUME MemInv, Request, InProcess
  PROVE  NewItem \in Items /\ page_offset(virtual_address) \in Nat
<1>1. virtual_address \in Nat /\ page_no \in Nat
  BY RequestedPage, PagesAreNumbers
<1>2. page_offset(virtual_address) \in Nat
  BY <1>1, AddressParts, SizeAssumption
<1> QED BY <1>1, <1>2 DEF NewItem, Items

\* A page that is placed brings its one offset, whoever was there.
LEMMA HeldAfterPlacing ==
  ASSUME MemInv, NEW f \in Frames, Load(f) \/ Replace(f)
  PROVE  /\ Occupied' = Occupied \union {f}
         /\ Held(f)' = NewItem
         /\ \A g \in Frames \ {f} : Held(g)' = Held(g)
<1>1. Request /\ InProcess /\ physical_frames' = [physical_frames EXCEPT ![f] = page_no]
  BY DEF Load, Replace, Fault
<1>2. page_no # Empty /\ virtual_address \in Nat
  BY <1>1, RequestedPage
<1>3. physical_frames'[f] = page_no /\ \A g \in Frames \ {f} : physical_frames'[g] = physical_frames[g]
  BY <1>1 DEF MemInv
<1>4. Occupied' = Occupied \union {f}
  BY <1>2, <1>3 DEF Occupied
<1>5. PICK p \in Int : p = phys_addr(f, virtual_address)
  BY <1>2, PhysicalAddress
<1>6. /\ addr_history'[f] = <<p>>
      /\ \A g \in Frames \ {f} : addr_history'[g] = addr_history[g]
  <2>1. CASE Load(f)
    <3>1. addr_history[f] = <<>>
      BY <2>1 DEF Load, FirstWith, MemInv, Lists
    <3>2. addr_history' = [addr_history EXCEPT ![f] = Append(addr_history[f], p)]
      BY <1>5, <2>1 DEF Load
    <3>3. Append(addr_history[f], p) = <<p>>
      BY <3>1
    <3> QED BY <3>2, <3>3 DEF MemInv, Lists
  <2>2. CASE Replace(f)
    BY <1>5, <2>2 DEF Replace, MemInv, Lists
  <2> QED BY <2>1, <2>2
<1>7. p % PAGE_SIZE = page_offset(virtual_address)
  BY <1>2, <1>5, PhysicalOffset, FramesAreNumbers
<1>8. PICK history : history = <<p>>
  OBVIOUS
<1>9. history \in Seq(Int) /\ Len(history) = 1 /\ history[1] = p /\ DOMAIN history = 1..1
  BY <1>8
<1>10. Held(f)' = [page |-> page_no, offsets |-> Offsets(history)]
  BY <1>3, <1>6, <1>8 DEF Held, Offsets
<1>11. Offsets(history) = <<page_offset(virtual_address)>>
  BY <1>7, <1>9 DEF Offsets
<1>12. \A g \in Frames \ {f} : Held(g)' = Held(g)
  BY <1>3, <1>6, HeldElsewhere
<1> QED BY <1>4, <1>10, <1>11, <1>12 DEF NewItem

\* The item of the frame that the program finds is the only one with that page.
LEMMA FoundPlace ==
  ASSUME MemInv, Request, InProcess, NEW f \in Frames, physical_frames[f] = page_no,
         NEW s \in CacheStates, NEW turn, NEW place,
         Placed(place, s.list, Occupied, HeldItems, turn)
  PROVE  /\ f \in Occupied /\ place[f] \in 1..Len(s.list) /\ s.list[place[f]] = Held(f)
         /\ {i \in DOMAIN s.list : s.list[i].page = page_no} = {place[f]}
<1>1. page_no # Empty
  BY RequestedPage
<1>2. f \in Occupied
  BY <1>1 DEF Occupied
<1>3. place[f] \in 1..Len(s.list) /\ s.list[place[f]] = Held(f)
  BY <1>2 DEF Placed, HeldItems
<1>4. s.list[place[f]].page = page_no
  BY <1>2, <1>3, HeldIsItem
<1>5. ASSUME NEW i \in 1..Len(s.list), s.list[i].page = page_no PROVE i = place[f]
  <2>1. PICK g \in Occupied : place[g] = i
    BY DEF Placed
  <2>2. g \in Frames /\ s.list[i] = Held(g) /\ Held(g).page = physical_frames[g]
    BY <2>1, HeldIsItem DEF Placed, HeldItems, Occupied
  <2>3. g = f
    BY <1>1, <1>5, <2>2 DEF MemInv, NoCopies
  <2> QED BY <2>1, <2>3
<1>6. s.list \in Seq(Items) /\ DOMAIN s.list = 1..Len(s.list)
  BY LenProperties DEF CacheStates
<1>7. {i \in DOMAIN s.list : s.list[i].page = page_no} = {place[f]}
  BY <1>3, <1>4, <1>5, <1>6
<1> QED BY <1>2, <1>3, <1>7

\* The abstract search finds it.
LEMMA Found ==
  ASSUME MemInv, Request, InProcess, NEW f \in Frames, physical_frames[f] = page_no,
         NEW s \in CacheStates, NEW turn, NEW place,
         Placed(place, s.list, Occupied, HeldItems, turn),
         NEW policy, NEW capacity
  PROVE  Cache!Serve(policy, capacity, s, virtual_address)
           = Cache!Hit(policy, s, place[f], page_offset(virtual_address))
<1>1. virtual_address \in Nat
  BY RequestedPage
<1>2. PICK at : at = {i \in DOMAIN s.list : s.list[i].page = page_no}
  OBVIOUS
<1>3. at = {place[f]}
  BY <1>2, FoundPlace
<1>4. (CHOOSE i \in at : TRUE) = place[f]
  BY <1>3
<1>5. virtual_address < PROCESS_SIZE /\ ~(virtual_address >= PROCESS_SIZE)
  BY <1>1, SizeAssumption DEF InProcess
<1>6. Cache!Serve(policy, capacity, s, virtual_address)
        = Cache!Hit(policy, s, CHOOSE i \in at : TRUE, page_offset(virtual_address))
  BY <1>2, <1>3, <1>5 DEF Cache!Serve, page_no, PageOf, page_offset
<1> QED BY <1>4, <1>6

\* Nor does it find a page that no frame has, nor serve what is out of bounds.
LEMMA NotFound ==
  ASSUME MemInv, Request, InProcess, ~Resident,
         NEW s \in CacheStates, NEW turn, NEW place,
         Placed(place, s.list, Occupied, HeldItems, turn),
         NEW policy, NEW capacity
  PROVE  Cache!Serve(policy, capacity, s, virtual_address) = Cache!Fault(capacity, s, NewItem)
<1>1. virtual_address \in Nat
  BY RequestedPage
<1>2. s.list \in Seq(Items) /\ DOMAIN s.list = 1..Len(s.list)
  BY LenProperties DEF CacheStates
<1>3. PICK at : at = {i \in DOMAIN s.list : s.list[i].page = page_no}
  OBVIOUS
<1>4. ASSUME NEW i \in at PROVE FALSE
  <2>1. i \in 1..Len(s.list) /\ s.list[i].page = page_no
    BY <1>2, <1>3
  <2>2. PICK g \in Occupied : place[g] = i
    BY <2>1 DEF Placed
  <2>3. g \in Frames /\ s.list[i] = Held(g) /\ Held(g).page = physical_frames[g]
    BY <2>2, HeldIsItem DEF Placed, HeldItems, Occupied
  <2> QED BY <2>1, <2>3 DEF Resident
<1>5. at = {}
  BY <1>4
<1>6. virtual_address < PROCESS_SIZE /\ ~(virtual_address >= PROCESS_SIZE)
  BY <1>1, SizeAssumption DEF InProcess
<1> QED BY <1>3, <1>5, <1>6 DEF Cache!Serve, page_no, PageOf, page_offset, NewItem

LEMMA Outside ==
  ASSUME MemInv, OutOfBounds, NEW policy, NEW capacity, NEW s
  PROVE  Cache!Serve(policy, capacity, s, virtual_address) = s
<1>1. requests_cpu \in Seq(Nat) /\ k + 1 \in 1..Len(requests_cpu)
  BY WorkloadAssumption, LenProperties DEF MemInv, OutOfBounds, Request
<1>2. virtual_address \in Nat
  BY <1>1, ElementOfSeq DEF virtual_address
<1>3. virtual_address >= PROCESS_SIZE
  BY <1>2, SizeAssumption DEF OutOfBounds, InProcess
<1> QED BY <1>3 DEF Cache!Serve

\* What a hit makes of the item, and of the state under each policy.
LEMMA HitItem ==
  ASSUME NEW list \in Seq(Items), NEW i \in 1..Len(list), NEW offset \in Nat,
         NEW x, x = [page |-> list[i].page, offsets |-> Append(list[i].offsets, offset)]
  PROVE  x \in Items /\ x.page = list[i].page
<1>1. list[i] \in Items
  BY ElementOfSeq
<1> QED BY <1>1, AppendProperties DEF Items

LEMMA FifoHit ==
  ASSUME NEW s, NEW i, NEW offset,
         NEW x, x = [page |-> s.list[i].page, offsets |-> Append(s.list[i].offsets, offset)]
  PROVE  Cache!Hit("fifo", s, i, offset)
           = [list |-> [s.list EXCEPT ![i] = x], hits |-> s.hits + 1, faults |-> s.faults]
BY DEF Cache!Hit

LEMMA LruHitState ==
  ASSUME NEW s, NEW i, NEW offset,
         NEW x, x = [page |-> s.list[i].page, offsets |-> Append(s.list[i].offsets, offset)]
  PROVE  Cache!Hit("lru", s, i, offset)
           = [list |-> Cache!ToEnd(s.list, i, x), hits |-> s.hits + 1, faults |-> s.faults]
BY DEF Cache!Hit

\* A hit under FIFO: the list stays in order.
LEMMA FollowsStay ==
  ASSUME MemInv, NEW f \in Frames, Hit(f), NEW s, NEW turn, Follows(s, turn),
         NEW t, t = Cache!Serve("fifo", NUM_FRAMES, s, virtual_address)
  PROVE  Follows(t, turn)'
<1>1. s \in CacheStates /\ pg_hits = s.hits /\ pg_faults = s.faults /\ Len(s.list) <= NUM_FRAMES
  BY DEF Follows
<1>2. PICK place : Placed(place, s.list, Occupied, HeldItems, turn)
  BY DEF Follows
<1>3. /\ Occupied' = Occupied /\ f \in Occupied /\ physical_frames[f] = page_no
      /\ page_offset(virtual_address) \in Nat
      /\ Held(f)' = [page |-> Held(f).page,
                     offsets |-> Append(Held(f).offsets, page_offset(virtual_address))]
      /\ \A g \in Frames \ {f} : Held(g)' = Held(g)
  BY HeldAfterHit
<1>4. Request /\ InProcess
  BY DEF Hit
<1>5. /\ place[f] \in 1..Len(s.list) /\ s.list[place[f]] = Held(f)
      /\ t = Cache!Hit("fifo", s, place[f], page_offset(virtual_address))
  <2>1. place[f] \in 1..Len(s.list) /\ s.list[place[f]] = Held(f)
    BY <1>1, <1>2, <1>3, <1>4, FoundPlace
  <2>2. Cache!Serve("fifo", NUM_FRAMES, s, virtual_address)
          = Cache!Hit("fifo", s, place[f], page_offset(virtual_address))
    BY <1>1, <1>2, <1>3, <1>4, Found
  <2> QED BY <2>1, <2>2
<1>6. PICK i \in 1..Len(s.list) : i = place[f]
  BY <1>5
<1>7. PICK x : x = Held(f)'
  OBVIOUS
<1>8. PICK offset \in Nat : offset = page_offset(virtual_address)
  BY <1>3
<1>9. x = [page |-> s.list[i].page, offsets |-> Append(s.list[i].offsets, offset)]
  BY <1>3, <1>5, <1>6, <1>7, <1>8
<1>10. x \in Items /\ Cache!Hit("fifo", s, i, offset)
           = [list |-> [s.list EXCEPT ![i] = x], hits |-> s.hits + 1, faults |-> s.faults]
  <2>1. PICK list \in Seq(Items) : list = s.list
    BY <1>1 DEF CacheStates
  <2>2. x \in Items
    BY <1>9, <2>1, HitItem
  <2>3. Cache!Hit("fifo", s, i, offset)
          = [list |-> [s.list EXCEPT ![i] = x], hits |-> s.hits + 1, faults |-> s.faults]
    BY <1>9, FifoHit
  <2> QED BY <2>2, <2>3
<1>11. t = [list |-> [s.list EXCEPT ![i] = x], hits |-> s.hits + 1, faults |-> s.faults]
  BY <1>5, <1>6, <1>8, <1>10
<1>12. PICK list \in Seq(Items) : list = s.list
  BY <1>1 DEF CacheStates
<1>13. PICK used : used = Occupied
  OBVIOUS
<1>14. PICK held : held = HeldItems
  OBVIOUS
<1>15. PICK now : now = HeldItems'
  OBVIOUS
<1>16. now[f] = x /\ \A g \in used \ {f} : now[g] = held[g]
  BY <1>3, <1>7, <1>13, <1>14, <1>15 DEF HeldItems, Occupied
<1>17. Placed(place, list, used, held, turn)
  BY <1>2, <1>12, <1>13, <1>14
<1>18. PICK new : new = [list EXCEPT ![i] = x]
  OBVIOUS
<1>19. f \in used
  BY <1>3, <1>13
<1>20. new \in Seq(Items) /\ Len(new) = Len(list) /\ Placed(place, new, used, now, turn)
  <2>1. [list EXCEPT ![place[f]] = x] = new
    BY <1>6, <1>18
  <2>2. now[f] = x /\ \A g \in used \ {f} : now[g] = held[g]
    BY <1>16
  <2>3. x \in Items
    BY <1>10
  <2> QED BY ONLY <1>17, <1>19, <2>1, <2>2, <2>3, PlacedStay
<1>21. PICK hits \in Nat : hits = s.hits + 1
  BY <1>1 DEF CacheStates
<1>22. t = [list |-> new, hits |-> hits, faults |-> s.faults]
  BY <1>11, <1>12, <1>18, <1>21
<1>23. t.list = new /\ t.hits = s.hits + 1 /\ t.faults = s.faults
  BY <1>22, <1>21
<1>24. t \in CacheStates
  BY <1>1, <1>20, <1>22 DEF CacheStates
<1>25. pg_hits' = t.hits /\ pg_faults' = t.faults
  BY <1>1, <1>23 DEF Hit
<1>26. Placed(place, t.list, Occupied', HeldItems', turn)
  BY <1>3, <1>13, <1>15, <1>20, <1>23
<1>27. \A g \in Frames : g \in Occupied' <=> g < Len(t.list)
  BY <1>3, <1>12, <1>20, <1>23 DEF Follows
<1> QED BY <1>1, <1>12, <1>20, <1>23, <1>24, <1>25, <1>26, <1>27 DEF Follows

\* A frame goes to the end of the list with what it holds now.
LEMMA FollowsToEnd ==
  ASSUME MemInv, NEW s, NEW turn, Follows(s, turn),
         NEW place, Placed(place, s.list, Occupied, HeldItems, turn),
         NEW f \in Occupied, NEW x \in Items,
         Held(f)' = x, \A g \in Frames \ {f} : Held(g)' = Held(g), Occupied' = Occupied,
         NEW later, \A g \in Occupied : later[g] \in Int,
         \A g, h \in Occupied \ {f} : later[g] < later[h] <=> turn[g] < turn[h],
         \A g \in Occupied \ {f} : later[g] < later[f],
         NEW t, NEW hits \in Nat, NEW faults \in Nat, pg_hits' = hits, pg_faults' = faults,
         t = [list |-> Cache!ToEnd(s.list, place[f], x), hits |-> hits, faults |-> faults]
  PROVE  Follows(t, later)'
<1>1. s \in CacheStates /\ Len(s.list) <= NUM_FRAMES
  BY DEF Follows
<1>2. PICK list \in Seq(Items) : list = s.list
  BY <1>1 DEF CacheStates
<1>3. PICK used : used = Occupied
  OBVIOUS
<1>4. PICK held : held = HeldItems
  OBVIOUS
<1>5. PICK now : now = HeldItems'
  OBVIOUS
<1>6. f \in used /\ used \subseteq Frames
  BY <1>3 DEF Occupied
<1>7. now[f] = x /\ \A g \in used \ {f} : now[g] = held[g]
  BY <1>4, <1>5, <1>6 DEF HeldItems
<1>8. Placed(place, list, used, held, turn)
  BY <1>2, <1>3, <1>4
<1>9. PICK i \in 1..Len(list) : i = place[f]
  BY <1>6, <1>8 DEF Placed
<1>10. PICK new : new = Cache!ToEnd(list, i, x)
  OBVIOUS
<1>11. new \in Seq(Items) /\ Len(new) = Len(list)
  <2>1. MovedToEnd(new, list, i, x)
    BY <1>10, ToEndFacts
  <2> QED BY <2>1 DEF MovedToEnd
<1>12. \E there : Placed(there, new, used, now, later)
  <2>1. /\ \A g, h \in used \ {f} : later[g] < later[h] <=> turn[g] < turn[h]
        /\ \A g \in used : later[g] \in Int
        /\ \A g \in used \ {f} : later[g] < later[f]
    BY <1>3
  <2>2. new = Cache!ToEnd(list, place[f], x)
    BY <1>9, <1>10
  <2> QED BY <1>6, <1>7, <1>8, <2>1, <2>2, PlacedToEnd
<1>13. t = [list |-> new, hits |-> hits, faults |-> faults]
  BY <1>2, <1>9, <1>10
<1>14. t \in CacheStates /\ t.list = new /\ t.hits = hits /\ t.faults = faults
  BY <1>11, <1>13 DEF CacheStates
<1>15. \E there : Placed(there, t.list, Occupied', HeldItems', later)
  BY <1>3, <1>5, <1>12, <1>14
<1>16. \A g \in Frames : g \in Occupied' <=> g < Len(t.list)
  BY <1>2, <1>11, <1>14 DEF Follows
<1> QED BY <1>1, <1>2, <1>11, <1>14, <1>15, <1>16 DEF Follows

\* The first empty frame joins at the end.
LEMMA FollowsAppend ==
  ASSUME MemInv, NEW s, NEW turn, Follows(s, turn),
         NEW f \in Frames, f = Len(s.list), NEW x \in Items,
         Held(f)' = x, \A g \in Frames \ {f} : Held(g)' = Held(g),
         Occupied' = Occupied \union {f},
         NEW later, \A g \in Occupied \union {f} : later[g] \in Int,
         \A g, h \in Occupied : later[g] < later[h] <=> turn[g] < turn[h],
         \A g \in Occupied : later[g] < later[f],
         NEW new, new = Append(s.list, x),
         NEW t, NEW hits \in Nat, NEW faults \in Nat, pg_hits' = hits, pg_faults' = faults,
         t = [list |-> new, hits |-> hits, faults |-> faults]
  PROVE  Follows(t, later)'
<1>1. s \in CacheStates
  BY DEF Follows
<1>2. PICK list \in Seq(Items) : list = s.list
  BY <1>1 DEF CacheStates
<1>3. PICK used : used = Occupied
  OBVIOUS
<1>4. PICK held : held = HeldItems
  OBVIOUS
<1>5. PICK now : now = HeldItems'
  OBVIOUS
<1>6. f \in Nat /\ f < NUM_FRAMES /\ NUM_FRAMES \in Nat /\ \A g \in Frames : g \in Nat
  BY FramesAreNumbers DEF Frames
<1>7. f \notin used /\ used \subseteq Frames
  BY <1>2, <1>3, <1>6 DEF Occupied, Follows
<1>8. now[f] = x /\ \A g \in used : now[g] = held[g]
  BY <1>4, <1>5, <1>7 DEF HeldItems
<1>9. PICK place : Placed(place, list, used, held, turn)
  BY <1>2, <1>3, <1>4 DEF Follows
<1>10. new = Append(list, x)
  BY <1>2
<1>11. new \in Seq(Items) /\ Len(new) = Len(list) + 1
  BY <1>10, AppendProperties
<1>12. \E there : Placed(there, new, used \union {f}, now, later)
  <2>1. /\ \A g, h \in used : later[g] < later[h] <=> turn[g] < turn[h]
        /\ \A g \in used \union {f} : later[g] \in Int
        /\ \A g \in used : later[g] < later[f]
    BY <1>3
  <2>2. \E there : Placed(there, Append(list, x), used \union {f}, now, later)
    BY <1>7, <1>8, <1>9, <2>1, PlacedAppend
  <2> QED BY <1>10, <2>2
<1>13. t \in CacheStates /\ t.list = new /\ t.hits = hits /\ t.faults = faults
  <2>1. new \in Seq(Items)
    BY <1>11
  <2> QED BY <2>1 DEF CacheStates
<1>14. \E there : Placed(there, t.list, Occupied', HeldItems', later)
  BY <1>3, <1>5, <1>12, <1>13
<1>15. Len(t.list) = f + 1
  BY <1>2, <1>11, <1>13
<1>16. \A g \in Frames : g \in Occupied <=> g < f
  BY DEF Follows
<1>17. \A g \in Frames : g \in Occupied' <=> g < Len(t.list)
  BY <1>6, <1>15, <1>16
<1> QED BY <1>6, <1>13, <1>14, <1>15, <1>17 DEF Follows

\* A fault appends to a list that has room, and moves up one that has not.
LEMMA FaultStates ==
  ASSUME NEW s, NEW capacity, NEW x
  PROVE  /\ Len(s.list) < capacity =>
              Cache!Fault(capacity, s, x)
                = [list |-> Append(s.list, x), hits |-> s.hits, faults |-> s.faults + 1]
         /\ ~(Len(s.list) < capacity) =>
              Cache!Fault(capacity, s, x)
                = [list |-> Cache!ToEnd(s.list, 1, x), hits |-> s.hits, faults |-> s.faults + 1]
BY DEF Cache!Fault

\* The free frame that is found is the one after those in use.
LEMMA FirstFree ==
  ASSUME MemInv, NEW s, NEW turn, Follows(s, turn), NEW f \in Frames, FirstWith(Empty, f)
  PROVE  f = Len(s.list) /\ f \in Nat /\ f < NUM_FRAMES
<1>1. f \in Nat /\ NUM_FRAMES \in Nat /\ f < NUM_FRAMES /\ Frames = 0..(NUM_FRAMES - 1)
  BY FramesAreNumbers DEF Frames
<1>2. Len(s.list) \in Nat
  BY LenProperties DEF Follows, CacheStates
<1>3. ~(f < Len(s.list))
  BY DEF Follows, FirstWith, Occupied
<1>4. ~(Len(s.list) < f)
  <2> SUFFICES ASSUME Len(s.list) < f PROVE FALSE
    OBVIOUS
  <2>1. PICK g \in Frames : g = Len(s.list)
    BY <1>1, <1>2
  <2>2. physical_frames[g] = Empty
    BY <1>2, <2>1 DEF Follows, Occupied
  <2>3. g \in 0..(f - 1)
    BY <1>1, <1>2, <2>1
  <2> QED BY <2>2, <2>3, <1>1 DEF FirstWith
<1> QED BY <1>1, <1>2, <1>3, <1>4

\* With every frame in use the list is as long as the memory.
LEMMA FullList ==
  ASSUME NEW s, NEW turn, Follows(s, turn), Full
  PROVE  Len(s.list) = NUM_FRAMES /\ Occupied = Frames
<1>1. NUM_FRAMES \in Nat \ {0} /\ Frames = 0..(NUM_FRAMES - 1)
  BY SomeFrame DEF Frames
<1>2. Len(s.list) \in Nat /\ Len(s.list) <= NUM_FRAMES
  BY LenProperties DEF Follows, CacheStates
<1>3. Occupied = Frames
  BY DEF Full, Occupied
<1>4. NUM_FRAMES - 1 \in Occupied
  BY <1>1, <1>3
<1>5. NUM_FRAMES - 1 < Len(s.list)
  BY <1>1, <1>3, <1>4 DEF Follows
<1> QED BY <1>1, <1>2, <1>3, <1>5

\* A frame whose turn is before that of all others in use has the first place.
LEMMA FirstPlace ==
  ASSUME NEW list \in Seq(Items), NEW used, NEW held, NEW turn, NEW place,
         Placed(place, list, used, held, turn), NEW f \in used,
         \A g \in used : ~(turn[g] < turn[f])
  PROVE  place[f] = 1
<1>1. Len(list) \in Nat /\ place[f] \in 1..Len(list)
  BY LenProperties DEF Placed
<1>2. 1 \in 1..Len(list)
  BY <1>1
<1>3. PICK g \in used : place[g] = 1
  BY <1>2 DEF Placed
<1>4. ~(place[g] < place[f])
  BY DEF Placed
<1> QED BY <1>1, <1>3, <1>4

\* The turns that leave memory alone.
LEMMA FollowsSkip ==
  ASSUME NEW s, NEW turn, Follows(s, turn), UNCHANGED memory
  PROVE  Follows(s, turn)'
<1>1. physical_frames' = physical_frames /\ addr_history' = addr_history
      /\ pg_hits' = pg_hits /\ pg_faults' = pg_faults
  BY DEF memory
<1>2. Occupied' = Occupied
  BY <1>1 DEF Occupied
<1>3. HeldItems' = HeldItems
  BY <1>1 DEF HeldItems, Held
<1> QED BY <1>1, <1>2, <1>3 DEF Follows

\* A page loaded into the first free frame, when that gets the last turn.
LEMMA FollowsLoad ==
  ASSUME MemInv, NEW s, NEW turn, Follows(s, turn), NEW f \in Frames, Load(f),
         NEW later, \A g \in Occupied \union {f} : later[g] \in Int,
         \A g, h \in Occupied : later[g] < later[h] <=> turn[g] < turn[h],
         \A g \in Occupied : later[g] < later[f],
         NEW policy, NEW t, t = Cache!Serve(policy, NUM_FRAMES, s, virtual_address)
  PROVE  Follows(t, later)'
<1>1. Fault /\ Request /\ InProcess /\ ~Resident /\ FirstWith(Empty, f)
  BY DEF Load, Fault
<1>2. s \in CacheStates /\ pg_hits = s.hits /\ pg_faults = s.faults
  BY DEF Follows
<1>3. PICK place : Placed(place, s.list, Occupied, HeldItems, turn)
  BY DEF Follows
<1>4. PICK x \in Items : x = NewItem
  BY <1>1, NewItemIsItem
<1>5. Cache!Serve(policy, NUM_FRAMES, s, virtual_address) = Cache!Fault(NUM_FRAMES, s, NewItem)
  BY <1>1, <1>2, <1>3, NotFound
<1>6. f = Len(s.list) /\ Len(s.list) < NUM_FRAMES
  BY <1>1, FirstFree
<1>7. PICK new : new = Append(s.list, x)
  OBVIOUS
<1>8. PICK hits \in Nat : hits = s.hits
  BY <1>2 DEF CacheStates
<1>9. PICK faults \in Nat : faults = s.faults + 1
  BY <1>2 DEF CacheStates
<1>10. t = [list |-> new, hits |-> hits, faults |-> faults]
  BY <1>4, <1>5, <1>6, <1>7, <1>8, <1>9, FaultStates
<1>11. pg_hits' = hits /\ pg_faults' = faults
  BY <1>1, <1>2, <1>8, <1>9 DEF Fault
<1>12. /\ Occupied' = Occupied \union {f}
       /\ Held(f)' = x
       /\ \A g \in Frames \ {f} : Held(g)' = Held(g)
  BY <1>4, HeldAfterPlacing
<1> QED BY <1>6, <1>7, <1>10, <1>11, <1>12, FollowsAppend

\* A page that replaces the first of the list, when its frame gets the last turn.
LEMMA FollowsReplace ==
  ASSUME MemInv, NEW s, NEW turn, Follows(s, turn), NEW f \in Frames, Replace(f),
         \A g \in Frames : ~(turn[g] < turn[f]),
         NEW later, \A g \in Frames : later[g] \in Int,
         \A g, h \in Frames \ {f} : later[g] < later[h] <=> turn[g] < turn[h],
         \A g \in Frames \ {f} : later[g] < later[f],
         NEW policy, NEW t, t = Cache!Serve(policy, NUM_FRAMES, s, virtual_address)
  PROVE  Follows(t, later)'
<1>1. Fault /\ Request /\ InProcess /\ ~Resident /\ Full
  BY DEF Replace, Fault
<1>2. s \in CacheStates /\ pg_hits = s.hits /\ pg_faults = s.faults
  BY DEF Follows
<1>3. PICK place : Placed(place, s.list, Occupied, HeldItems, turn)
  BY DEF Follows
<1>4. PICK x \in Items : x = NewItem
  BY <1>1, NewItemIsItem
<1>5. Cache!Serve(policy, NUM_FRAMES, s, virtual_address) = Cache!Fault(NUM_FRAMES, s, NewItem)
  BY <1>1, <1>2, <1>3, NotFound
<1>6. Len(s.list) = NUM_FRAMES /\ Occupied = Frames /\ NUM_FRAMES \in Nat
  BY <1>1, FullList, FramesAreNumbers
<1>7. place[f] = 1
  BY <1>2, <1>3, <1>6, FirstPlace DEF CacheStates
<1>8. PICK hits \in Nat : hits = s.hits
  BY <1>2 DEF CacheStates
<1>9. PICK faults \in Nat : faults = s.faults + 1
  BY <1>2 DEF CacheStates
<1>10. Cache!Fault(NUM_FRAMES, s, NewItem) = [list |-> Cache!ToEnd(s.list, 1, NewItem), hits |-> s.hits, faults |-> s.faults + 1]
  BY <1>6, FaultStates
<1>11. t = [list |-> Cache!ToEnd(s.list, place[f], x), hits |-> hits, faults |-> faults]
  BY <1>4, <1>5, <1>7, <1>8, <1>9, <1>10
<1>12. pg_hits' = hits /\ pg_faults' = faults
  BY <1>1, <1>2, <1>8, <1>9 DEF Fault
<1>13. /\ Occupied' = Occupied
       /\ Held(f)' = x
       /\ \A g \in Frames \ {f} : Held(g)' = Held(g)
  <2>1. Occupied \union {f} = Occupied
    BY <1>6
  <2> QED BY <1>4, <2>1, HeldAfterPlacing
<1>14. f \in Occupied /\ \A g \in Occupied : later[g] \in Int
  BY <1>6
<1>15. \A g, h \in Occupied \ {f} : later[g] < later[h] <=> turn[g] < turn[h]
  BY <1>6
<1>16. \A g \in Occupied \ {f} : later[g] < later[f]
  BY <1>6
<1> QED BY <1>3, <1>11, <1>12, <1>13, <1>14, <1>15, <1>16, FollowsToEnd

\* A hit that gives its frame the last turn.
LEMMA FollowsUse ==
  ASSUME MemInv, NEW s, NEW turn, Follows(s, turn), NEW f \in Frames, Hit(f),
         NEW later, \A g \in Frames : later[g] \in Int,
         \A g, h \in Frames \ {f} : later[g] < later[h] <=> turn[g] < turn[h],
         \A g \in Frames \ {f} : later[g] < later[f],
         NEW t, t = Cache!Serve("lru", NUM_FRAMES, s, virtual_address)
  PROVE  Follows(t, later)'
<1>1. Request /\ InProcess
  BY DEF Hit
<1>2. s \in CacheStates /\ pg_hits = s.hits /\ pg_faults = s.faults
  BY DEF Follows
<1>3. PICK place : Placed(place, s.list, Occupied, HeldItems, turn)
  BY DEF Follows
<1>4. /\ Occupied' = Occupied /\ f \in Occupied /\ physical_frames[f] = page_no
      /\ page_offset(virtual_address) \in Nat
      /\ Held(f)' = [page |-> Held(f).page,
                     offsets |-> Append(Held(f).offsets, page_offset(virtual_address))]
      /\ \A g \in Frames \ {f} : Held(g)' = Held(g)
  BY HeldAfterHit
<1>5. place[f] \in 1..Len(s.list) /\ s.list[place[f]] = Held(f)
  BY <1>1, <1>2, <1>3, <1>4, FoundPlace
<1>6. Cache!Serve("lru", NUM_FRAMES, s, virtual_address)
        = Cache!Hit("lru", s, place[f], page_offset(virtual_address))
  BY <1>1, <1>2, <1>3, <1>4, Found
<1>7. PICK i \in 1..Len(s.list) : i = place[f]
  BY <1>5
<1>8. PICK x : x = Held(f)'
  OBVIOUS
<1>9. PICK offset \in Nat : offset = page_offset(virtual_address)
  BY <1>4
<1>10. x = [page |-> s.list[i].page, offsets |-> Append(s.list[i].offsets, offset)]
  BY <1>4, <1>5, <1>7, <1>8, <1>9
<1>11. x \in Items /\ Cache!Hit("lru", s, i, offset)
           = [list |-> Cache!ToEnd(s.list, i, x), hits |-> s.hits + 1, faults |-> s.faults]
  <2>1. PICK list \in Seq(Items) : list = s.list
    BY <1>2 DEF CacheStates
  <2>2. x \in Items
    BY <1>10, <2>1, HitItem
  <2>3. Cache!Hit("lru", s, i, offset)
          = [list |-> Cache!ToEnd(s.list, i, x), hits |-> s.hits + 1, faults |-> s.faults]
    BY <1>10, LruHitState
  <2> QED BY <2>2, <2>3
<1>12. PICK hits \in Nat : hits = s.hits + 1
  BY <1>2 DEF CacheStates
<1>13. PICK faults \in Nat : faults = s.faults
  BY <1>2 DEF CacheStates
<1>14. t = [list |-> Cache!ToEnd(s.list, place[f], x), hits |-> hits, faults |-> faults]
  BY <1>6, <1>7, <1>9, <1>11, <1>12, <1>13
<1>15. pg_hits' = hits /\ pg_faults' = faults
  BY <1>2, <1>12, <1>13 DEF Hit
<1>16. Held(f)' = x /\ Occupied \subseteq Frames
  BY <1>8 DEF Occupied
<1>17. \A g \in Occupied : later[g] \in Int
  BY <1>16
<1>18. \A g, h \in Occupied \ {f} : later[g] < later[h] <=> turn[g] < turn[h]
  BY <1>16
<1>19. \A g \in Occupied \ {f} : later[g] < later[f]
  BY <1>16
<1> QED BY <1>3, <1>4, <1>11, <1>14, <1>15, <1>16, <1>17, <1>18, <1>19, FollowsToEnd

-----------------------------------------------------------------------------
\* Frames fill in order while the pointer is at the first.
FifoInv ==
  /\ Follows(Cache!After("fifo", NUM_FRAMES, requests_cpu)[k], Turn)
  /\ ptr_fifo = 0 \/ Full

\* Every stamp is the time of a request that was served.
LruInv ==
  /\ Follows(Cache!After("lru", NUM_FRAMES, requests_cpu)[k], last_time_used)
  /\ last_time_used \in [Frames -> Int]
  /\ \A f \in Frames : last_time_used[f] < k

\* The turns by the distance of a frame from the pointer, which wraps around.
LEMMA TurnIs ==
  ASSUME NEW p \in Frames, NEW f \in Frames
  PROVE  (f + NUM_FRAMES - p) % NUM_FRAMES = IF p <= f THEN f - p ELSE f - p + NUM_FRAMES
<1>1. NUM_FRAMES \in Nat \ {0} /\ Frames = 0..(NUM_FRAMES - 1)
  BY SomeFrame DEF Frames
<1>2. \A r \in 0..(NUM_FRAMES - 1) : r % NUM_FRAMES = r /\ (r + NUM_FRAMES) % NUM_FRAMES = r
  BY <1>1
<1>3. CASE p <= f
  <2>1. PICK r \in 0..(NUM_FRAMES - 1) : r = f - p
    BY <1>1, <1>3
  <2>2. f + NUM_FRAMES - p = r + NUM_FRAMES
    BY <1>1, <2>1
  <2> QED BY <1>2, <1>3, <2>1, <2>2
<1>4. CASE ~(p <= f)
  <2>1. PICK r \in 0..(NUM_FRAMES - 1) : r = f + NUM_FRAMES - p
    BY <1>1, <1>4
  <2>2. f - p + NUM_FRAMES = r
    BY <1>1, <2>1
  <2> QED BY <1>2, <1>4, <2>1, <2>2
<1> QED BY <1>3, <1>4

LEMMA NextPointer ==
  ASSUME NEW p \in Frames
  PROVE  (p + 1) % NUM_FRAMES = IF p = NUM_FRAMES - 1 THEN 0 ELSE p + 1
<1>1. NUM_FRAMES \in Nat \ {0} /\ Frames = 0..(NUM_FRAMES - 1)
  BY SomeFrame DEF Frames
<1> QED BY <1>1

\* One turn of the loop of pagingsyswithfifo.c, and one of the queue.
LEMMA FifoStep ==
  ASSUME MemInv, ptr_fifo \in Frames, FifoRequest,
         NEW s, Follows(s, Turn), ptr_fifo = 0 \/ Full,
         NEW t, t = Cache!Serve("fifo", NUM_FRAMES, s, virtual_address)
  PROVE  Follows(t, Turn)' /\ (ptr_fifo = 0 \/ Full)'
<1>1. NUM_FRAMES \in Nat \ {0} /\ Frames = 0..(NUM_FRAMES - 1)
  BY SomeFrame DEF Frames
<1>2. PICK p \in Frames : p = ptr_fifo
  OBVIOUS
<1>3. PICK turn : turn = Turn
  OBVIOUS
<1>4. PICK later : later = Turn'
  OBVIOUS
<1>5. Follows(s, turn)
  BY <1>3
<1>6. \A f \in Frames : turn[f] = IF p <= f THEN f - p ELSE f - p + NUM_FRAMES
  BY <1>2, <1>3, TurnIs DEF Turn
<1>7. SUFFICES Follows(t, later)' /\ (ptr_fifo = 0 \/ Full)'
  BY <1>4
<1>8. CASE OutOfBounds /\ UNCHANGED ptr_fifo
  <2>1. t = s
    BY <1>8, Outside
  <2>2. later = turn
    BY <1>3, <1>4, <1>8 DEF Turn
  <2>3. UNCHANGED memory
    BY <1>8 DEF OutOfBounds
  <2>4. Follows(s, turn)'
    BY <1>5, <2>3, FollowsSkip
  <2>5. (ptr_fifo = 0 \/ Full)'
    BY <1>8, <2>3 DEF memory, Full
  <2> QED BY <2>1, <2>2, <2>4, <2>5
<1>9. ASSUME NEW f \in Frames, Hit(f), UNCHANGED ptr_fifo
      PROVE  Follows(t, later)' /\ (ptr_fifo = 0 \/ Full)'
  <2>1. later = turn
    BY <1>3, <1>4, <1>9 DEF Turn
  <2>2. Follows(t, turn)'
    BY <1>5, <1>9, FollowsStay
  <2>3. (ptr_fifo = 0 \/ Full)'
    BY <1>9 DEF Full, Hit
  <2> QED BY <2>1, <2>2, <2>3
<1>10. ASSUME NEW f \in Frames, Load(f), UNCHANGED ptr_fifo
      PROVE  Follows(t, later)' /\ (ptr_fifo = 0 \/ Full)'
  <2>1. FirstWith(Empty, f)
    BY <1>10 DEF Load
  <2>2. p = 0 /\ ptr_fifo' = 0
    BY <1>2, <1>10, <2>1 DEF Full, FirstWith
  <2>3. later = turn
    BY <1>3, <1>4, <1>10 DEF Turn
  <2>4. \A g \in Frames : turn[g] = g
    BY <1>1, <1>6, <2>2
  <2>5. f = Len(s.list)
    BY <1>5, <2>1, FirstFree
  <2>6. \A g \in Occupied : g \in Frames /\ g < f
    BY <2>5 DEF Follows, Occupied
  <2>7. /\ \A g \in Occupied \union {f} : later[g] \in Int
        /\ \A g, h \in Occupied : later[g] < later[h] <=> turn[g] < turn[h]
        /\ \A g \in Occupied : later[g] < later[f]
    BY <1>1, <2>3, <2>4, <2>6
  <2>8. Follows(t, later)'
    BY <1>5, <1>10, <2>7, FollowsLoad
  <2> QED BY <2>2, <2>8
<1>11. CASE EvictOldest
  <2>1. Replace(p)
    BY <1>2, <1>11 DEF EvictOldest
  <2>2. PICK q \in Frames : q = ptr_fifo' /\ q = IF p = NUM_FRAMES - 1 THEN 0 ELSE p + 1
    BY <1>1, <1>2, <1>11, NextPointer DEF EvictOldest
  <2>3. \A f \in Frames : later[f] = IF q <= f THEN f - q ELSE f - q + NUM_FRAMES
    BY <1>4, <2>2, TurnIs DEF Turn
  <2>4. \A g \in Frames : ~(turn[g] < turn[p])
    BY <1>1, <1>6
  <2>5. later[p] = NUM_FRAMES - 1 /\ \A g \in Frames \ {p} : later[g] = turn[g] - 1
    <3>1. p \in Int /\ q \in Int /\ NUM_FRAMES \in Int
      BY <1>1
    <3>2. later[p] = NUM_FRAMES - 1
      <4>1. later[p] = IF q <= p THEN p - q ELSE p - q + NUM_FRAMES
        BY <2>3
      <4> QED BY <1>1, <2>2, <4>1
    <3>3. ASSUME NEW g \in Frames \ {p} PROVE later[g] = turn[g] - 1
      <4>1. later[g] = IF q <= g THEN g - q ELSE g - q + NUM_FRAMES
        BY <2>3
      <4>2. turn[g] = IF p <= g THEN g - p ELSE g - p + NUM_FRAMES
        BY <1>6
      <4>3. g \in Int /\ g # p /\ 0 <= g /\ g <= NUM_FRAMES - 1
        BY <1>1
      <4>4. CASE p = NUM_FRAMES - 1
        BY <3>1, <2>2, <4>1, <4>2, <4>3, <4>4
      <4>5. CASE p # NUM_FRAMES - 1
        <5>1. q = p + 1
          BY <2>2, <4>5
        <5>2. CASE p <= g
          BY <3>1, <4>1, <4>2, <4>3, <5>1, <5>2
        <5>3. CASE ~(p <= g)
          BY <3>1, <4>1, <4>2, <4>3, <5>1, <5>3
        <5> QED BY <5>2, <5>3
      <4> QED BY <4>4, <4>5
    <3> QED BY <3>2, <3>3
  <2>6. \A g \in Frames : turn[g] \in Int /\ later[g] \in Int
    BY <1>1, <1>6, <2>2, <2>3
  <2>7. \A g \in Frames \ {p} : later[g] < later[p]
    <3> SUFFICES ASSUME NEW g \in Frames \ {p} PROVE later[g] < later[p]
      OBVIOUS
    <3>1. turn[g] = IF p <= g THEN g - p ELSE g - p + NUM_FRAMES
      BY <1>6
    <3>2. turn[g] \in Int /\ turn[g] < NUM_FRAMES
      BY <1>1, <3>1
    <3>3. later[g] = turn[g] - 1 /\ later[p] = NUM_FRAMES - 1
      BY <2>5
    <3> QED BY <1>1, <3>2, <3>3
  <2>8. \A g, h \in Frames \ {p} : later[g] < later[h] <=> turn[g] < turn[h]
    BY <2>5, <2>6
  <2>9. Follows(t, later)'
    BY <1>5, <2>1, <2>4, <2>6, <2>7, <2>8, FollowsReplace
  <2>10. Full'
    <3>1. Full /\ physical_frames' = [physical_frames EXCEPT ![p] = page_no] /\ page_no # Empty
      BY <2>1, RequestedPage DEF Replace, Fault
    <3> QED BY <3>1 DEF Full, MemInv
  <2> QED BY <2>9, <2>10
<1> QED BY <1>8, <1>9, <1>10, <1>11 DEF FifoRequest, FifoHitOrLoad

\* One turn of the loop of pagingsyswithlru.c, and one of the list by recency.
LEMMA LruStep ==
  ASSUME MemInv, LruRequest, NEW s, Follows(s, last_time_used),
         last_time_used \in [Frames -> Int], \A f \in Frames : last_time_used[f] < k,
         NEW t, t = Cache!Serve("lru", NUM_FRAMES, s, virtual_address)
  PROVE  /\ Follows(t, last_time_used)'
         /\ last_time_used' \in [Frames -> Int]
         /\ \A f \in Frames : last_time_used'[f] < k'
<1>1. PICK turn : turn = last_time_used
  OBVIOUS
<1>2. PICK later : later = last_time_used'
  OBVIOUS
<1>3. Follows(s, turn) /\ turn \in [Frames -> Int] /\ \A f \in Frames : turn[f] < k
  BY <1>1
<1>4. k \in Int /\ k' = k + 1
  BY LenProperties, WorkloadAssumption
  DEF MemInv, LruRequest, LruHit, LruLoad, EvictLeastRecent, OutOfBounds, Hit, Load, Replace, Fault, Request
<1> SUFFICES /\ Follows(t, later)' /\ later \in [Frames -> Int]
             /\ \A f \in Frames : later[f] < k'
  BY <1>2
<1>5. CASE OutOfBounds /\ UNCHANGED last_time_used
  <2>1. t = s
    BY <1>5, Outside
  <2>2. later = turn
    BY <1>1, <1>2, <1>5
  <2>3. Follows(s, turn)'
    BY <1>3, <1>5, FollowsSkip DEF OutOfBounds
  <2>4. \A f \in Frames : turn[f] < k'
    BY <1>3, <1>4
  <2> QED BY <1>3, <2>1, <2>2, <2>3, <2>4
<1>6. ASSUME NEW f \in Frames, UsedNow(f)
      PROVE  /\ later \in [Frames -> Int] /\ later[f] = k
             /\ \A g \in Frames \ {f} : later[g] = turn[g]
             /\ \A g \in Frames : later[g] < k'
             /\ \A g \in Frames \ {f} : later[g] < later[f]
  <2>1. later = [turn EXCEPT ![f] = k]
    BY <1>1, <1>2, <1>6 DEF UsedNow
  <2>2. later \in [Frames -> Int] /\ later[f] = k /\ \A g \in Frames \ {f} : later[g] = turn[g]
    BY <1>3, <1>4, <2>1
  <2>3. \A g \in Frames : turn[g] < k'
    BY <1>3, <1>4
  <2>4. k < k'
    BY <1>4
  <2>5. \A g \in Frames : later[g] < k'
    BY <2>2, <2>3, <2>4
  <2>6. \A g \in Frames \ {f} : later[g] < later[f]
    BY <1>3, <2>2
  <2> QED BY <2>2, <2>5, <2>6
<1>7. ASSUME NEW f \in Frames, LruHit(f)
      PROVE  /\ Follows(t, later)' /\ later \in [Frames -> Int]
             /\ \A g \in Frames : later[g] < k'
  <2>1. Hit(f) /\ UsedNow(f)
    BY <1>7 DEF LruHit
  <2>2. /\ later \in [Frames -> Int]
        /\ \A g \in Frames : later[g] < k'
        /\ \A g \in Frames \ {f} : later[g] < later[f]
        /\ \A g \in Frames \ {f} : later[g] = turn[g]
    BY <1>6, <2>1
  <2>3. \A g, h \in Frames \ {f} : later[g] < later[h] <=> turn[g] < turn[h]
    BY <2>2
  <2>4. \A g \in Frames : later[g] \in Int
    BY <2>2
  <2>5. Follows(t, later)'
    BY <1>3, <2>1, <2>2, <2>3, <2>4, FollowsUse
  <2> QED BY <2>2, <2>5
<1>8. ASSUME NEW f \in Frames, LruLoad(f)
      PROVE  /\ Follows(t, later)' /\ later \in [Frames -> Int]
             /\ \A g \in Frames : later[g] < k'
  <2>1. Load(f) /\ UsedNow(f)
    BY <1>8 DEF LruLoad
  <2>2. /\ later \in [Frames -> Int]
        /\ \A g \in Frames : later[g] < k'
        /\ \A g \in Frames \ {f} : later[g] < later[f]
        /\ \A g \in Frames \ {f} : later[g] = turn[g]
    BY <1>6, <2>1
  <2>3. \A g \in Occupied : g \in Frames \ {f}
    BY <2>1 DEF Load, FirstWith, Occupied
  <2>4. \A g, h \in Occupied : later[g] < later[h] <=> turn[g] < turn[h]
    BY <2>2, <2>3
  <2>5. \A g \in Occupied \union {f} : later[g] \in Int
    BY <2>2, <2>3
  <2>6. \A g \in Occupied : later[g] < later[f]
    BY <2>2, <2>3
  <2>7. Follows(t, later)'
    BY <1>3, <2>1, <2>4, <2>5, <2>6, FollowsLoad
  <2> QED BY <2>2, <2>7
<1>9. ASSUME NEW f \in Frames, EvictLeastRecent(f)
      PROVE  /\ Follows(t, later)' /\ later \in [Frames -> Int]
             /\ \A g \in Frames : later[g] < k'
  <2>1. LeastRecent(f) /\ Replace(f) /\ UsedNow(f)
    BY <1>9 DEF EvictLeastRecent
  <2>2. /\ later \in [Frames -> Int]
        /\ \A g \in Frames : later[g] < k'
        /\ \A g \in Frames \ {f} : later[g] < later[f]
        /\ \A g \in Frames \ {f} : later[g] = turn[g]
    BY <1>6, <2>1
  <2>3. \A g, h \in Frames \ {f} : later[g] < later[h] <=> turn[g] < turn[h]
    BY <2>2
  <2>4. \A g \in Frames : later[g] \in Int
    BY <2>2
  <2>5. \A g \in Frames : ~(turn[g] < turn[f])
    BY <1>1, <1>3, <2>1 DEF LeastRecent
  <2>6. Follows(t, later)'
    BY <1>3, <2>1, <2>2, <2>3, <2>4, <2>5, FollowsReplace
  <2> QED BY <2>2, <2>6
<1> QED BY <1>5, <1>7, <1>8, <1>9 DEF LruRequest

-----------------------------------------------------------------------------
(* The invariant, over all the steps of a program.                           *)
\* Whichever simulation runs, the frames follow the list of its policy.
PolicyInv ==
  /\ todo \in Programs \union {<<>>}
  /\ Runs("fifo") => FifoInv
  /\ Runs("lru") => LruInv

\* The list moves on with the requests.
LEMMA AfterStep ==
  ASSUME MemInv, Request, NEW policy, NEW capacity,
         NEW after, after = Cache!After(policy, capacity, requests_cpu)
  PROVE  /\ after = Cache!After(policy, capacity, requests_cpu)'
         /\ after[k'] = Cache!Serve(policy, capacity, after[k], virtual_address)
<1>1. requests_cpu \in Seq(Nat) /\ k \in Nat /\ k' = k + 1 /\ k + 1 \in 1..Len(requests_cpu)
  BY WorkloadAssumption, LenProperties DEF MemInv, Request
<1>2. after = Cache!After(policy, capacity, requests_cpu)'
  BY DEF Request
<1>3. PICK requests \in Seq(Nat) : requests = requests_cpu
  BY <1>1
<1>4. after = Cache!After(policy, capacity, requests)
  BY <1>3
<1>5. \A n \in 1..Len(requests) :
        after[n] = Cache!Serve(policy, capacity, after[n - 1], requests[n])
  BY <1>4, AfterIsDefined
<1>6. PICK n \in 1..Len(requests) : n = k + 1
  BY <1>1, <1>3
<1>7. n - 1 = k
  BY <1>1, <1>6
<1> QED BY <1>1, <1>2, <1>3, <1>5, <1>6, <1>7 DEF virtual_address

LEMMA AfterNothing ==
  ASSUME NEW requests \in Seq(Nat), NEW policy, NEW capacity
  PROVE  Cache!After(policy, capacity, requests)[0] = Cache!Start
<1>1. PICK after : after = Cache!After(policy, capacity, requests)
  OBVIOUS
<1> QED BY <1>1, AfterIsDefined

\* Empty frames show the empty list.
LEMMA StartStates ==
  /\ Cache!Start \in CacheStates /\ Cache!Start.list = <<>> /\ Len(Cache!Start.list) = 0
  /\ Cache!Start.hits = 0 /\ Cache!Start.faults = 0
BY DEF Cache!Start, CacheStates

LEMMA NobodyPlaced ==
  ASSUME NEW list, Len(list) = 0, NEW held, NEW turn
  PROVE  \E place : Placed(place, list, {}, held, turn)
<1>1. Placed([f \in {} |-> 0], list, {}, held, turn)
  BY DEF Placed
<1> QED BY <1>1

LEMMA FollowsStart ==
  ASSUME physical_frames = EmptyMemory, pg_hits = 0, pg_faults = 0, NEW turn
  PROVE  Follows(Cache!Start, turn)
<1>1. Occupied = {}
  BY DEF Occupied, EmptyMemory
<1>2. \A f \in Frames : f \in Nat /\ ~(f < 0)
  BY FramesAreNumbers
<1>3. NUM_FRAMES \in Nat
  BY FramesAreNumbers
<1>4. PICK held : held = HeldItems
  OBVIOUS
<1>5. \E place : Placed(place, Cache!Start.list, {}, held, turn)
  BY StartStates, NobodyPlaced
<1> QED BY <1>1, <1>2, <1>3, <1>4, <1>5, StartStates DEF Follows

LEMMA FollowsRestart ==
  ASSUME physical_frames' = EmptyMemory, pg_hits' = 0, pg_faults' = 0, NEW turn
  PROVE  Follows(Cache!Start, turn)'
<1>1. Occupied' = {}
  BY DEF Occupied, EmptyMemory
<1>2. \A f \in Frames : f \in Nat /\ ~(f < 0)
  BY FramesAreNumbers
<1>3. NUM_FRAMES \in Nat
  BY FramesAreNumbers
<1>4. PICK held : held = HeldItems'
  OBVIOUS
<1>5. \E place : Placed(place, Cache!Start.list, {}, held, turn)
  BY StartStates, NobodyPlaced
<1> QED BY <1>1, <1>2, <1>3, <1>4, <1>5, StartStates DEF Follows

LEMMA UnusedFits ==
  Unused \in [Frames -> Int] /\ \A f \in Frames : Unused[f] < 0
BY DEF Unused

LEMMA InitPolicy == Init => PolicyInv
<1> SUFFICES ASSUME Init PROVE PolicyInv
  OBVIOUS
<1>1. /\ todo \in Programs /\ requests_cpu \in Seq(Nat) /\ k = 0 /\ ptr_fifo = 0
      /\ physical_frames = EmptyMemory /\ pg_hits = 0 /\ pg_faults = 0 /\ last_time_used = Unused
  BY WorkloadAssumption DEF Init, FifoInit, LruInit, PagingInit
<1>2. PICK requests \in Seq(Nat) : requests = requests_cpu
  BY <1>1
<1>3. \A policy : Cache!After(policy, NUM_FRAMES, requests_cpu)[k] = Cache!Start
  BY <1>1, <1>2, AfterNothing
<1>4. \A turn : Follows(Cache!Start, turn)
  BY <1>1, FollowsStart
<1>5. FifoInv
  BY <1>1, <1>3, <1>4 DEF FifoInv
<1>6. LruInv
  BY <1>1, <1>3, <1>4, UnusedFits DEF LruInv
<1> QED BY <1>1, <1>5, <1>6 DEF PolicyInv

\* Only the comparison programs have a second simulation.
LEMMA MoreThanOne == ASSUME PolicyInv, Reset PROVE todo = <<"fifo", "lru">>
<1>1. Len(todo) > 1
  BY DEF Reset, Conclude
<1>2. todo \in {<<>>, <<"plain">>, <<"fifo">>, <<"lru">>, <<"fifo", "lru">>}
  BY DEF PolicyInv, Programs
<1> QED BY <1>1, <1>2

\* Only LRU comes after another simulation.
LEMMA LruIsLeft == ASSUME PolicyInv, Reset PROVE todo' = <<"lru">>
<1>1. todo' = Tail(todo)
  BY DEF Reset, Conclude
<1>2. todo = <<"fifo", "lru">>
  BY MoreThanOne
<1> QED BY <1>1, <1>2

\* The last simulation leaves none to do.
LEMMA NothingLeft == ASSUME PolicyInv, Finish PROVE todo' = <<>>
<1>1. todo' = Tail(todo) /\ Len(todo) = 1
  BY DEF Finish, Conclude
<1>2. todo \in {<<>>, <<"plain">>, <<"fifo">>, <<"lru">>, <<"fifo", "lru">>}
  BY DEF PolicyInv, Programs
<1>3. todo \in {<<"plain">>, <<"fifo">>, <<"lru">>}
  BY <1>1, <1>2
<1>4. Tail(<<"plain">>) = <<>> /\ Tail(<<"fifo">>) = <<>> /\ Tail(<<"lru">>) = <<>>
  OBVIOUS
<1> QED BY <1>1, <1>3, <1>4

LEMMA NextPolicy == IInv /\ PolicyInv /\ [Next]_vars => PolicyInv'
<1> SUFFICES ASSUME MemInv, ptr_fifo \in Frames, PolicyInv, [Next]_vars PROVE PolicyInv'
  BY DEF IInv
<1>1. CASE PlainTurn
  <2>1. ~Runs("fifo") /\ ~Runs("lru") /\ todo' = todo
    BY <1>1 DEF PlainTurn, Runs
  <2> QED BY <2>1 DEF PolicyInv, Runs
<1>2. CASE FifoTurn
  <2>1. Runs("fifo") /\ FifoInv /\ FifoRequest /\ ~Runs("lru") /\ todo' = todo
    BY <1>2 DEF FifoTurn, Runs, PolicyInv
  <2>2. PICK after : after = Cache!After("fifo", NUM_FRAMES, requests_cpu)
    OBVIOUS
  <2>3. Request
    BY <2>1 DEF FifoRequest, FifoHitOrLoad, EvictOldest, OutOfBounds, Hit, Load, Replace, Fault
  <2>4. /\ after = Cache!After("fifo", NUM_FRAMES, requests_cpu)'
        /\ after[k'] = Cache!Serve("fifo", NUM_FRAMES, after[k], virtual_address)
    BY <2>2, <2>3, AfterStep
  <2>5. PICK s : s = after[k]
    OBVIOUS
  <2>6. PICK t : t = after[k']
    OBVIOUS
  <2>7. Follows(s, Turn) /\ (ptr_fifo = 0 \/ Full)
    BY <2>1, <2>2, <2>5 DEF FifoInv
  <2>8. t = Cache!Serve("fifo", NUM_FRAMES, s, virtual_address)
    BY <2>4, <2>5, <2>6
  <2>9. Follows(t, Turn)' /\ (ptr_fifo = 0 \/ Full)'
    BY <2>1, <2>7, <2>8, FifoStep
  <2>10. FifoInv'
    BY <2>4, <2>6, <2>9 DEF FifoInv
  <2> QED BY <2>1, <2>10 DEF PolicyInv, Runs
<1>3. CASE LruTurn
  <2>1. Runs("lru") /\ LruInv /\ LruRequest /\ ~Runs("fifo") /\ todo' = todo
    BY <1>3 DEF LruTurn, Runs, PolicyInv
  <2>2. PICK after : after = Cache!After("lru", NUM_FRAMES, requests_cpu)
    OBVIOUS
  <2>3. Request
    BY <2>1 DEF LruRequest, LruHit, LruLoad, EvictLeastRecent, OutOfBounds, Hit, Load, Replace, Fault
  <2>4. /\ after = Cache!After("lru", NUM_FRAMES, requests_cpu)'
        /\ after[k'] = Cache!Serve("lru", NUM_FRAMES, after[k], virtual_address)
    BY <2>2, <2>3, AfterStep
  <2>5. PICK s : s = after[k]
    OBVIOUS
  <2>6. PICK t : t = after[k']
    OBVIOUS
  <2>7. /\ Follows(s, last_time_used) /\ last_time_used \in [Frames -> Int]
        /\ \A f \in Frames : last_time_used[f] < k
    BY <2>1, <2>2, <2>5 DEF LruInv
  <2>8. t = Cache!Serve("lru", NUM_FRAMES, s, virtual_address)
    BY <2>4, <2>5, <2>6
  <2>9. /\ Follows(t, last_time_used)' /\ last_time_used' \in [Frames -> Int]
        /\ \A f \in Frames : last_time_used'[f] < k'
    BY <2>1, <2>7, <2>8, LruStep
  <2>10. LruInv'
    BY <2>4, <2>6, <2>9 DEF LruInv
  <2> QED BY <2>1, <2>10 DEF PolicyInv, Runs
<1>4. CASE Reset
  <2>1. todo' = <<"lru">>
    BY <1>4, LruIsLeft
  <2>2. /\ requests_cpu' = requests_cpu /\ k' = 0 /\ last_time_used' = Unused
        /\ physical_frames' = EmptyMemory /\ pg_hits' = 0 /\ pg_faults' = 0
    BY <1>4 DEF Reset
  <2>3. PICK requests \in Seq(Nat) : requests = requests_cpu
    BY WorkloadAssumption DEF MemInv
  <2>4. Cache!After("lru", NUM_FRAMES, requests)[0] = Cache!Start
    BY AfterNothing
  <2>5. Cache!After("lru", NUM_FRAMES, requests_cpu')[k'] = Cache!Start
    BY <2>2, <2>3, <2>4
  <2>6. Follows(Cache!Start, Unused)'
    BY <2>2, FollowsRestart
  <2>7. LruInv'
    BY <2>2, <2>5, <2>6, UnusedFits DEF LruInv
  <2>8. ~Runs("fifo")'
    BY <2>1 DEF Runs
  <2> QED BY <2>1, <2>7, <2>8 DEF PolicyInv, Programs
<1>5. CASE Finish
  <2>1. todo' = <<>>
    BY <1>5, NothingLeft
  <2> QED BY <2>1 DEF PolicyInv, Runs
<1>6. CASE Done \/ UNCHANGED vars
  <2>1. UNCHANGED vars
    BY <1>6 DEF Done
  <2>2. /\ requests_cpu' = requests_cpu /\ k' = k /\ ptr_fifo' = ptr_fifo
        /\ last_time_used' = last_time_used /\ todo' = todo /\ UNCHANGED memory
        /\ physical_frames' = physical_frames
    BY <2>1 DEF vars, memory
  <2>3. Runs("fifo") => FifoInv'
    <3> SUFFICES ASSUME FifoInv PROVE FifoInv'
      BY DEF PolicyInv
    <3>1. PICK s : s = Cache!After("fifo", NUM_FRAMES, requests_cpu)[k]
      OBVIOUS
    <3>2. PICK turn : turn = Turn
      OBVIOUS
    <3>3. Follows(s, turn)'
      BY <2>2, <3>1, <3>2, FollowsSkip DEF FifoInv
    <3>4. turn = Turn' /\ (ptr_fifo = 0 \/ Full)'
      BY <2>2, <3>2 DEF Turn, FifoInv, Full
    <3> QED BY <2>2, <3>1, <3>3, <3>4 DEF FifoInv
  <2>4. Runs("lru") => LruInv'
    <3> SUFFICES ASSUME LruInv PROVE LruInv'
      BY DEF PolicyInv
    <3>1. PICK s : s = Cache!After("lru", NUM_FRAMES, requests_cpu)[k]
      OBVIOUS
    <3>2. PICK turn : turn = last_time_used
      OBVIOUS
    <3>3. Follows(s, turn)'
      BY <2>2, <3>1, <3>2, FollowsSkip DEF LruInv
    <3> QED BY <2>2, <3>1, <3>2, <3>3 DEF LruInv
  <2> QED BY <2>2, <2>3, <2>4 DEF PolicyInv, Runs
<1> QED BY <1>1, <1>2, <1>3, <1>4, <1>5, <1>6 DEF Next

\* Frames that follow a list show it.
LEMMA FollowsShows ==
  ASSUME MemInv, NEW s, NEW turn, Follows(s, turn)
  PROVE  Shows(s, turn)
<1>1. s \in CacheStates /\ pg_hits = s.hits /\ pg_faults = s.faults
  BY DEF Follows
<1>2. PICK place : Placed(place, s.list, Occupied, HeldItems, turn)
  BY DEF Follows
<1>3. PICK list \in Seq(Items) : list = s.list
  BY <1>1 DEF CacheStates
<1>4. DOMAIN list = 1..Len(list)
  BY LenProperties
<1>5. \A f \in Occupied : place[f] \in 1..Len(list) /\ list[place[f]] = Held(f)
  BY <1>2, <1>3 DEF Placed, HeldItems, Occupied
<1>6. ASSUME NEW f \in Occupied, NEW i \in 1..Len(list), Held(f) = list[i]
      PROVE  place[f] = i
  <2>1. PICK g \in Occupied : place[g] = i
    BY <1>2, <1>3 DEF Placed
  <2>2. Held(g) = Held(f)
    BY <1>5, <1>6, <2>1
  <2>3. Held(g).page = physical_frames[g] /\ Held(f).page = physical_frames[f]
    BY HeldIsItem
  <2>4. g = f
    BY <2>2, <2>3 DEF MemInv, NoCopies, Occupied
  <2> QED BY <2>1, <2>4
<1>7. \A f \in Occupied : \E i \in DOMAIN list : Held(f) = list[i]
  BY <1>4, <1>5
<1>8. \A i \in DOMAIN list : \E f \in Occupied : Held(f) = list[i]
  <2> SUFFICES ASSUME NEW i \in 1..Len(list) PROVE \E f \in Occupied : Held(f) = list[i]
    BY <1>4
  <2>1. PICK f \in Occupied : place[f] = i
    BY <1>2, <1>3 DEF Placed
  <2> QED BY <1>5, <2>1
<1>9. {Held(f) : f \in Occupied} = {list[i] : i \in DOMAIN list}
  BY <1>7, <1>8
<1>10. ASSUME NEW f \in Occupied, NEW g \in Occupied, NEW i \in DOMAIN list, NEW j \in DOMAIN list,
              Held(f) = list[i], Held(g) = list[j]
       PROVE  turn[f] < turn[g] <=> i < j
  <2>1. place[f] = i /\ place[g] = j
    BY <1>4, <1>6, <1>10
  <2> QED BY <1>2, <2>1 DEF Placed
<1> QED BY <1>1, <1>3, <1>9, <1>10 DEF Shows

\* No page is in a list twice.
Distinct(list) == \A i, j \in 1..Len(list) : list[i].page = list[j].page => i = j

LEMMA FollowsDistinct ==
  ASSUME MemInv, NEW s, NEW turn, Follows(s, turn)
  PROVE  Distinct(s.list)
<1>1. PICK place : Placed(place, s.list, Occupied, HeldItems, turn)
  BY DEF Follows
<1> SUFFICES ASSUME NEW i \in 1..Len(s.list), NEW j \in 1..Len(s.list), s.list[i].page = s.list[j].page
             PROVE  i = j
  BY DEF Distinct
<1>2. PICK f \in Occupied : place[f] = i
  BY <1>1 DEF Placed
<1>3. PICK g \in Occupied : place[g] = j
  BY <1>1 DEF Placed
<1>4. s.list[i] = Held(f) /\ s.list[j] = Held(g)
  BY <1>1, <1>2, <1>3 DEF Placed, HeldItems, Occupied
<1>5. physical_frames[f] = physical_frames[g]
  BY <1>4, HeldIsItem
<1> QED BY <1>2, <1>3, <1>5 DEF MemInv, NoCopies, Occupied

\* Where a page is in a list.
At(list, page) == {i \in DOMAIN list : list[i].page = page}

\* State t is s after a hit that puts item x at the end in the place of item i.
UsedAt(t, s, i, x) ==
  t = [list |-> Cache!ToEnd(s.list, i, x), hits |-> s.hits + 1, faults |-> s.faults]

\* What a request makes of a state when its page is at one place of the list.
LEMMA ServeHit ==
  ASSUME NEW s, s.list \in Seq(Items), NEW a \in Nat, a < PROCESS_SIZE,
         NEW i \in 1..Len(s.list), At(s.list, PageOf(a)) = {i}, NEW capacity,
         NEW t, t = Cache!Serve("lru", capacity, s, a)
  PROVE  \E x \in Items : x.page = PageOf(a) /\ UsedAt(t, s, i, x)
<1>1. (CHOOSE j \in At(s.list, PageOf(a)) : TRUE) = i
  OBVIOUS
<1>2. PICK offset \in Nat : offset = page_offset(a)
  <2>1. page_offset(a) \in Nat
    BY AddressParts, SizeAssumption
  <2> QED BY <2>1
<1>3. ~(a >= PROCESS_SIZE)
  BY SizeAssumption
<1>4. t = Cache!Hit("lru", s, i, offset)
  BY <1>1, <1>2, <1>3 DEF Cache!Serve, PageOf, page_offset, At
<1>5. PICK x : x = [page |-> s.list[i].page, offsets |-> Append(s.list[i].offsets, offset)]
  OBVIOUS
<1>6. Cache!Hit("lru", s, i, offset)
        = [list |-> Cache!ToEnd(s.list, i, x), hits |-> s.hits + 1, faults |-> s.faults]
  BY <1>5, LruHitState
<1>7. x \in Items /\ x.page = s.list[i].page
  <2>1. PICK list \in Seq(Items) : list = s.list
    OBVIOUS
  <2> QED BY <1>5, <2>1, HitItem
<1>8. s.list[i].page = PageOf(a)
  BY DEF At
<1> QED BY <1>4, <1>6, <1>7, <1>8 DEF UsedAt

\* And when it is at none.
LEMMA ServeMiss ==
  ASSUME NEW s, NEW a \in Nat, a < PROCESS_SIZE,
         At(s.list, PageOf(a)) = {}, NEW capacity,
         NEW t, t = Cache!Serve("lru", capacity, s, a)
  PROVE  \E x \in Items : x.page = PageOf(a) /\ t = Cache!Fault(capacity, s, x)
<1>1. PageOf(a) \in Nat /\ page_offset(a) \in Nat
  BY AddressParts, SizeAssumption
<1>2. PICK x : x = [page |-> PageOf(a), offsets |-> <<page_offset(a)>>]
  OBVIOUS
<1>3. x \in Items /\ x.page = PageOf(a)
  BY <1>1, <1>2 DEF Items
<1>4. ~(a >= PROCESS_SIZE)
  BY SizeAssumption
<1>5. t = Cache!Fault(capacity, s, x)
  BY <1>2, <1>4 DEF Cache!Serve, PageOf, page_offset, At
<1> QED BY <1>3, <1>5

-----------------------------------------------------------------------------
(* LRU in a smaller memory beside LRU: the smaller list is the end of the    *)
(* larger one at all times.                                                  *)
\* The pages of one list are the last of another.
LastOf(few, many) ==
  /\ few \in Seq(Items) /\ many \in Seq(Items)
  /\ \A i \in 1..Len(few) : few[i].page = many[Len(many) - Len(few) + i].page

LEMMA ToEndEmpty ==
  ASSUME NEW list \in Seq(Items), Len(list) = 0, NEW x, NEW end, end = Cache!ToEnd(list, 1, x)
  PROVE  end \in Seq(Items) /\ Len(end) = 0
<1>1. DOMAIN list = {}
  BY LenProperties
<1>2. end = [j \in {} |-> x]
  BY <1>1 DEF Cache!ToEnd
<1>3. end = <<>>
  BY <1>2
<1>4. <<>> \in Seq(Items) /\ Len(<<>>) = 0
  BY EmptySeq
<1> QED BY <1>3, <1>4

\* The same page goes to the end of both.
LEMMA LastOfUse ==
  ASSUME NEW few, NEW many, LastOf(few, many), Len(few) <= Len(many),
         NEW i \in 1..Len(few), NEW l \in 1..Len(many), l = Len(many) - Len(few) + i,
         NEW x \in Items, NEW y \in Items, x.page = y.page,
         NEW few2, MovedToEnd(few2, few, i, x), NEW many2, MovedToEnd(many2, many, l, y)
  PROVE  LastOf(few2, many2) /\ Len(few2) = Len(few) /\ Len(many2) = Len(many)
<1>1. few \in Seq(Items) /\ many \in Seq(Items) /\ Len(few) \in Nat /\ Len(many) \in Nat
  BY LenProperties DEF LastOf
<1>2. MovedToEnd(few2, few, i, x)
  OBVIOUS
<1>3. MovedToEnd(many2, many, l, y)
  OBVIOUS
<1>4. /\ few2 \in Seq(Items) /\ Len(few2) = Len(few)
      /\ many2 \in Seq(Items) /\ Len(many2) = Len(many)
  BY <1>2, <1>3 DEF MovedToEnd
<1>5. PICK d \in Nat : d = Len(many) - Len(few)
  <2>1. Len(many) - Len(few) \in Nat
    BY <1>1
  <2> QED BY <2>1
<1>6. ASSUME NEW j \in 1..Len(few) PROVE few2[j].page = many2[d + j].page
  <2>1. CASE j < i
    <3>1. few2[j] = few[j] /\ j \in 1..Len(few)
      BY <1>2, <2>1 DEF MovedToEnd
    <3>2. d + j \in 1..Len(many) /\ d + j < l
      BY <1>1, <1>5, <2>1
    <3>3. many2[d + j] = many[d + j]
      BY <1>3, <3>2 DEF MovedToEnd
    <3> QED BY <1>5, <3>1, <3>3 DEF LastOf
  <2>2. CASE ~(j < i) /\ j # Len(few)
    <3>1. j \in 1..(Len(few) - 1) /\ j + 1 \in 1..Len(few)
      BY <1>1, <2>2
    <3>2. few2[j] = few[j + 1]
      BY <1>2, <2>2, <3>1 DEF MovedToEnd
    <3>3. d + j \in 1..(Len(many) - 1) /\ ~(d + j < l) /\ (d + j) + 1 = d + (j + 1)
      BY <1>1, <1>5, <2>2, <3>1
    <3>4. many2[d + j] = many[(d + j) + 1]
      BY <1>3, <3>3 DEF MovedToEnd
    <3>5. few[j + 1].page = many[d + (j + 1)].page
      BY <1>5, <3>1 DEF LastOf
    <3> QED BY <3>2, <3>3, <3>4, <3>5
  <2>3. CASE j = Len(few)
    <3>1. few2[j] = x
      BY <1>2, <2>3 DEF MovedToEnd
    <3>2. d + j = Len(many)
      BY <1>1, <1>5, <2>3
    <3>3. many2[d + j] = y
      BY <1>3, <3>2 DEF MovedToEnd
    <3> QED BY <3>1, <3>3
  <2> QED BY <2>1, <2>2, <2>3
<1>7. Len(many2) - Len(few2) = d
  BY <1>4, <1>5
<1>8. LastOf(few2, many2)
  BY <1>4, <1>6, <1>7 DEF LastOf
<1> QED BY <1>4, <1>8

\* The first of the shorter list leaves, and of the longer one a page from before it.
LEMMA LastOfMove ==
  ASSUME NEW few, NEW many, LastOf(few, many),
         NEW l \in 1..Len(many), l <= Len(many) - Len(few),
         NEW x \in Items, NEW y \in Items, x.page = y.page,
         NEW few2, few2 = Cache!ToEnd(few, 1, x), NEW many2, many2 = Cache!ToEnd(many, l, y)
  PROVE  LastOf(few2, many2) /\ Len(few2) = Len(few) /\ Len(many2) = Len(many)
<1>1. few \in Seq(Items) /\ many \in Seq(Items) /\ Len(few) \in Nat /\ Len(many) \in Nat
  BY LenProperties DEF LastOf
<1>2. PICK d \in Nat : d = Len(many) - Len(few) /\ l <= d
  <2>1. Len(many) - Len(few) \in Nat
    BY <1>1
  <2> QED BY <2>1
<1>3. MovedToEnd(many2, many, l, y)
  BY <1>1, ToEndFacts
<1>4. many2 \in Seq(Items) /\ Len(many2) = Len(many)
  BY <1>3 DEF MovedToEnd
<1>5. CASE Len(few) = 0
  <2>1. few2 \in Seq(Items) /\ Len(few2) = 0
    BY <1>1, <1>5, ToEndEmpty
  <2> QED BY <1>4, <1>5, <2>1 DEF LastOf
<1>6. CASE Len(few) # 0
  <2>1. PICK first \in 1..Len(few) : first = 1
    BY <1>1, <1>6
  <2>2. MovedToEnd(few2, few, first, x)
    BY <1>1, <2>1, ToEndFacts
  <2>3. few2 \in Seq(Items) /\ Len(few2) = Len(few)
    BY <2>2 DEF MovedToEnd
  <2>4. ASSUME NEW j \in 1..Len(few) PROVE few2[j].page = many2[d + j].page
    <3>1. CASE j = Len(few)
      <4>1. few2[j] = x
        BY <2>2, <3>1 DEF MovedToEnd
      <4>2. d + j = Len(many)
        BY <1>1, <1>2, <3>1
      <4>3. many2[d + j] = y
        BY <1>3, <4>2 DEF MovedToEnd
      <4> QED BY <4>1, <4>3
    <3>2. CASE j # Len(few)
      <4>1. j \in 1..(Len(few) - 1) /\ j + 1 \in 1..Len(few) /\ ~(j < first)
        BY <1>1, <2>1, <3>2
      <4>2. few2[j] = few[j + 1]
        BY <2>2, <4>1 DEF MovedToEnd
      <4>3. d + j \in 1..(Len(many) - 1) /\ ~(d + j < l) /\ (d + j) + 1 = d + (j + 1)
        BY <1>1, <1>2, <4>1
      <4>4. many2[d + j] = many[(d + j) + 1]
        BY <1>3, <4>3 DEF MovedToEnd
      <4>5. few[j + 1].page = many[d + (j + 1)].page
        BY <1>2, <4>1 DEF LastOf
      <4> QED BY <4>2, <4>3, <4>4, <4>5
    <3> QED BY <3>1, <3>2
  <2>5. Len(many2) - Len(few2) = d
    BY <1>2, <1>4, <2>3
  <2> QED BY <1>4, <2>3, <2>4, <2>5 DEF LastOf
<1> QED BY <1>5, <1>6

\* A list with one more item.
Joins(end, list, x) == end = Append(list, x)

\* A page joins both.
LEMMA LastOfAppend ==
  ASSUME NEW few, NEW many, LastOf(few, many), Len(many) = Len(few),
         NEW x \in Items, NEW y \in Items, x.page = y.page,
         NEW few2, Joins(few2, few, x), NEW many2, Joins(many2, many, y)
  PROVE  LastOf(few2, many2) /\ Len(few2) = Len(few) + 1 /\ Len(many2) = Len(many) + 1
<1>1. few \in Seq(Items) /\ many \in Seq(Items) /\ Len(few) \in Nat
  BY LenProperties DEF LastOf
<1>2. /\ few2 \in Seq(Items) /\ Len(few2) = Len(few) + 1 /\ few2[Len(few) + 1] = x
      /\ \A j \in 1..Len(few) : few2[j] = few[j]
  BY <1>1, AppendProperties DEF Joins
<1>3. /\ many2 \in Seq(Items) /\ Len(many2) = Len(many) + 1 /\ many2[Len(many) + 1] = y
      /\ \A j \in 1..Len(many) : many2[j] = many[j]
  BY <1>1, AppendProperties DEF Joins
<1>4. ASSUME NEW j \in 1..(Len(few) + 1) PROVE few2[j].page = many2[j].page
  <2>1. CASE j = Len(few) + 1
    BY <1>2, <1>3, <2>1
  <2>2. CASE j # Len(few) + 1
    <3>1. j \in 1..Len(few)
      BY <1>1, <2>2
    <3>2. Len(many) - Len(few) + j = j
      BY <1>1, <3>1
    <3>3. few[j].page = many[j].page
      BY <3>1, <3>2 DEF LastOf
    <3> QED BY <1>2, <1>3, <3>1, <3>3
  <2> QED BY <2>1, <2>2
<1>5. \A j \in 1..(Len(few) + 1) : Len(many2) - Len(few2) + j = j
  BY <1>1, <1>2, <1>3
<1> QED BY <1>2, <1>3, <1>4, <1>5 DEF LastOf

\* A page joins one list and takes the place of the first in the other.
LEMMA LastOfDrop ==
  ASSUME NEW few, NEW many, LastOf(few, many), Len(few) <= Len(many),
         NEW x \in Items, NEW y \in Items, x.page = y.page,
         NEW few2, few2 = Cache!ToEnd(few, 1, x), NEW many2, Joins(many2, many, y)
  PROVE  LastOf(few2, many2) /\ Len(few2) = Len(few) /\ Len(many2) = Len(many) + 1
<1>1. few \in Seq(Items) /\ many \in Seq(Items) /\ Len(few) \in Nat /\ Len(many) \in Nat
  BY LenProperties DEF LastOf
<1>2. /\ many2 \in Seq(Items) /\ Len(many2) = Len(many) + 1 /\ many2[Len(many) + 1] = y
      /\ \A j \in 1..Len(many) : many2[j] = many[j]
  BY <1>1, AppendProperties DEF Joins
<1>3. CASE Len(few) = 0
  <2>1. few2 \in Seq(Items) /\ Len(few2) = 0
    BY <1>1, <1>3, ToEndEmpty
  <2> QED BY <1>2, <1>3, <2>1 DEF LastOf
<1>4. PICK d \in Nat : d = Len(many) - Len(few)
  <2>1. Len(many) - Len(few) \in Nat
    BY <1>1
  <2> QED BY <2>1
<1>5. CASE Len(few) # 0
  <2>1. PICK first \in 1..Len(few) : first = 1
    BY <1>1, <1>5
  <2>2. MovedToEnd(few2, few, first, x)
    BY <1>1, <2>1, ToEndFacts
  <2>3. few2 \in Seq(Items) /\ Len(few2) = Len(few)
    BY <2>2 DEF MovedToEnd
  <2>4. ASSUME NEW j \in 1..Len(few) PROVE few2[j].page = many2[(d + 1) + j].page
    <3>1. CASE j = Len(few)
      <4>1. few2[j] = x
        BY <2>2, <3>1 DEF MovedToEnd
      <4>2. (d + 1) + j = Len(many) + 1
        BY <1>1, <1>4, <3>1
      <4> QED BY <1>2, <4>1, <4>2
    <3>2. CASE j # Len(few)
      <4>1. j \in 1..(Len(few) - 1) /\ j + 1 \in 1..Len(few) /\ ~(j < first)
        BY <1>1, <2>1, <3>2
      <4>2. few2[j] = few[j + 1]
        BY <2>2, <4>1 DEF MovedToEnd
      <4>3. (d + 1) + j = d + (j + 1) /\ d + (j + 1) \in 1..Len(many)
        BY <1>1, <1>4, <4>1
      <4>4. few[j + 1].page = many[d + (j + 1)].page
        BY <1>4, <4>1 DEF LastOf
      <4> QED BY <1>2, <4>2, <4>3, <4>4
    <3> QED BY <3>1, <3>2
  <2>5. Len(many2) - Len(few2) = d + 1
    <3>1. PICK m \in Nat, n \in Nat : m = Len(few) /\ n = Len(many)
      BY <1>1
    <3>2. d = n - m /\ Len(many2) = n + 1 /\ Len(few2) = m
      BY <1>2, <1>4, <2>3, <3>1
    <3>3. (n + 1) - m = (n - m) + 1
      OBVIOUS
    <3> QED BY <3>2, <3>3
  <2> QED BY <1>2, <2>3, <2>4, <2>5 DEF LastOf
<1> QED BY <1>3, <1>5

\* A state of a cache of this capacity beside one of the full size.
Keeps(less, more, capacity) ==
  /\ LastOf(less.list, more.list) /\ less.hits \in Nat /\ less.faults \in Nat
  /\ Len(more.list) <= capacity => Len(less.list) = Len(more.list)
  /\ Len(more.list) > capacity => Len(less.list) = capacity
  /\ more.faults <= less.faults

\* One request, to both.
LEMMA KeepsStep ==
  ASSUME NEW s \in CacheStates, Distinct(s.list), Len(s.list) <= NUM_FRAMES,
         NEW c \in Smaller, NEW u, Keeps(u, s, c), NEW a \in Nat,
         NEW t, t = Cache!Serve("lru", NUM_FRAMES, s, a),
         NEW v, v = Cache!Serve("lru", c, u, a)
  PROVE  Keeps(v, t, c)
<1>1. PICK many \in Seq(Items) : many = s.list
  BY DEF CacheStates
<1>2. PICK few \in Seq(Items) : few = u.list
  BY DEF Keeps, LastOf
<1>3. PICK n \in Nat : n = Len(many)
  BY LenProperties
<1>4. PICK m \in Nat : m = Len(few)
  BY LenProperties
<1>5. PICK N \in Nat \ {0} : N = NUM_FRAMES /\ c \in 0..(N - 1)
  BY SomeFrame DEF Smaller
<1>6. s.hits \in Nat /\ s.faults \in Nat /\ u.hits \in Nat /\ u.faults \in Nat /\ s.faults <= u.faults
  BY DEF CacheStates, Keeps
<1>7. LastOf(few, many) /\ n <= N /\ (n <= c => m = n) /\ (n > c => m = c)
  BY <1>1, <1>2, <1>3, <1>4, <1>5 DEF Keeps
<1>8. PICK d \in Nat : n = d + m
  <2>1. n - m \in Nat /\ n = (n - m) + m
    BY <1>5, <1>7
  <2> QED BY <2>1
<1>9. \A i \in 1..m : d + i \in 1..n /\ few[i].page = many[d + i].page
  <2> SUFFICES ASSUME NEW i \in 1..m PROVE d + i \in 1..n /\ few[i].page = many[d + i].page
    OBVIOUS
  <2>1. Len(many) - Len(few) + i = d + i
    BY <1>3, <1>4, <1>8
  <2> QED BY <1>4, <1>7, <1>8, <2>1 DEF LastOf
<1>10. DOMAIN few = 1..m /\ DOMAIN many = 1..n
  BY <1>3, <1>4, LenProperties
<1>11. \A i, j \in 1..n : many[i].page = many[j].page => i = j
  BY <1>1, <1>3 DEF Distinct
<1>12. ASSUME LastOf(v.list, t.list), v.hits \in Nat, v.faults \in Nat, t.faults <= v.faults,
              Len(t.list) <= c => Len(v.list) = Len(t.list),
              Len(t.list) > c => Len(v.list) = c
       PROVE  Keeps(v, t, c)
  BY <1>12 DEF Keeps
<1>13. CASE a >= PROCESS_SIZE
  <2>1. t = s /\ v = u
    BY <1>13 DEF Cache!Serve
  <2> QED BY <2>1
<1>14. a < PROCESS_SIZE \/ a >= PROCESS_SIZE
  BY SizeAssumption
<1>15. PICK p : p = PageOf(a)
  OBVIOUS
<1>16. ASSUME a < PROCESS_SIZE, NEW i \in 1..m, few[i].page = p
       PROVE  Keeps(v, t, c)
  <2>1. PICK l \in 1..n : l = d + i /\ many[l].page = p
    BY <1>9, <1>16
  <2>2. At(many, p) = {l}
    BY <1>10, <1>11, <2>1 DEF At
  <2>3. At(few, p) = {i}
    <3>1. ASSUME NEW j \in 1..m, few[j].page = p PROVE j = i
      <4>1. d + j = d + i
        BY <1>9, <1>11, <1>16, <3>1
      <4> QED BY <4>1
    <3> QED BY <1>10, <1>16, <3>1 DEF At
  <2>4. PICK y \in Items : y.page = p /\ UsedAt(t, s, l, y)
    BY <1>1, <1>3, <1>15, <1>16, <2>2, ServeHit
  <2>5. PICK x \in Items : x.page = p /\ UsedAt(v, u, i, x)
    BY <1>2, <1>4, <1>15, <1>16, <2>3, ServeHit
  <2>6. PICK many2 : many2 = Cache!ToEnd(many, l, y)
    OBVIOUS
  <2>7. PICK few2 : few2 = Cache!ToEnd(few, i, x)
    OBVIOUS
  <2>8. t.list = many2 /\ t.faults = s.faults
    BY <1>1, <2>4, <2>6 DEF UsedAt
  <2>9. v.list = few2 /\ v.faults = u.faults /\ v.hits = u.hits + 1
    <3>1. PICK hits \in Nat : hits = u.hits + 1
      BY <1>6
    <3>2. v = [list |-> few2, hits |-> hits, faults |-> u.faults]
      BY <1>2, <2>5, <2>7, <3>1 DEF UsedAt
    <3> QED BY <3>1, <3>2
  <2>10. Len(few) <= Len(many) /\ l = Len(many) - Len(few) + i
    BY <1>3, <1>4, <1>8, <2>1
  <2>11. i \in 1..Len(few) /\ l \in 1..Len(many) /\ x \in Items /\ y \in Items /\ x.page = y.page
    BY <1>3, <1>4, <2>4, <2>5
  <2>12. LastOf(few2, many2) /\ Len(few2) = Len(few) /\ Len(many2) = Len(many)
    <3>1. LastOf(few, many)
      BY <1>7
    <3>2. MovedToEnd(few2, few, i, x)
      BY <2>7, <2>11, ToEndFacts
    <3>3. MovedToEnd(many2, many, l, y)
      BY <2>6, <2>11, ToEndFacts
    <3> QED BY ONLY <2>10, <2>11, <3>1, <3>2, <3>3, LastOfUse
  <2>13. Len(v.list) = m /\ Len(t.list) = n
    BY <1>3, <1>4, <2>8, <2>9, <2>12
  <2>14. v.hits \in Nat /\ v.faults \in Nat /\ t.faults <= v.faults
    BY <1>6, <2>8, <2>9
  <2>15. LastOf(v.list, t.list)
    BY <2>8, <2>9, <2>12
  <2> QED BY <1>7, <1>12, <2>13, <2>14, <2>15
<1>17. ASSUME a < PROCESS_SIZE, \A i \in 1..m : few[i].page # p, NEW l \in 1..n, many[l].page = p
       PROVE  Keeps(v, t, c)
  <2>1. l <= d /\ n > c /\ m = c
    <3>1. ~(l - d \in 1..m)
      <4> SUFFICES ASSUME l - d \in 1..m PROVE FALSE
        OBVIOUS
      <4>1. PICK i \in 1..m : i = l - d
        OBVIOUS
      <4>2. d + i = l
        BY <4>1
      <4> QED BY <1>9, <1>17, <4>2
    <3>2. l <= d
      BY <1>8, <3>1
    <3>3. ~(n <= c)
      BY <1>7, <1>8, <3>2
    <3> QED BY <1>5, <1>7, <3>2, <3>3
  <2>2. At(many, p) = {l}
    BY <1>10, <1>11, <1>17 DEF At
  <2>3. At(few, p) = {}
    BY <1>10, <1>17 DEF At
  <2>4. PICK y \in Items : y.page = p /\ UsedAt(t, s, l, y)
    BY <1>1, <1>3, <1>15, <1>17, <2>2, ServeHit
  <2>5. PICK x \in Items : x.page = p /\ v = Cache!Fault(c, u, x)
    BY <1>2, <1>15, <1>17, <2>3, ServeMiss
  <2>6. PICK many2 : many2 = Cache!ToEnd(many, l, y)
    OBVIOUS
  <2>7. PICK few2 : few2 = Cache!ToEnd(few, 1, x)
    OBVIOUS
  <2>8. t.list = many2 /\ t.faults = s.faults
    BY <1>1, <2>4, <2>6 DEF UsedAt
  <2>9. v.list = few2 /\ v.faults = u.faults + 1 /\ v.hits = u.hits
    <3>1. PICK faults \in Nat : faults = u.faults + 1
      BY <1>6
    <3>2. ~(Len(u.list) < c)
      BY <1>2, <1>4, <1>5, <2>1
    <3>3. Cache!Fault(c, u, x)
            = [list |-> Cache!ToEnd(u.list, 1, x), hits |-> u.hits, faults |-> u.faults + 1]
      BY <3>2, FaultStates
    <3>4. v = [list |-> few2, hits |-> u.hits, faults |-> faults]
      BY <1>2, <2>5, <2>7, <3>1, <3>3
    <3> QED BY <3>1, <3>4
  <2>10. l \in 1..Len(many) /\ l <= Len(many) - Len(few)
    BY <1>3, <1>4, <1>8, <2>1
  <2>11. LastOf(few2, many2) /\ Len(few2) = Len(few) /\ Len(many2) = Len(many)
    BY <1>7, <2>4, <2>5, <2>6, <2>7, <2>10, LastOfMove
  <2>12. v.hits \in Nat /\ v.faults \in Nat /\ t.faults <= v.faults
    BY <1>6, <2>8, <2>9
  <2>13. LastOf(v.list, t.list) /\ Len(v.list) = c /\ Len(t.list) = n
    BY <1>3, <1>4, <2>1, <2>8, <2>9, <2>11
  <2>14. ~(n <= c)
    BY <1>5, <2>1
  <2> QED BY <1>12, <2>12, <2>13, <2>14
<1>18. ASSUME a < PROCESS_SIZE, \A l \in 1..n : many[l].page # p
       PROVE  Keeps(v, t, c)
  <2>1. At(many, p) = {}
    BY <1>10, <1>18 DEF At
  <2>2. At(few, p) = {}
    BY <1>9, <1>10, <1>18 DEF At
  <2>3. PICK y \in Items : y.page = p /\ t = Cache!Fault(NUM_FRAMES, s, y)
    BY <1>1, <1>15, <1>18, <2>1, ServeMiss
  <2>4. PICK x \in Items : x.page = p /\ v = Cache!Fault(c, u, x)
    BY <1>2, <1>15, <1>18, <2>2, ServeMiss
  <2>5. PICK many2 : many2 = IF n < N THEN Append(many, y) ELSE Cache!ToEnd(many, 1, y)
    OBVIOUS
  <2>6. PICK few2 : few2 = IF m < c THEN Append(few, x) ELSE Cache!ToEnd(few, 1, x)
    OBVIOUS
  <2>7. t.list = many2 /\ t.faults = s.faults + 1
    <3>1. PICK faults \in Nat : faults = s.faults + 1
      BY <1>6
    <3>2. t = [list |-> many2, hits |-> s.hits, faults |-> faults]
      BY <1>1, <1>3, <1>5, <2>3, <2>5, <3>1 DEF Cache!Fault
    <3> QED BY <3>1, <3>2
  <2>8. v.list = few2 /\ v.faults = u.faults + 1 /\ v.hits = u.hits
    <3>1. PICK faults \in Nat : faults = u.faults + 1
      BY <1>6
    <3>2. v = [list |-> few2, hits |-> u.hits, faults |-> faults]
      BY <1>2, <1>4, <1>5, <2>4, <2>6, <3>1 DEF Cache!Fault
    <3> QED BY <3>1, <3>2
  <2>9. v.hits \in Nat /\ v.faults \in Nat /\ t.faults <= v.faults
    BY <1>6, <2>7, <2>8
  <2>10. x.page = y.page
    BY <2>3, <2>4
  <2>11. t.list = many2 /\ v.list = few2
    BY <2>7, <2>8
  <2>12. x \in Items /\ y \in Items
    OBVIOUS
  <2>13. CASE n < c
    <3>1. Len(many) = Len(few) /\ many2 = Append(many, y) /\ few2 = Append(few, x)
      BY <1>3, <1>4, <1>5, <1>7, <2>5, <2>6, <2>13
    <3>2. Joins(many2, many, y) /\ Joins(few2, few, x)
      BY <3>1 DEF Joins
    <3>3. LastOf(few2, many2) /\ Len(few2) = Len(few) + 1 /\ Len(many2) = Len(many) + 1
      BY <1>7, <2>10, <3>1, <3>2, LastOfAppend
    <3>4. Len(v.list) = Len(t.list) /\ Len(t.list) = n + 1 /\ ~(n + 1 > c)
      BY <1>3, <1>4, <1>5, <2>13, <2>11, <3>1, <3>3
    <3> QED BY <1>12, <2>9, <2>11, <3>3, <3>4
  <2>14. CASE ~(n < c) /\ n < N
    <3>1. Len(few) <= Len(many) /\ many2 = Append(many, y) /\ few2 = Cache!ToEnd(few, 1, x) /\ m = c
      BY <1>3, <1>4, <1>5, <1>7, <2>5, <2>6, <2>14
    <3>2. Joins(many2, many, y)
      BY <3>1 DEF Joins
    <3>3. LastOf(few2, many2) /\ Len(few2) = Len(few) /\ Len(many2) = Len(many) + 1
      BY <1>7, <2>10, <3>1, <3>2, LastOfDrop
    <3>4. Len(v.list) = c /\ Len(t.list) = n + 1 /\ ~(n + 1 <= c)
      BY <1>3, <1>4, <1>5, <2>14, <2>11, <3>1, <3>3
    <3> QED BY <1>12, <2>9, <2>11, <3>3, <3>4
  <2>15. CASE n = N
    <3>1. m = c /\ n > c /\ many2 = Cache!ToEnd(many, 1, y) /\ few2 = Cache!ToEnd(few, 1, x)
      BY <1>3, <1>4, <1>5, <1>7, <2>5, <2>6, <2>15
    <3>2. PICK one \in 1..Len(many) : one = 1 /\ one <= Len(many) - Len(few)
      BY <1>3, <1>4, <1>5, <3>1
    <3>3. LastOf(few2, many2) /\ Len(few2) = Len(few) /\ Len(many2) = Len(many)
      BY <1>7, <2>10, <3>1, <3>2, LastOfMove
    <3>4. Len(v.list) = c /\ Len(t.list) = n /\ ~(n <= c)
      BY <1>3, <1>4, <1>5, <2>11, <3>1, <3>3
    <3> QED BY <1>12, <2>9, <2>11, <3>3, <3>4
  <2> QED BY <1>5, <1>7, <2>13, <2>14, <2>15
<1> QED BY <1>13, <1>14, <1>16, <1>17, <1>18

LEMMA PolicyInvariance == Spec => [](IInv /\ PolicyInv)
<1>1. PolicyInv /\ IInv /\ [Next]_vars => PolicyInv'
  BY NextPolicy
<1> QED BY <1>1, InitPolicy, Invariance, PTL DEF Spec

-----------------------------------------------------------------------------
(* The results that are printed.                                             *)
\* A comparison program prints those of the policies as their turns end.
PrintInv ==
  \/ printed = <<>> /\ todo \in Programs
  \/ todo = <<>> /\ Len(printed) = 1
  \/ todo = <<"lru">> /\ printed = <<Result("fifo")>>
  \/ todo = <<>> /\ printed = <<Result("fifo"), Result("lru")>>

\* When the requests are over, the counters are what the policy comes to.
LEMMA ResultOf ==
  ASSUME Over, NEW policy, NEW turn,
         Follows(Cache!After(policy, NUM_FRAMES, requests_cpu)[k], turn)
  PROVE  [hits |-> pg_hits, faults |-> pg_faults] = Result(policy)
<1>1. PICK last : last = Cache!After(policy, NUM_FRAMES, requests_cpu)[k]
  OBVIOUS
<1>2. last = Cache!After(policy, NUM_FRAMES, requests_cpu)[Len(requests_cpu)]
  BY <1>1 DEF Over
<1>3. pg_hits = last.hits /\ pg_faults = last.faults
  BY <1>1 DEF Follows
<1>4. Result(policy) = [hits |-> last.hits, faults |-> last.faults]
  BY <1>2 DEF Result
<1> QED BY <1>3, <1>4

\* Nobody writes the requests.
LEMMA ResultStays == ASSUME requests_cpu' = requests_cpu, NEW policy PROVE Result(policy)' = Result(policy)
BY DEF Result

\* A second result after the first.
LEMMA AppendToOne == ASSUME NEW x, NEW y PROVE Append(<<x>>, y) = <<x, y>>
<1>1. <<x>> \in Seq({x, y}) /\ Len(<<x>>) = 1 /\ <<x>>[1] = x
  OBVIOUS
<1>2. PICK one \in Seq({x, y}) : one = <<x>>
  BY <1>1
<1>3. Len(one) = 1 /\ one[1] = x
  BY <1>1, <1>2
<1>4. y \in {x, y}
  OBVIOUS
<1>5. PICK both : both = Append(one, y)
  OBVIOUS
<1>6. both \in Seq({x, y}) /\ Len(both) = Len(one) + 1 /\ both[Len(one) + 1] = y
      /\ \A i \in 1..Len(one) : both[i] = one[i]
  BY ONLY <1>4, <1>5, AppendProperties
<1>7. Len(both) = 2 /\ both[1] = x /\ both[2] = y
  BY <1>3, <1>6
<1>8. PICK two \in Seq({x, y}) : two = both
  BY <1>6
<1>9. Len(two) = 2 /\ two[1] = x /\ two[2] = y
  BY <1>7, <1>8
<1>10. two = <<x, y>>
  BY <1>9
<1> QED BY <1>2, <1>5, <1>8, <1>10

LEMMA NextPrint == PolicyInv /\ PrintInv /\ [Next]_vars => PrintInv'
<1> SUFFICES ASSUME PolicyInv, PrintInv, [Next]_vars PROVE PrintInv'
  OBVIOUS
<1>1. requests_cpu' = requests_cpu
  BY DEF Next, PlainTurn, PlainRequest, FifoTurn, FifoRequest, LruTurn, LruRequest, FifoHitOrLoad,
         EvictOldest, LruHit, LruLoad, EvictLeastRecent, OutOfBounds, Hit, Load, Replace, NoRoom,
         Fault, Request, Reset, Finish, Done, vars
<1>2. Result("fifo")' = Result("fifo") /\ Result("lru")' = Result("lru")
  BY <1>1, ResultStays
<1>3. CASE PlainTurn \/ FifoTurn \/ LruTurn \/ Done \/ UNCHANGED vars
  <2>1. todo' = todo /\ printed' = printed
    BY <1>3 DEF PlainTurn, FifoTurn, LruTurn, Done, vars
  <2> QED BY <1>2, <2>1 DEF PrintInv
<1>4. CASE Reset
  <2>1. todo = <<"fifo", "lru">> /\ todo' = <<"lru">>
    BY <1>4, LruIsLeft, MoreThanOne
  <2>2. printed = <<>>
    BY <2>1 DEF PrintInv
  <2>3. Over /\ printed' = Append(printed, [hits |-> pg_hits, faults |-> pg_faults])
    BY <1>4 DEF Reset, Conclude
  <2>4. FifoInv
    BY <2>1 DEF PolicyInv, Runs
  <2>5. [hits |-> pg_hits, faults |-> pg_faults] = Result("fifo")
    BY <2>3, <2>4, ResultOf DEF FifoInv
  <2>6. printed' = <<Result("fifo")>>
    BY <2>2, <2>3, <2>5
  <2> QED BY <1>2, <2>1, <2>6 DEF PrintInv
<1>5. CASE Finish
  <2>1. todo' = <<>> /\ todo # <<>>
    BY <1>5, NothingLeft DEF Finish
  <2>2. Over /\ printed' = Append(printed, [hits |-> pg_hits, faults |-> pg_faults])
    BY <1>5 DEF Finish, Conclude
  <2>3. CASE printed = <<>>
    <3>1. Len(printed') = 1
      BY <2>2, <2>3
    <3> QED BY <2>1, <3>1 DEF PrintInv
  <2>4. CASE todo = <<"lru">> /\ printed = <<Result("fifo")>>
    <3>1. LruInv
      BY <2>4 DEF PolicyInv, Runs
    <3>2. [hits |-> pg_hits, faults |-> pg_faults] = Result("lru")
      BY <2>2, <3>1, ResultOf DEF LruInv
    <3>3. PICK first, second : first = Result("fifo") /\ second = Result("lru")
      OBVIOUS
    <3>4. printed' = Append(<<first>>, second)
      BY <2>2, <2>4, <3>2, <3>3
    <3>5. Append(<<first>>, second) = <<first, second>>
      BY AppendToOne
    <3>6. printed' = <<Result("fifo"), Result("lru")>>
      BY <3>3, <3>4, <3>5
    <3> QED BY <1>2, <2>1, <3>6 DEF PrintInv
  <2> QED BY <2>1, <2>3, <2>4 DEF PrintInv
<1> QED BY <1>3, <1>4, <1>5 DEF Next

LEMMA PrintInvariance == Spec => []PrintInv
<1>1. Init => PrintInv
  BY DEF Init, PrintInv
<1>2. PolicyInv /\ PrintInv /\ [Next]_vars => PrintInv'
  BY NextPrint
<1> QED BY <1>1, <1>2, PolicyInvariance, PTL DEF Spec

\* The two results are in their places.
LEMMA PrintsPolicies == PrintInv => PrintsResults
<1> SUFFICES ASSUME PrintInv, Len(printed) + Len(todo) = 2, NEW i \in DOMAIN printed
             PROVE  printed[i] = Result(<<"fifo", "lru">>[i])
  BY DEF PrintsResults
<1>1. CASE printed = <<>> /\ todo \in Programs
  BY <1>1
<1>2. CASE todo = <<>> /\ Len(printed) = 1
  <2>1. Len(todo) = 0
    BY <1>2
  <2> QED BY <1>2, <2>1
<1>3. CASE todo = <<"lru">> /\ printed = <<Result("fifo")>>
  <2>1. i = 1
    BY <1>3
  <2> QED BY <1>3, <2>1
<1>4. CASE todo = <<>> /\ printed = <<Result("fifo"), Result("lru")>>
  <2>1. i = 1 \/ i = 2
    BY <1>4
  <2> QED BY <1>4, <2>1
<1> QED BY <1>1, <1>2, <1>3, <1>4 DEF PrintInv

(* FIFO evicts the page resident the longest and LRU the one not used the    *)
(* longest, for every workload and every size: after each request the frames *)
(* show the list of the policy (pagingsyswithfifo.c:119-160,                 *)
(* pagingsyswithlru.c:121-186, and again after the reset of the comparison   *)
(* programs, final1.c:206-236).  The ring pointer and the time stamps are    *)
(* two ways to keep the order of that list.  When a simulation ends, its     *)
(* counters are those of the list after all requests, so that a comparison   *)
(* program prints the results of FIFO and of LRU (final1.c:198-199, 364-365).*)
THEOREM Policies == Spec => []FollowsPolicy
<1>1. IInv /\ PolicyInv /\ PrintInv => FollowsPolicy
  <2> SUFFICES ASSUME MemInv, PolicyInv, PrintInv PROVE FollowsPolicy
    BY DEF IInv
  <2>1. ASSUME Runs("fifo") PROVE IsQueue
    <3>1. PICK s : s = Cache!After("fifo", NUM_FRAMES, requests_cpu)[k]
      OBVIOUS
    <3>2. PICK turn : turn = Turn
      OBVIOUS
    <3>3. Follows(s, turn)
      BY <2>1, <3>1, <3>2 DEF PolicyInv, FifoInv
    <3>4. Shows(s, turn)
      BY <3>3, FollowsShows
    <3> QED BY <3>1, <3>2, <3>4 DEF IsQueue
  <2>2. ASSUME Runs("lru") PROVE IsRecencyList
    <3>1. PICK s : s = Cache!After("lru", NUM_FRAMES, requests_cpu)[k]
      OBVIOUS
    <3>2. PICK turn : turn = last_time_used
      OBVIOUS
    <3>3. Follows(s, turn)
      BY <2>2, <3>1, <3>2 DEF PolicyInv, LruInv
    <3>4. Shows(s, turn)
      BY <3>3, FollowsShows
    <3> QED BY <3>1, <3>2, <3>4 DEF IsRecencyList
  <2> QED BY <2>1, <2>2, PrintsPolicies DEF FollowsPolicy
<1> QED BY <1>1, PolicyInvariance, PrintInvariance, PTL

-----------------------------------------------------------------------------
\* The smaller caches, beside the one that the frames follow.
KeepInv ==
  Runs("lru") => \A c \in Smaller : Keeps(LruWith(c)[k], LruWith(NUM_FRAMES)[k], c)

LEMMA KeepsStart ==
  ASSUME NEW c \in Smaller
  PROVE  Keeps(Cache!Start, Cache!Start, c)
<1>1. PICK none : none = Cache!Start.list
  OBVIOUS
<1>2. none \in Seq(Items) /\ Len(none) = 0
  BY <1>1, StartStates, EmptySeq
<1>3. LastOf(none, none)
  BY <1>2 DEF LastOf
<1>4. Cache!Start.hits \in Nat /\ Cache!Start.faults \in Nat
      /\ Cache!Start.faults <= Cache!Start.faults
  BY StartStates
<1>5. ~(0 > c)
  BY SomeFrame DEF Smaller
<1> QED BY <1>1, <1>2, <1>3, <1>4, <1>5 DEF Keeps

LEMMA NextKeep == IInv /\ PolicyInv /\ KeepInv /\ [Next]_vars => KeepInv'
<1> SUFFICES ASSUME MemInv, PolicyInv, KeepInv, [Next]_vars, Runs("lru")',
                    NEW c \in Smaller
             PROVE  Keeps(LruWith(c)[k], LruWith(NUM_FRAMES)[k], c)'
  BY DEF IInv, KeepInv, Smaller, NUM_FRAMES
<1>1. CASE PlainTurn
  BY <1>1 DEF PlainTurn, Runs
<1>2. CASE FifoTurn
  BY <1>2 DEF FifoTurn, Runs
<1>3. CASE LruTurn
  <2>1. Runs("lru") /\ LruInv /\ LruRequest
    BY <1>3 DEF LruTurn, PolicyInv
  <2>2. PICK less : less = LruWith(c)
    OBVIOUS
  <2>3. PICK more : more = LruWith(NUM_FRAMES)
    OBVIOUS
  <2>4. Request
    BY <2>1 DEF LruRequest, LruHit, LruLoad, EvictLeastRecent, OutOfBounds, Hit, Load, Replace, Fault
  <2>5. less = LruWith(c)' /\ less[k'] = Cache!Serve("lru", c, less[k], virtual_address)
    BY <2>2, <2>4, AfterStep DEF LruWith
  <2>6. more = LruWith(NUM_FRAMES)' /\ more[k'] = Cache!Serve("lru", NUM_FRAMES, more[k], virtual_address)
    BY <2>3, <2>4, AfterStep DEF LruWith
  <2>7. PICK u : u = less[k]
    OBVIOUS
  <2>8. PICK s : s = more[k]
    OBVIOUS
  <2>9. PICK v : v = less[k']
    OBVIOUS
  <2>10. PICK t : t = more[k']
    OBVIOUS
  <2>11. Keeps(u, s, c)
    BY <2>1, <2>2, <2>3, <2>7, <2>8 DEF KeepInv
  <2>12. PICK turn : turn = last_time_used
    OBVIOUS
  <2>13. Follows(s, turn)
    BY <2>1, <2>3, <2>8, <2>12 DEF LruInv, LruWith
  <2>14. s \in CacheStates /\ Len(s.list) <= NUM_FRAMES /\ Distinct(s.list)
    BY <2>13, FollowsDistinct DEF Follows
  <2>15. PICK a \in Nat : a = virtual_address
    BY <2>4, WorkloadAssumption, LenProperties, ElementOfSeq DEF MemInv, Request, virtual_address
  <2>16. v = Cache!Serve("lru", c, u, a) /\ t = Cache!Serve("lru", NUM_FRAMES, s, a)
    BY <2>5, <2>6, <2>7, <2>8, <2>9, <2>10, <2>15
  <2>17. Keeps(v, t, c)
    BY <2>11, <2>14, <2>16, KeepsStep
  <2> QED BY <2>5, <2>6, <2>9, <2>10, <2>17
<1>4. CASE Reset
  <2>1. requests_cpu' = requests_cpu /\ k' = 0
    BY <1>4 DEF Reset
  <2>2. PICK requests \in Seq(Nat) : requests = requests_cpu
    BY WorkloadAssumption DEF MemInv
  <2>3. LruWith(c)'[k'] = Cache!Start /\ LruWith(NUM_FRAMES)'[k'] = Cache!Start
    <3>1. \A m : Cache!After("lru", m, requests)[0] = Cache!Start
      BY AfterNothing
    <3> QED BY <2>1, <2>2, <3>1 DEF LruWith
  <2> QED BY <2>3, KeepsStart
<1>5. CASE Finish
  <2>1. todo' = <<>>
    BY <1>5, NothingLeft
  <2>2. ~Runs("lru")'
    BY <2>1 DEF Runs
  <2> QED BY <2>2
<1>6. CASE Done \/ UNCHANGED vars
  <2>1. requests_cpu' = requests_cpu /\ k' = k /\ todo' = todo
    BY <1>6 DEF Done, vars
  <2>2. LruWith(c)' = LruWith(c) /\ LruWith(NUM_FRAMES)' = LruWith(NUM_FRAMES) /\ Runs("lru")
    BY <2>1 DEF LruWith, Runs
  <2> QED BY <2>1, <2>2 DEF KeepInv
<1> QED BY <1>1, <1>2, <1>3, <1>4, <1>5, <1>6 DEF Next

LEMMA InitKeep == Init => KeepInv
<1> SUFFICES ASSUME Init, NEW c \in Smaller PROVE Keeps(LruWith(c)[k], LruWith(NUM_FRAMES)[k], c)
  BY DEF KeepInv
<1>1. requests_cpu \in Seq(Nat) /\ k = 0
  BY WorkloadAssumption DEF Init, FifoInit, LruInit, PagingInit
<1>2. PICK requests \in Seq(Nat) : requests = requests_cpu
  BY <1>1
<1>3. \A m : Cache!After("lru", m, requests)[0] = Cache!Start
  BY AfterNothing
<1>4. LruWith(c)[k] = Cache!Start /\ LruWith(NUM_FRAMES)[k] = Cache!Start
  BY <1>1, <1>2, <1>3 DEF LruWith
<1> QED BY <1>4, KeepsStart

(* LRU never loses by more frames: whatever LRU in any smaller memory holds  *)
(* after the same requests is in the frames, and it had as many faults at    *)
(* least (pagingsyswithlru.c:157-186).  FIFO has no such property, as the    *)
(* third workload shows (README.md:133).                                     *)
THEOREM LruInclusion == Spec => []LruKeepsMore
<1>1. IInv /\ PolicyInv /\ KeepInv => LruKeepsMore
  <2> SUFFICES ASSUME MemInv, PolicyInv, KeepInv, Runs("lru"), NEW c \in Smaller
               PROVE  LET less == LruWith(c)[k] IN
                      /\ \A i \in DOMAIN less.list : \E f \in Frames : physical_frames[f] = less.list[i].page
                      /\ pg_faults <= less.faults
    BY DEF IInv, LruKeepsMore
  <2>1. PICK u : u = LruWith(c)[k]
    OBVIOUS
  <2>2. PICK s : s = LruWith(NUM_FRAMES)[k]
    OBVIOUS
  <2>3. Keeps(u, s, c)
    BY <2>1, <2>2 DEF KeepInv
  <2>4. PICK turn : turn = last_time_used
    OBVIOUS
  <2>5. Follows(s, turn)
    BY <2>2, <2>4 DEF PolicyInv, LruInv, LruWith
  <2>6. PICK place : Placed(place, s.list, Occupied, HeldItems, turn)
    BY <2>5 DEF Follows
  <2>7. pg_faults = s.faults /\ s.faults <= u.faults
    BY <2>3, <2>5 DEF Follows, Keeps
  <2>8. PICK few \in Seq(Items) : few = u.list
    BY <2>3 DEF Keeps, LastOf
  <2>9. PICK many \in Seq(Items) : many = s.list
    BY <2>3 DEF Keeps, LastOf
  <2>10. PICK m \in Nat : m = Len(few)
    BY LenProperties
  <2>11. PICK n \in Nat : n = Len(many)
    BY LenProperties
  <2>12. ASSUME NEW i \in DOMAIN few PROVE \E f \in Frames : physical_frames[f] = few[i].page
    <3>1. i \in 1..m /\ m <= n
      <4>1. i \in 1..m
        BY <2>10, LenProperties
      <4>2. (n <= c => m = n) /\ (n > c => m = c)
        BY <2>3, <2>8, <2>9, <2>10, <2>11 DEF Keeps
      <4> QED BY <4>1, <4>2, SomeFrame DEF Smaller
    <3>2. PICK j \in 1..n : j = n - m + i
      BY <3>1
    <3>3. few[i].page = many[j].page
      BY <2>3, <2>8, <2>9, <2>10, <2>11, <3>1, <3>2 DEF Keeps, LastOf
    <3>4. PICK f \in Occupied : place[f] = j
      BY <2>6, <2>9, <2>11 DEF Placed
    <3>5. many[j] = Held(f) /\ f \in Frames
      BY <2>6, <2>9, <3>4 DEF Placed, HeldItems, Occupied
    <3>6. many[j].page = physical_frames[f]
      BY <3>5, HeldIsItem
    <3> QED BY <3>3, <3>5, <3>6
  <2> QED BY <2>1, <2>7, <2>8, <2>12
<1>2. KeepInv /\ (IInv /\ PolicyInv) /\ [Next]_vars => KeepInv'
  BY NextKeep
<1> QED BY <1>1, <1>2, InitKeep, PolicyInvariance, PTL DEF Spec

(* Paging without replacement.  What FirstComeFirstKept says of the state is *)
(* said here of sets of requests and of frames that are given as values.     *)
-----------------------------------------------------------------------------
\* The first of the requests for each page, and those that came before one.
FirstOf(served, requests) ==
  {i \in served : \A j \in served : PageOf(requests[j]) = PageOf(requests[i]) => i <= j}
BeforeOf(firsts, i) == {j \in firsts : j < i}
LaterOf(served, firsts, requests, frames) ==
  {i \in served \ firsts : \E f \in Frames : frames[f] = PageOf(requests[i])}

\* FirstComeFirstKept, and every page in a frame was requested.
Kept(served, firsts, requests, frames, hits, faults) ==
  /\ \A i \in firsts : Cardinality(BeforeOf(firsts, i)) < NUM_FRAMES =>
                         frames[Cardinality(BeforeOf(firsts, i))] = PageOf(requests[i])
  /\ \A f \in Frames : f < Cardinality(firsts) <=> frames[f] # Empty
  /\ hits = Cardinality(LaterOf(served, firsts, requests, frames))
  /\ hits + faults = Cardinality(served)
  /\ \A f \in Frames : frames[f] # Empty => \E i \in served : frames[f] = PageOf(requests[i])

\* A set of requests, and one that comes after them.
IsNext(served, requests, n) ==
  /\ served \in SUBSET Nat /\ IsFiniteSet(served)
  /\ n \in Nat /\ \A i \in served : i < n
  /\ \A i \in served \union {n} : PageOf(requests[i]) \in Nat

\* A request more changes nothing among those before it.
LEMMA FirstsStep ==
  ASSUME NEW served \in SUBSET Nat, NEW requests, NEW n \in Nat, \A i \in served : i < n,
         NEW old, old = FirstOf(served, requests),
         NEW new, new = FirstOf(served \union {n}, requests)
  PROVE  old = new \ {n}
<1>1. new \in SUBSET (served \union {n}) /\ old \in SUBSET served /\ n \notin served
  BY DEF FirstOf
<1>2. ASSUME NEW i \in served PROVE i \in old <=> i \in new
  <2>1. i <= n
    OBVIOUS
  <2> QED BY <2>1 DEF FirstOf
<1> QED BY <1>1, <1>2

LEMMA OldFirst ==
  ASSUME NEW served \in SUBSET Nat, NEW requests, NEW n \in Nat, \A i \in served : i < n,
         NEW i \in served, PageOf(requests[i]) = PageOf(requests[n]),
         NEW old, old = FirstOf(served, requests),
         NEW new, new = FirstOf(served \union {n}, requests)
  PROVE  new = old
<1>1. n \notin new
  <2>1. ~(n <= i)
    OBVIOUS
  <2> QED BY <2>1 DEF FirstOf
<1>2. old = new \ {n}
  BY FirstsStep
<1> QED BY <1>1, <1>2

LEMMA NewFirst ==
  ASSUME NEW served \in SUBSET Nat, NEW requests, NEW n \in Nat, \A i \in served : i < n,
         \A i \in served : PageOf(requests[i]) # PageOf(requests[n]),
         NEW old, old = FirstOf(served, requests),
         NEW new, new = FirstOf(served \union {n}, requests)
  PROVE  new = old \union {n}
<1>1. n \in new
  <2>1. n <= n
    OBVIOUS
  <2> QED BY <2>1 DEF FirstOf
<1>2. old = new \ {n}
  BY FirstsStep
<1> QED BY <1>1, <1>2

\* The requests before a first one do not change, and all come before the next.
LEMMA SameBefore ==
  ASSUME NEW firsts \in SUBSET Nat, NEW n \in Nat, NEW i \in firsts, i < n,
         NEW new, new = firsts \union {n}
  PROVE  BeforeOf(new, i) = BeforeOf(firsts, i)
<1>1. ~(n < i)
  OBVIOUS
<1> QED BY <1>1 DEF BeforeOf

LEMMA AllBefore ==
  ASSUME NEW firsts \in SUBSET Nat, NEW n \in Nat, \A i \in firsts : i < n,
         NEW new, new = firsts \union {n}
  PROVE  BeforeOf(new, n) = firsts
<1>1. ASSUME NEW j \in firsts PROVE j \in BeforeOf(new, n)
  BY <1>1 DEF BeforeOf
<1>2. ~(n < n)
  OBVIOUS
<1>3. ASSUME NEW j \in BeforeOf(new, n) PROVE j \in firsts
  BY <1>2, <1>3 DEF BeforeOf
<1> QED BY <1>1, <1>3

\* The number of a first request is less than how many there are.
LEMMA FewerBefore ==
  ASSUME NEW firsts \in SUBSET Nat, IsFiniteSet(firsts), NEW i \in firsts
  PROVE  Cardinality(BeforeOf(firsts, i)) \in Nat /\ Cardinality(BeforeOf(firsts, i)) < Cardinality(firsts)
<1>1. PICK before : before = BeforeOf(firsts, i)
  OBVIOUS
<1>2. before \subseteq firsts /\ i \notin before
  BY <1>1 DEF BeforeOf
<1>3. Cardinality(firsts) \in Nat
  BY FS_CardinalityType
<1>4. IsFiniteSet(before) /\ Cardinality(before) <= Cardinality(firsts)
      /\ (Cardinality(before) = Cardinality(firsts) => before = firsts)
  BY <1>2, FS_Subset
<1>5. Cardinality(before) \in Nat
  BY <1>4, FS_CardinalityType
<1> QED BY <1>1, <1>2, <1>3, <1>4, <1>5

\* Of the requests for a page, one came first.
LEMMA FirstFor ==
  ASSUME NEW served \in SUBSET Nat, NEW requests, NEW i \in served
  PROVE  \E j \in FirstOf(served, requests) : PageOf(requests[j]) = PageOf(requests[i])
<1>1. PICK same : same = {j \in served : PageOf(requests[j]) = PageOf(requests[i])}
  OBVIOUS
<1>2. same \in SUBSET Nat /\ i \in same
  BY <1>1
<1>3. PICK m \in same : \A n \in same : m <= n
  BY <1>2, Least
<1>4. m \in FirstOf(served, requests)
  BY <1>1, <1>3 DEF FirstOf
<1> QED BY <1>1, <1>3, <1>4

\* All these sets are finite.
LEMMA FiniteFirsts ==
  ASSUME NEW served \in SUBSET Nat, IsFiniteSet(served), NEW requests,
         NEW firsts, firsts = FirstOf(served, requests)
  PROVE  firsts \in SUBSET served /\ firsts \in SUBSET Nat /\ IsFiniteSet(firsts)
         /\ Cardinality(firsts) \in Nat /\ Cardinality(served) \in Nat
<1>1. firsts \in SUBSET served /\ firsts \in SUBSET Nat
  BY DEF FirstOf
<1>2. IsFiniteSet(firsts)
  BY <1>1, FS_Subset
<1> QED BY <1>1, <1>2, FS_CardinalityType

LEMMA FiniteLater ==
  ASSUME NEW served, IsFiniteSet(served), NEW firsts, NEW requests, NEW frames,
         NEW later, later = LaterOf(served, firsts, requests, frames)
  PROVE  IsFiniteSet(later) /\ Cardinality(later) \in Nat
<1>1. later \in SUBSET served
  BY DEF LaterOf
<1>2. IsFiniteSet(later)
  BY <1>1, FS_Subset
<1> QED BY <1>2, FS_CardinalityType

\* A request for a page in a frame.
LEMMA KeptHit ==
  ASSUME NEW served, NEW requests, NEW n, IsNext(served, requests, n),
         NEW frames, NEW hits, NEW faults,
         NEW firsts, firsts = FirstOf(served, requests),
         Kept(served, firsts, requests, frames, hits, faults),
         NEW f \in Frames, frames[f] = PageOf(requests[n]), faults \in Nat,
         NEW served2, served2 = served \union {n},
         NEW firsts2, firsts2 = FirstOf(served2, requests)
  PROVE  Kept(served2, firsts2, requests, frames, hits + 1, faults)
<1>1. served \in SUBSET Nat /\ IsFiniteSet(served) /\ n \in Nat /\ \A i \in served : i < n
  BY DEF IsNext
<1>2. frames[f] # Empty
  BY DEF IsNext, Empty
<1>3. PICK i \in served : PageOf(requests[i]) = PageOf(requests[n])
  BY <1>2 DEF Kept
<1>4. firsts2 = firsts
  BY <1>1, <1>3, OldFirst
<1>5. /\ firsts \in SUBSET served /\ Cardinality(served) \in Nat /\ n \notin served
  BY <1>1, FiniteFirsts
<1>6. PICK later : later = LaterOf(served, firsts, requests, frames)
  OBVIOUS
<1>7. IsFiniteSet(later) /\ Cardinality(later) \in Nat /\ hits = Cardinality(later)
  BY <1>1, <1>6, FiniteLater DEF Kept
<1>8. LaterOf(served2, firsts, requests, frames) = later \union {n} /\ n \notin later
  BY <1>5, <1>6 DEF LaterOf
<1>9. Cardinality(later \union {n}) = Cardinality(later) + 1
  BY <1>7, <1>8, FS_AddElement
<1>10. Cardinality(served2) = Cardinality(served) + 1
  BY <1>1, <1>5, FS_AddElement
<1>11. hits + faults = Cardinality(served)
  BY DEF Kept
<1>12. (hits + 1) + faults = Cardinality(served2)
  BY <1>5, <1>7, <1>10, <1>11
<1>13. hits + 1 = Cardinality(LaterOf(served2, firsts2, requests, frames))
  BY <1>4, <1>7, <1>8, <1>9
<1> QED BY <1>4, <1>12, <1>13 DEF Kept

\* A page that is loaded was not requested before.
LEMMA KeptLoad ==
  ASSUME NEW served, NEW requests, NEW n, IsNext(served, requests, n),
         NEW frames, frames \in [Frames -> {Empty} \union Pages], NEW hits \in Nat, NEW faults \in Nat,
         NEW firsts, firsts = FirstOf(served, requests),
         Kept(served, firsts, requests, frames, hits, faults),
         NEW f \in Frames, frames[f] = Empty, \A g \in 0..(f - 1) : frames[g] # Empty,
         \A g \in Frames : frames[g] # PageOf(requests[n]),
         NEW frames2, frames2 = [frames EXCEPT ![f] = PageOf(requests[n])],
         NEW served2, served2 = served \union {n},
         NEW firsts2, firsts2 = FirstOf(served2, requests)
  PROVE  Kept(served2, firsts2, requests, frames2, hits, faults + 1)
<1>1. served \in SUBSET Nat /\ IsFiniteSet(served) /\ n \in Nat /\ \A i \in served : i < n
  BY DEF IsNext
<1>2. /\ firsts \in SUBSET served /\ firsts \in SUBSET Nat /\ IsFiniteSet(firsts)
      /\ Cardinality(firsts) \in Nat /\ Cardinality(served) \in Nat /\ n \notin served
  BY <1>1, FiniteFirsts
<1>3. PICK c \in Nat : c = Cardinality(firsts)
  BY <1>2
<1>4. f = c
  <2>1. ~(f < c)
    BY <1>3 DEF Kept
  <2>2. ~(c < f)
    <3> SUFFICES ASSUME c < f PROVE FALSE
      OBVIOUS
    <3>1. c \in Frames /\ c \in 0..(f - 1)
      BY SomeFrame DEF Frames
    <3>2. frames[c] # Empty
      BY <3>1
    <3>3. c < c
      BY <1>3, <3>1, <3>2 DEF Kept
    <3> QED BY <3>3
  <2> QED BY <2>1, <2>2, FramesAreNumbers
<1>5. ASSUME NEW i \in firsts
      PROVE  /\ Cardinality(BeforeOf(firsts, i)) \in Nat /\ Cardinality(BeforeOf(firsts, i)) < c
             /\ Cardinality(BeforeOf(firsts, i)) \in Frames
             /\ frames[Cardinality(BeforeOf(firsts, i))] = PageOf(requests[i])
  <2>1. PICK before \in Nat : before = Cardinality(BeforeOf(firsts, i)) /\ before < c
    BY <1>2, <1>3, FewerBefore
  <2>2. f < NUM_FRAMES /\ f \in Nat
    BY SomeFrame DEF Frames
  <2>3. before < NUM_FRAMES /\ before \in Frames
    BY <1>4, <2>1, <2>2, SomeFrame DEF Frames
  <2>4. frames[before] = PageOf(requests[i])
    BY <2>1, <2>3 DEF Kept
  <2> QED BY <2>1, <2>3, <2>4
<1>6. ASSUME NEW i \in served PROVE PageOf(requests[i]) # PageOf(requests[n])
  <2>1. PICK j \in firsts : PageOf(requests[j]) = PageOf(requests[i])
    BY <1>1, FirstFor
  <2> QED BY <1>5, <2>1
<1>7. firsts2 = firsts \union {n} /\ n \notin firsts
  <2>1. \A i \in served : i < n /\ PageOf(requests[i]) # PageOf(requests[n])
    BY <1>1, <1>6
  <2>2. firsts2 = FirstOf(served \union {n}, requests) /\ firsts = FirstOf(served, requests)
    OBVIOUS
  <2>3. served \in SUBSET Nat /\ n \in Nat
    BY <1>1
  <2>4. firsts2 = firsts \union {n}
    BY ONLY <2>1, <2>2, <2>3, NewFirst
  <2> QED BY <1>2, <2>4
<1>8. Cardinality(firsts2) = c + 1
  BY <1>2, <1>3, <1>7, FS_AddElement
<1>9. frames2[f] = PageOf(requests[n]) /\ \A g \in Frames \ {f} : frames2[g] = frames[g]
  OBVIOUS
<1>10. PageOf(requests[n]) # Empty
  BY DEF IsNext, Empty
<1>11. ASSUME NEW i \in firsts2, Cardinality(BeforeOf(firsts2, i)) < NUM_FRAMES
       PROVE  frames2[Cardinality(BeforeOf(firsts2, i))] = PageOf(requests[i])
  <2>1. CASE i = n
    <3>1. BeforeOf(firsts2, n) = firsts
      BY <1>1, <1>2, <1>7, AllBefore
    <3> QED BY <1>3, <1>4, <1>9, <2>1, <3>1
  <2>2. CASE i # n
    <3>1. i \in firsts /\ i < n
      BY <1>1, <1>2, <1>7, <2>2
    <3>2. BeforeOf(firsts2, i) = BeforeOf(firsts, i)
      <4>1. n \in Nat /\ i < n /\ i \in firsts /\ firsts \in SUBSET Nat /\ firsts2 = firsts \union {n}
        BY <1>1, <1>2, <1>7, <3>1
      <4> QED BY ONLY <4>1, SameBefore
    <3>3. PICK before \in Frames : /\ before = Cardinality(BeforeOf(firsts, i))
                                   /\ before < c /\ frames[before] = PageOf(requests[i])
      BY <1>5, <3>1
    <3>4. before # f
      BY <1>4, <3>3
    <3> QED BY <1>9, <3>2, <3>3, <3>4
  <2> QED BY <2>1, <2>2
<1>12. ASSUME NEW g \in Frames PROVE g < Cardinality(firsts2) <=> frames2[g] # Empty
  <2>1. g \in Nat /\ (g < c + 1 <=> (g < c \/ g = c))
    BY FramesAreNumbers
  <2>2. CASE g = f
    BY <1>4, <1>8, <1>9, <1>10, <2>1, <2>2
  <2>3. CASE g # f
    <3>1. g < c <=> frames[g] # Empty
      BY <1>3 DEF Kept
    <3> QED BY <1>4, <1>8, <1>9, <2>1, <2>3, <3>1
  <2> QED BY <2>2, <2>3
<1>13. hits = Cardinality(LaterOf(served2, firsts2, requests, frames2))
  <2>1. served2 \ firsts2 = served \ firsts
    BY <1>2, <1>7
  <2>2. ASSUME NEW i \in served
        PROVE  (\E g \in Frames : frames2[g] = PageOf(requests[i]))
                 <=> (\E g \in Frames : frames[g] = PageOf(requests[i]))
    <3>1. PageOf(requests[i]) # PageOf(requests[n]) /\ PageOf(requests[i]) # Empty
      BY <1>6 DEF IsNext, Empty
    <3> QED BY <1>9, <3>1
  <2>3. LaterOf(served2, firsts2, requests, frames2) = LaterOf(served, firsts, requests, frames)
    BY <2>1, <2>2 DEF LaterOf
  <2> QED BY <2>3 DEF Kept
<1>14. hits + (faults + 1) = Cardinality(served2)
  <2>1. Cardinality(served2) = Cardinality(served) + 1
    BY <1>1, <1>2, FS_AddElement
  <2>2. hits + faults = Cardinality(served)
    BY DEF Kept
  <2> QED BY <1>2, <2>1, <2>2
<1>15. ASSUME NEW g \in Frames, frames2[g] # Empty PROVE \E i \in served2 : frames2[g] = PageOf(requests[i])
  <2>1. CASE g = f
    BY <1>9, <2>1
  <2>2. CASE g # f
    <3>1. frames[g] # Empty
      BY <1>9, <1>15, <2>2
    <3>2. PICK i \in served : frames[g] = PageOf(requests[i])
      BY <3>1 DEF Kept
    <3> QED BY <1>9, <2>2, <3>2
  <2> QED BY <2>1, <2>2
<1> QED BY <1>11, <1>12, <1>13, <1>14, <1>15 DEF Kept

\* A page that finds no room.
LEMMA KeptNoRoom ==
  ASSUME NEW served, NEW requests, NEW n, IsNext(served, requests, n),
         NEW frames, NEW hits \in Nat, NEW faults \in Nat,
         NEW firsts, firsts = FirstOf(served, requests),
         Kept(served, firsts, requests, frames, hits, faults),
         \A g \in Frames : frames[g] # Empty,
         \A g \in Frames : frames[g] # PageOf(requests[n]),
         NEW served2, served2 = served \union {n},
         NEW firsts2, firsts2 = FirstOf(served2, requests)
  PROVE  Kept(served2, firsts2, requests, frames, hits, faults + 1)
<1>1. served \in SUBSET Nat /\ IsFiniteSet(served) /\ n \in Nat /\ \A i \in served : i < n
  BY DEF IsNext
<1>2. /\ firsts \in SUBSET served /\ firsts \in SUBSET Nat /\ IsFiniteSet(firsts)
      /\ Cardinality(firsts) \in Nat /\ Cardinality(served) \in Nat /\ n \notin served
  BY <1>1, FiniteFirsts
<1>3. PICK c \in Nat : c = Cardinality(firsts)
  BY <1>2
<1>4. \A g \in Frames : g \in Nat /\ g < c
  BY <1>3, FramesAreNumbers DEF Kept
<1>5. ~(c < NUM_FRAMES)
  <2> SUFFICES ASSUME c < NUM_FRAMES PROVE FALSE
    OBVIOUS
  <2>1. c \in Frames
    BY SomeFrame DEF Frames
  <2> QED BY <1>4, <2>1
<1>6. firsts2 \in {firsts, firsts \union {n}}
  <2>1. firsts = firsts2 \ {n}
    BY <1>1, FirstsStep
  <2> QED BY <2>1
<1>7. Cardinality(firsts2) \in {c, c + 1}
  <2>1. CASE firsts2 = firsts
    BY <1>3, <2>1
  <2>2. CASE firsts2 = firsts \union {n}
    <3>1. Cardinality(firsts2) = c + 1
      BY <1>2, <1>3, <2>2, FS_AddElement
    <3> QED BY <3>1
  <2> QED BY <1>6, <2>1, <2>2
<1>8. ASSUME NEW i \in firsts2, Cardinality(BeforeOf(firsts2, i)) < NUM_FRAMES
      PROVE  frames[Cardinality(BeforeOf(firsts2, i))] = PageOf(requests[i])
  <2>1. i \in firsts
    <3> SUFFICES ASSUME i \notin firsts PROVE FALSE
      OBVIOUS
    <3>1. i = n /\ firsts2 = firsts \union {n}
      BY <1>6
    <3>2. BeforeOf(firsts2, n) = firsts
      BY <1>1, <1>2, <3>1, AllBefore
    <3> QED BY <1>3, <1>5, <1>8, <3>1, <3>2
  <2>2. i < n
    BY <1>1, <1>2, <2>1
  <2>3. BeforeOf(firsts2, i) = BeforeOf(firsts, i)
    <3>1. CASE firsts2 = firsts
      BY <3>1
    <3>2. CASE firsts2 = firsts \union {n}
      BY <1>1, <1>2, <2>1, <2>2, <3>2, SameBefore
    <3> QED BY <1>6, <3>1, <3>2
  <2> QED BY <1>8, <2>1, <2>3 DEF Kept
<1>9. ASSUME NEW g \in Frames PROVE g < Cardinality(firsts2) <=> frames[g] # Empty
  <2>1. PICK d \in {c, c + 1} : d = Cardinality(firsts2)
    BY <1>7
  <2>2. g < d
    BY <1>4, <2>1
  <2> QED BY <2>1, <2>2
<1>10. hits = Cardinality(LaterOf(served2, firsts2, requests, frames))
  <2>1. (served2 \ firsts2) \ {n} = served \ firsts
    BY <1>2, <1>6
  <2>2. served \ firsts \subseteq served2 \ firsts2
    BY <2>1
  <2>3. ASSUME NEW i \in LaterOf(served2, firsts2, requests, frames)
        PROVE  i \in LaterOf(served, firsts, requests, frames)
    <3>1. i # n
      BY <2>3 DEF LaterOf
    <3> QED BY <2>1, <2>3, <3>1 DEF LaterOf
  <2>4. ASSUME NEW i \in LaterOf(served, firsts, requests, frames)
        PROVE  i \in LaterOf(served2, firsts2, requests, frames)
    BY <2>2, <2>4 DEF LaterOf
  <2>5. LaterOf(served2, firsts2, requests, frames) = LaterOf(served, firsts, requests, frames)
    BY <2>3, <2>4
  <2> QED BY <2>5 DEF Kept
<1>11. hits + (faults + 1) = Cardinality(served2)
  <2>1. Cardinality(served2) = Cardinality(served) + 1
    BY <1>1, <1>2, FS_AddElement
  <2>2. hits + faults = Cardinality(served)
    BY DEF Kept
  <2> QED BY <1>2, <2>1, <2>2
<1> QED BY <1>8, <1>9, <1>10, <1>11 DEF Kept

\* The invariant of pagingsys.c.
PlainInv ==
  Runs("plain") =>
    /\ Kept(Served, Firsts, requests_cpu, physical_frames, pg_hits, pg_faults)
    /\ pg_hits \in Nat /\ pg_faults \in Nat

\* The turn of a request that is served, and those before it.
LEMMA ServedNext ==
  ASSUME MemInv, Request, InProcess, NEW n, n = k + 1
  PROVE  /\ IsNext(Served, requests_cpu, n) /\ Served' = Served \union {n}
         /\ PageOf(requests_cpu[n]) = page_no /\ requests_cpu' = requests_cpu
         /\ Firsts = FirstOf(Served, requests_cpu) /\ Firsts' = FirstOf(Served', requests_cpu)
<1>1. requests_cpu \in Seq(Nat) /\ requests_cpu' = requests_cpu /\ k' = n /\ k \in Nat /\ n \in 1..Len(requests_cpu)
  BY WorkloadAssumption, LenProperties DEF MemInv, Request
<1>2. IsFiniteSet(Served)
  <2>1. IsFiniteSet(1..k) /\ Served \in SUBSET (1..k)
    BY <1>1, FS_Interval DEF Served
  <2> QED BY <2>1, FS_Subset
<1>3. \A i \in Served \union {n} : PageOf(requests_cpu[i]) \in Nat
  <2>1. Served \union {n} \subseteq 1..Len(requests_cpu)
    BY <1>1, LenProperties DEF Served
  <2>2. \A i \in 1..Len(requests_cpu) : requests_cpu[i] \in Nat
    BY <1>1, ElementOfSeq
  <2> QED BY <2>1, <2>2, AddressParts
<1>4. Served \in SUBSET Nat /\ n \in Nat /\ \A i \in Served : i < n
  BY <1>1 DEF Served
<1>5. IsNext(Served, requests_cpu, n)
  BY <1>2, <1>3, <1>4 DEF IsNext
<1>6. Served' = Served \union {n}
  <2>1. 1..n = (1..k) \union {n}
    BY <1>1
  <2>2. requests_cpu[n] < PROCESS_SIZE
    BY DEF InProcess, virtual_address
  <2> QED BY <1>1, <2>1, <2>2 DEF Served
<1>7. PageOf(requests_cpu[n]) = page_no
  BY DEF page_no, virtual_address
<1>8. Firsts = FirstOf(Served, requests_cpu)
  BY DEF Firsts, FirstOf, PageAt
<1>9. Firsts' = FirstOf(Served', requests_cpu)
  BY <1>1 DEF Firsts, FirstOf, PageAt
<1> QED BY <1>1, <1>5, <1>6, <1>7, <1>8, <1>9

\* One turn of its loop.
LEMMA PlainStep ==
  ASSUME MemInv, Kept(Served, Firsts, requests_cpu, physical_frames, pg_hits, pg_faults),
         pg_hits \in Nat, pg_faults \in Nat, PlainRequest
  PROVE  /\ Kept(Served, Firsts, requests_cpu, physical_frames, pg_hits, pg_faults)'
         /\ pg_hits' \in Nat /\ pg_faults' \in Nat
<1>1. PICK requests : requests = requests_cpu
  OBVIOUS
<1>2. PICK served : served = Served
  OBVIOUS
<1>3. PICK firsts : firsts = Firsts
  OBVIOUS
<1>4. PICK frames \in [Frames -> {Empty} \union Pages] : frames = physical_frames
  BY DEF MemInv
<1>5. PICK hits \in Nat : hits = pg_hits
  OBVIOUS
<1>6. PICK faults \in Nat : faults = pg_faults
  OBVIOUS
<1>7. Kept(served, firsts, requests, frames, hits, faults)
  BY <1>1, <1>2, <1>3, <1>4, <1>5, <1>6
<1>8. CASE OutOfBounds
  <2>1. k \in Nat /\ k' = k + 1 /\ requests_cpu' = requests_cpu /\ UNCHANGED memory /\ ~(requests_cpu[k + 1] < PROCESS_SIZE)
    BY <1>8, WorkloadAssumption, LenProperties DEF MemInv, OutOfBounds, Request, InProcess, virtual_address
  <2>2. 1..(k + 1) = (1..k) \union {k + 1}
    BY <2>1
  <2>3. Served' = Served
    BY <2>1, <2>2 DEF Served
  <2>4. Firsts' = Firsts
    BY <2>1, <2>3 DEF Firsts, PageAt
  <2>5. physical_frames' = physical_frames /\ pg_hits' = pg_hits /\ pg_faults' = pg_faults
    BY <2>1 DEF memory
  <2> QED BY <2>1, <2>3, <2>4, <2>5
<1>9. ASSUME Request, InProcess
      PROVE  \E n : /\ IsNext(served, requests, n) /\ Served' = served \union {n}
                    /\ PageOf(requests[n]) = page_no /\ requests_cpu' = requests
                    /\ firsts = FirstOf(served, requests) /\ Firsts' = FirstOf(served \union {n}, requests)
  <2>1. PICK n : n = k + 1
    OBVIOUS
  <2> QED BY <1>1, <1>2, <1>3, <1>9, <2>1, ServedNext
<1>10. ASSUME NEW f \in Frames, Hit(f)
       PROVE  /\ Kept(Served, Firsts, requests_cpu, physical_frames, pg_hits, pg_faults)'
              /\ pg_hits' \in Nat /\ pg_faults' \in Nat
  <2>1. Request /\ InProcess /\ physical_frames[f] = page_no
    BY <1>10 DEF Hit, FirstWith
  <2>2. PICK n : /\ IsNext(served, requests, n) /\ Served' = served \union {n}
                 /\ PageOf(requests[n]) = page_no /\ requests_cpu' = requests
                 /\ firsts = FirstOf(served, requests) /\ Firsts' = FirstOf(served \union {n}, requests)
    BY <1>9, <2>1
  <2>3. PICK served2 : served2 = served \union {n}
    OBVIOUS
  <2>4. PICK firsts2 : firsts2 = FirstOf(served2, requests)
    OBVIOUS
  <2>5. frames[f] = PageOf(requests[n])
    BY <1>4, <2>1, <2>2
  <2>6. Kept(served2, firsts2, requests, frames, hits + 1, faults)
    BY <1>7, <2>2, <2>3, <2>4, <2>5, KeptHit
  <2>7. physical_frames' = frames /\ pg_hits' = hits + 1 /\ pg_faults' = faults
    BY <1>4, <1>5, <1>6, <1>10 DEF Hit
  <2> QED BY <2>2, <2>3, <2>4, <2>6, <2>7
<1>11. ASSUME NEW f \in Frames, Load(f)
       PROVE  /\ Kept(Served, Firsts, requests_cpu, physical_frames, pg_hits, pg_faults)'
              /\ pg_hits' \in Nat /\ pg_faults' \in Nat
  <2>1. Request /\ InProcess /\ FirstWith(Empty, f) /\ ~Resident
    BY <1>11 DEF Load, Fault
  <2>2. PICK n : /\ IsNext(served, requests, n) /\ Served' = served \union {n}
                 /\ PageOf(requests[n]) = page_no /\ requests_cpu' = requests
                 /\ firsts = FirstOf(served, requests) /\ Firsts' = FirstOf(served \union {n}, requests)
    BY <1>9, <2>1
  <2>3. PICK served2 : served2 = served \union {n}
    OBVIOUS
  <2>4. PICK firsts2 : firsts2 = FirstOf(served2, requests)
    OBVIOUS
  <2>5. PICK frames2 : frames2 = [frames EXCEPT ![f] = PageOf(requests[n])]
    OBVIOUS
  <2>6. frames[f] = Empty /\ \A g \in 0..(f - 1) : frames[g] # Empty
    BY <1>4, <2>1 DEF FirstWith
  <2>7. \A g \in Frames : frames[g] # PageOf(requests[n])
    BY <1>4, <2>1, <2>2 DEF Resident
  <2>8. Kept(served2, firsts2, requests, frames2, hits, faults + 1)
    BY <1>7, <2>2, <2>3, <2>4, <2>5, <2>6, <2>7, KeptLoad
  <2>9. physical_frames' = frames2 /\ pg_hits' = hits /\ pg_faults' = faults + 1
    BY <1>4, <1>5, <1>6, <1>11, <2>2, <2>5 DEF Load, Fault
  <2> QED BY <2>2, <2>3, <2>4, <2>8, <2>9
<1>12. CASE NoRoom
  <2>1. Request /\ InProcess /\ Full /\ ~Resident
    BY <1>12 DEF NoRoom, Fault
  <2>2. PICK n : /\ IsNext(served, requests, n) /\ Served' = served \union {n}
                 /\ PageOf(requests[n]) = page_no /\ requests_cpu' = requests
                 /\ firsts = FirstOf(served, requests) /\ Firsts' = FirstOf(served \union {n}, requests)
    BY <1>9, <2>1
  <2>3. PICK served2 : served2 = served \union {n}
    OBVIOUS
  <2>4. PICK firsts2 : firsts2 = FirstOf(served2, requests)
    OBVIOUS
  <2>5. \A g \in Frames : frames[g] # Empty
    BY <1>4, <2>1 DEF Full
  <2>6. \A g \in Frames : frames[g] # PageOf(requests[n])
    BY <1>4, <2>1, <2>2 DEF Resident
  <2>7. Kept(served2, firsts2, requests, frames, hits, faults + 1)
    BY <1>7, <2>2, <2>3, <2>4, <2>5, <2>6, KeptNoRoom
  <2>8. physical_frames' = frames /\ pg_hits' = hits /\ pg_faults' = faults + 1
    BY <1>4, <1>5, <1>6, <1>12 DEF NoRoom, Fault
  <2> QED BY <2>2, <2>3, <2>4, <2>7, <2>8
<1> QED BY <1>8, <1>10, <1>11, <1>12 DEF PlainRequest

LEMMA InitPlain == Init => PlainInv
<1> SUFFICES ASSUME Init
             PROVE  /\ Kept(Served, Firsts, requests_cpu, physical_frames, pg_hits, pg_faults)
                    /\ pg_hits \in Nat /\ pg_faults \in Nat
  BY DEF PlainInv
<1>1. k = 0 /\ physical_frames = EmptyMemory /\ pg_hits = 0 /\ pg_faults = 0
  BY DEF Init, FifoInit, LruInit, PagingInit
<1>2. Served = {} /\ Firsts = {}
  BY <1>1 DEF Served, Firsts
<1>3. \A f \in Frames : physical_frames[f] = Empty /\ ~(f < 0)
  BY <1>1, FramesAreNumbers DEF EmptyMemory
<1>4. Cardinality({}) = 0
  BY FS_EmptySet
<1>5. LaterOf({}, {}, requests_cpu, physical_frames) = {}
  BY DEF LaterOf
<1>6. Kept({}, {}, requests_cpu, physical_frames, 0, 0)
  BY <1>3, <1>4, <1>5 DEF Kept
<1> QED BY <1>1, <1>2, <1>6

LEMMA NextPlain == IInv /\ PolicyInv /\ PlainInv /\ [Next]_vars => PlainInv'
<1> SUFFICES ASSUME MemInv, PolicyInv, PlainInv, [Next]_vars PROVE PlainInv'
  BY DEF IInv
<1>1. CASE PlainTurn
  BY <1>1, PlainStep DEF PlainTurn, PlainInv
<1>2. CASE FifoTurn
  <2>1. ~Runs("plain")'
    BY <1>2 DEF FifoTurn, Runs
  <2> QED BY <2>1 DEF PlainInv
<1>3. CASE LruTurn
  <2>1. ~Runs("plain")'
    BY <1>3 DEF LruTurn, Runs
  <2> QED BY <2>1 DEF PlainInv
<1>4. CASE Reset
  <2>1. todo' = <<"lru">>
    BY <1>4, LruIsLeft
  <2>2. ~Runs("plain")'
    BY <2>1 DEF Runs
  <2> QED BY <2>2 DEF PlainInv
<1>5. CASE Finish
  <2>1. todo' = <<>>
    BY <1>5, NothingLeft
  <2>2. ~Runs("plain")'
    BY <2>1 DEF Runs
  <2> QED BY <2>2 DEF PlainInv
<1>6. CASE Done \/ UNCHANGED vars
  <2>1. UNCHANGED vars
    BY <1>6 DEF Done
  <2>2. /\ requests_cpu' = requests_cpu /\ k' = k /\ todo' = todo
        /\ physical_frames' = physical_frames /\ pg_hits' = pg_hits /\ pg_faults' = pg_faults
    BY <2>1 DEF vars, memory
  <2>3. Served' = Served
    BY <2>2 DEF Served
  <2>4. Firsts' = Firsts
    BY <2>2, <2>3 DEF Firsts, PageAt
  <2> QED BY <2>2, <2>3, <2>4 DEF PlainInv, Runs
<1> QED BY <1>1, <1>2, <1>3, <1>4, <1>5, <1>6 DEF Next

(* Without replacement the frames are the first pages requested, in order,   *)
(* and a request is a hit exactly if it asks for one of them again           *)
(* (pagingsys.c:111-147).                                                    *)
THEOREM FirstPagesKept == Spec => []PlainKeepsTheFirst
<1>1. PlainInv => PlainKeepsTheFirst
  <2> SUFFICES ASSUME Kept(Served, Firsts, requests_cpu, physical_frames, pg_hits, pg_faults)
               PROVE  FirstComeFirstKept
    BY DEF PlainInv, PlainKeepsTheFirst
  <2>1. ASSUME NEW i \in Firsts, Cardinality(Before(i)) < NUM_FRAMES
        PROVE  physical_frames[Cardinality(Before(i))] = PageAt(i)
    <3>1. Before(i) = BeforeOf(Firsts, i)
      BY DEF Before, BeforeOf
    <3> QED BY <2>1, <3>1 DEF Kept, PageAt
  <2>2. \A f \in Frames : f < Cardinality(Firsts) <=> f \in Occupied
    BY DEF Kept, Occupied
  <2>3. pg_hits = Cardinality({i \in Served \ Firsts : \E f \in Frames : physical_frames[f] = PageAt(i)})
    BY DEF Kept, LaterOf, PageAt
  <2>4. pg_hits + pg_faults = Cardinality(Served)
    BY DEF Kept
  <2> QED BY <2>1, <2>2, <2>3, <2>4 DEF FirstComeFirstKept
<1>2. PlainInv /\ (IInv /\ PolicyInv) /\ [Next]_vars => PlainInv'
  BY NextPlain
<1> QED BY <1>1, <1>2, InitPlain, PolicyInvariance, PTL DEF Spec
=============================================================================
