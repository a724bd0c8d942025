----------------------------- MODULE PageCache -----------------------------
(***************************************************************************)
(* What a replacement policy promises, without frames, pointers or time    *)
(* stamps: the resident pages are a list, the next one to leave comes      *)
(* first, and each carries the offsets requested since it was loaded.  A   *)
(* hit puts its page at the end of the list if the policy is to evict the  *)
(* least recently used page, and leaves the list in order if it is to      *)
(* evict the one that has been resident the longest.                       *)
(***************************************************************************)
EXTENDS Integers, Sequences

CONSTANTS PageSize, ProcessSize

Start == [list |-> <<>>, hits |-> 0, faults |-> 0]

\* A list whose i-th item leaves and which gets another one at its end.
ToEnd(pages, i, item) ==
  [j \in DOMAIN pages |->
     IF j < i THEN pages[j] ELSE IF j < Len(pages) THEN pages[j + 1] ELSE item]

Hit(policy, state, i, offset) ==
  LET used == [page |-> state.list[i].page, offsets |-> Append(state.list[i].offsets, offset)] IN
  [list   |-> IF policy = "lru" THEN ToEnd(state.list, i, used) ELSE [state.list EXCEPT ![i] = used],
   hits   |-> state.hits + 1,
   faults |-> state.faults]

Fault(capacity, state, item) ==
  [list   |-> IF Len(state.list) < capacity THEN Append(state.list, item)
                                            ELSE ToEnd(state.list, 1, item),
   hits   |-> state.hits,
   faults |-> state.faults + 1]

Serve(policy, capacity, state, address) ==
  LET page   == address \div PageSize
      offset == address % PageSize
      at     == {i \in DOMAIN state.list : state.list[i].page = page}
  IN  IF address >= ProcessSize THEN state
      ELSE IF at # {} THEN Hit(policy, state, CHOOSE i \in at : TRUE, offset)
      ELSE Fault(capacity, state, [page |-> page, offsets |-> <<offset>>])

\* The list, hits and faults after the first n of a series of requests, for every n.
After(policy, capacity, requests) ==
  LET state[n \in 0..Len(requests)] ==
        IF n = 0 THEN Start ELSE Serve(policy, capacity, state[n - 1], requests[n])
  IN  state
=============================================================================
