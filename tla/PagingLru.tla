----------------------------- MODULE PagingLru -----------------------------
(***************************************************************************)
(* pagingsyswithlru.c: paging in which every frame has the time of its     *)
(* last use, the index of the request, and the frame with the least is     *)
(* emptied.                                                                *)
(***************************************************************************)
EXTENDS Paging

VARIABLE last_time_used

Unused == [f \in Frames |-> -1]

LruInit == PagingInit /\ last_time_used = Unused

UsedNow(f) == last_time_used' = [last_time_used EXCEPT ![f] = k]

\* Mutated form of LruHit: a hit does not refresh the time stamp.
LruHitStale(f) == Hit(f) /\ UNCHANGED last_time_used

LruHit(f) == Hit(f) /\ UsedNow(f)

LruLoad(f) == Load(f) /\ UsedNow(f)

\* Mutated form of LeastRecent: the search leaves out the last frame.
LeastRecentButLast(f) ==
  /\ \A g \in 0..(NUM_FRAMES - 2) : last_time_used[f] <= last_time_used[g]
  /\ \A g \in 0..(f - 1) : last_time_used[f] < last_time_used[g]

\* The first frame with the least time stamp.
LeastRecent(f) ==
  /\ \A g \in Frames : last_time_used[f] <= last_time_used[g]
  /\ \A g \in 0..(f - 1) : last_time_used[f] < last_time_used[g]

EvictLeastRecent(f) == LeastRecent(f) /\ Replace(f) /\ UsedNow(f)

LruRequest ==
  \/ OutOfBounds /\ UNCHANGED last_time_used
  \/ \E f \in Frames : LruHit(f) \/ LruLoad(f) \/ EvictLeastRecent(f)
-----------------------------------------------------------------------------
\* The state is that of a list of pages by recency after the same requests.
IsRecencyList == Shows(Cache!After("lru", NUM_FRAMES, requests_cpu)[k], last_time_used)
=============================================================================
