----------------------------- MODULE PagingFifo -----------------------------
(***************************************************************************)
(* pagingsyswithfifo.c: paging in which ptr_fifo names the frame to be     *)
(* emptied next.                                                           *)
(***************************************************************************)
EXTENDS Paging

VARIABLE ptr_fifo

FifoInit == PagingInit /\ ptr_fifo = 0

FifoHitOrLoad == (\E f \in Frames : Hit(f) \/ Load(f)) /\ UNCHANGED ptr_fifo

\* Mutated form of EvictOldest: the pointer stays where it is.
EvictFirst == Replace(ptr_fifo) /\ UNCHANGED ptr_fifo

EvictOldest ==
  /\ Replace(ptr_fifo)
  /\ ptr_fifo' = (ptr_fifo + 1) % NUM_FRAMES

FifoRequest ==
  \/ OutOfBounds /\ UNCHANGED ptr_fifo
  \/ FifoHitOrLoad
  \/ EvictOldest
-----------------------------------------------------------------------------
\* How many evictions it is before the turn of each frame comes.
Turn == [f \in Frames |-> (f + NUM_FRAMES - ptr_fifo) % NUM_FRAMES]

\* The state is that of a queue of pages after the same requests.
IsQueue == Shows(Cache!After("fifo", NUM_FRAMES, requests_cpu)[k], Turn)
=============================================================================
