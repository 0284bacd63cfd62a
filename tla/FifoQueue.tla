----------------------------- MODULE FifoQueue -----------------------------
(***************************************************************************)
(* What the prefetch FIFO (rtl/cv32e40p_fifo.sv) promises its user: a      *)
(* queue of at most DEPTH entries that can be emptied, or emptied except   *)
(* for its head, in one clock cycle.  Prefetcher uses it; PrefetchBuffer   *)
(* shows that the pointers and the memory of FetchFifo do the same.        *)
(***************************************************************************)
EXTENDS Integers, Sequences

CONSTANTS DEPTH,      \* number of entries
          Data        \* what an entry holds

VARIABLE queue

QueueTypeOK == queue \in Seq(Data) /\ Len(queue) <= DEPTH

QueueInit == queue = <<>>

(* The queue after the pop and the push of one cycle; a push into a full   *)
(* queue and a pop of an empty one are ignored.                            *)
Popped(pop) == IF pop /\ queue # <<>> THEN Tail(queue) ELSE queue

Shifted(push, pop, data) ==
  IF push /\ Len(queue) < DEPTH THEN Append(Popped(pop), data) ELSE Popped(pop)

(* One clock edge.  A flush wins over a flush-but-first, which wins over   *)
(* the push and the pop.                                                   *)
Cycle(push, pop, flush, flushButFirst, data) ==
  queue' = IF flush THEN <<>>
           ELSE IF flushButFirst
                THEN (IF queue = <<>> THEN <<>> ELSE <<Head(queue)>>)
                ELSE Shifted(push, pop, data)
=============================================================================
