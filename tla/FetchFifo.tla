----------------------------- MODULE FetchFifo -----------------------------
(***************************************************************************)
(* The FIFO of the prefetch buffer (rtl/cv32e40p_fifo.sv, FALL_THROUGH =   *)
(* 0): a circular memory with a read pointer, a write pointer and a count. *)
(* The pointers have ADDR_DEPTH bits and wrap at 2^ADDR_DEPTH; the code    *)
(* compares them with a DEPTH truncated to the same width, less one, in 32 *)
(* bits.                                                                   *)
(***************************************************************************)
EXTENDS Integers, Sequences

CONSTANTS DEPTH,        \* number of entries
          ADDR_DEPTH,   \* pointer width: clog2(DEPTH)
          Data,         \* what an entry holds
          Zero          \* the entry of a reset memory

PointerRange == 2 ^ ADDR_DEPTH

VARIABLES read_pointer_q, write_pointer_q, status_cnt_q, mem_q

Pointer == 0 .. PointerRange - 1

Full  == status_cnt_q = DEPTH
Empty == status_cnt_q = 0

(* The last pointer value before the explicit wrap.  For a power of two    *)
(* the truncated DEPTH is 0, the comparison with 0 - 1 never holds, and    *)
(* the wrap is that of the pointer's width.                                *)
Advance(p) ==
  IF DEPTH % PointerRange > 0 /\ p = (DEPTH % PointerRange) - 1
  THEN 0 ELSE (p + 1) % PointerRange

DoPush(push) == push /\ ~Full
DoPop(pop)   == pop /\ ~Empty

(* The count without a flush: a push alone, a pop alone (which overrides), *)
(* or both.                                                                *)
StatusNext(push, pop) ==
  IF DoPush(push) /\ ~DoPop(pop) THEN status_cnt_q + 1
  ELSE IF DoPop(pop) /\ ~DoPush(push) THEN status_cnt_q - 1
  ELSE status_cnt_q

PointersEdgeFirstAtZero(push, pop, flush, flushButFirst) ==
  IF flush \/ flushButFirst      \* wrong: the kept head is looked for at 0
  THEN /\ read_pointer_q' = 0
       /\ IF flush \/ Empty THEN write_pointer_q' = 0 /\ status_cnt_q' = 0
          ELSE write_pointer_q' = Advance(read_pointer_q) /\ status_cnt_q' = 1
  ELSE /\ read_pointer_q' = IF DoPop(pop) THEN Advance(read_pointer_q)
                            ELSE read_pointer_q
       /\ write_pointer_q' = IF DoPush(push) THEN Advance(write_pointer_q)
                             ELSE write_pointer_q
       /\ status_cnt_q' = StatusNext(push, pop)

PointersEdge(push, pop, flush, flushButFirst) ==
  IF flush
  THEN read_pointer_q' = 0 /\ write_pointer_q' = 0 /\ status_cnt_q' = 0
  ELSE IF flushButFirst
  THEN IF status_cnt_q > 0
       THEN /\ UNCHANGED read_pointer_q
            /\ write_pointer_q' = (read_pointer_q + 1) % PointerRange
            /\ status_cnt_q' = 1
       ELSE read_pointer_q' = 0 /\ write_pointer_q' = 0 /\ status_cnt_q' = 0
  ELSE /\ read_pointer_q' = IF DoPop(pop) THEN Advance(read_pointer_q)
                            ELSE read_pointer_q
       /\ write_pointer_q' = IF DoPush(push) THEN Advance(write_pointer_q)
                             ELSE write_pointer_q
       /\ status_cnt_q' = StatusNext(push, pop)

(* The memory is written by every push that finds room, flush or not. *)
MemoryEdge(push, data) ==
  mem_q' = IF DoPush(push) THEN [mem_q EXCEPT ![write_pointer_q] = data] ELSE mem_q

Cycle(push, pop, flush, flushButFirst, data) ==
  PointersEdge(push, pop, flush, flushButFirst) /\ MemoryEdge(push, data)

Init == /\ read_pointer_q = 0 /\ write_pointer_q = 0 /\ status_cnt_q = 0
        /\ mem_q = [p \in Pointer |-> Zero]

(* The entries from the read pointer on, as a queue. *)
Contents ==
  [i \in 1 .. status_cnt_q |-> mem_q[(read_pointer_q + i - 1) % PointerRange]]
=============================================================================
