---------------------------- MODULE PrefetchBuffer ----------------------------
(***************************************************************************)
(* The prefetch buffer with the FIFO it instantiates: Prefetcher, which    *)
(* sees its FIFO as a queue, together with the pointers, the count and the *)
(* memory of FetchFifo, driven by the same push, pop and flush wires.      *)
(***************************************************************************)
EXTENDS Prefetcher

CONSTANT ADDR_DEPTH      \* pointer width: clog2(DEPTH)

ASSUME PrefetchBufferAssumption ==
  ADDR_DEPTH \in Nat /\ DEPTH = 2 ^ ADDR_DEPTH      \* prefetch_buffer.sv:59

VARIABLES read_pointer_q, write_pointer_q, status_cnt_q, mem_q

bufferVars == <<vars, read_pointer_q, write_pointer_q, status_cnt_q, mem_q>>

Memory == INSTANCE FetchFifo WITH Data <- Word, Zero <- 0

BufferCycle(c) ==
  /\ Cycle(c)
  /\ Memory!Cycle(Push(c), Pop(c), Flush(c), FlushButFirst(c), RespData)

BufferInit == Init /\ Memory!Init

BufferNext == \E c \in Input : BufferCycle(c)

BufferSpec == BufferInit /\ [][BufferNext]_bufferVars /\ Fairness

-----------------------------------------------------------------------------
(* The circular memory holds, from the read pointer on, the words of the   *)
(* queue, and full and empty mean the same for both: so all that is shown  *)
(* of Prefetcher holds with the pointers and flushes of the hardware, and  *)
(* nothing the prefetcher pushes is refused (a word would be lost) or      *)
(* overwritten.                                                            *)
BufferHolds ==
  /\ Memory!Contents = fifo
  /\ write_pointer_q = (read_pointer_q + status_cnt_q) % Memory!PointerRange
=============================================================================
