-------------------------- MODULE PrefetcherProofs --------------------------
(***************************************************************************)
(* Proofs about Prefetcher, for every DEPTH > 1, every size of the address *)
(* space, both bus behaviours and with or without hardware loops.          *)
(***************************************************************************)
EXTENDS PrefetchBuffer, SequenceTheorems, TLAPS

(* The invariant that is inductive: types, the counters, and what a state  *)
(* in which a loop jump may come (run = "flow") says of the counters.      *)
FlowInv ==
  /\ run = "flow" /\ ~hwlp_update_pc_q => flush_cnt_q = 0
  /\ run = "flow" /\ flush_cnt_q > 0 => ~FifoEmpty
  /\ ~hwlp_flush_after_resp => hwlp_flush_cnt_delayed_q = 0

CounterInv ==
  /\ TypeOK
  /\ OutstandingExact
  /\ FlushBounded
  /\ RoomForAll
  /\ LoopEndRequested
  /\ FlowInv

USE PrefetcherAssumption

LEMMA IncrType == ASSUME NEW a \in Word PROVE Incr(a) \in Word
  BY DEF Incr, Word

One(b) == IF b THEN 1 ELSE 0

(* The initial state. *)
LEMMA InitCounterInv == Init => CounterInv
  <1> SUFFICES ASSUME Init PROVE CounterInv
    OBVIOUS
  <1> USE DEF Init, Fifo!QueueInit
  <1>1. TypeOK
    <2>1. 0 \in Word /\ 0 \in 0 .. DEPTH
      BY DEF Word
    <2>2. fifo \in Seq(Word) /\ Len(fifo) = 0 /\ bus \in Seq(Word)
      BY EmptySeq
    <2>3. taken \in Word
      BY <2>1
    <2>4. Fifo!QueueTypeOK
      BY <2>2 DEF Fifo!QueueTypeOK
    <2> QED
      BY <2>1, <2>2, <2>3, <2>4 DEF TypeOK
  <1>2. OutstandingExact
    BY DEF OutstandingExact, Outstanding
  <1> QED
    BY <1>1, <1>2 DEF CounterInv, FlushBounded, RoomForAll, LoopEndRequested, FlowInv, FifoEmpty

(* The number of outstanding requests follows the bus, whatever the        *)
(* adapter has registered.                                                 *)
LEMMA OutstandingLength ==
  ASSUME bus \in Seq(Word), obi_addr_q \in Word
  PROVE  Len(Outstanding) = Len(bus) + One(obi_state = "REGISTERED")
  <1>1. CASE obi_state = "REGISTERED"
    BY <1>1, AppendProperties DEF Outstanding, One
  <1>2. CASE obi_state # "REGISTERED"
    BY <1>2, LenProperties DEF Outstanding, One
  <1> QED BY <1>1, <1>2

LEMMA BusEdge ==
  ASSUME CounterInv, NEW c \in Input, Cycle(c)
  PROVE  /\ bus' \in Seq(Word) /\ obi_addr_q' \in Word
         /\ obi_state' \in {"TRANSPARENT", "REGISTERED"}
         /\ TransAddr(c) \in Word
         /\ Accepted(c) \in BOOLEAN
         /\ c.resp => bus # <<>> /\ cnt_q > 0 /\ RespData \in Word
         /\ Len(bus') + One(obi_state' = "REGISTERED")
              = (cnt_q + One(Accepted(c))) - One(c.resp)
  <1>1. /\ bus \in Seq(Word) /\ trans_addr_q \in Word /\ obi_addr_q \in Word
        /\ obi_state \in {"TRANSPARENT", "REGISTERED"}
        /\ cnt_q = Len(bus) + One(obi_state = "REGISTERED")
        /\ c.resp \in BOOLEAN /\ c.gnt \in BOOLEAN /\ c.target \in Word
    BY OutstandingLength DEF CounterInv, TypeOK, OutstandingExact, Input
  <1>2. TransAddr(c) \in Word /\ ObiAddr(c) \in Word
    BY <1>1, IncrType DEF TransAddr, ObiAddr
  <1>3. /\ Accepted(c) \in BOOLEAN /\ (Accepted(c) => obi_state = "TRANSPARENT")
        /\ ObiReq(c) <=> (obi_state = "REGISTERED" \/ Accepted(c))
    BY <1>1 DEF ObiReq, Accepted, TransReady
  <1>4. c.resp => bus # <<>>
    BY DEF Cycle, Legal
  <1>5. c.resp => Len(bus) > 0 /\ RespData \in Word
    BY <1>1, <1>4, HeadTailProperties, EmptySeq DEF RespData
  <1>6. /\ bus' \in Seq(Word)
        /\ Len(bus') = (Len(bus) - One(c.resp)) + One(ObiReq(c) /\ c.gnt)
    <2>1. /\ Unanswered(c) \in Seq(Word)
          /\ Len(Unanswered(c)) = Len(bus) - One(c.resp)
      <3>1. CASE c.resp
        BY <3>1, <1>1, <1>4, HeadTailProperties DEF Unanswered, One
      <3>2. CASE ~c.resp
        BY <3>2, <1>1, LenProperties DEF Unanswered, One
      <3> QED BY <3>1, <3>2
    <2>2. CASE ObiReq(c) /\ c.gnt
      <3>1. bus' = Append(Unanswered(c), ObiAddr(c))
        BY <2>2 DEF Cycle, MemoryEdge
      <3> QED
        BY <3>1, <2>1, <2>2, <1>2, AppendProperties DEF One
    <2>3. CASE ~(ObiReq(c) /\ c.gnt)
      <3>1. bus' = Unanswered(c)
        BY <2>3 DEF Cycle, MemoryEdge
      <3> QED
        BY <3>1, <2>1, <2>3, LenProperties DEF One
    <2> QED BY <2>2, <2>3
  <1>7. /\ obi_state' = IF ObiReq(c) /\ ~c.gnt THEN "REGISTERED" ELSE "TRANSPARENT"
        /\ obi_addr_q' \in Word
    BY <1>1, <1>2 DEF Cycle, ObiEdge
  <1>8. Len(bus) \in Nat /\ Len(bus') \in Nat
    BY <1>1, <1>6, LenProperties
  <1>9. Len(bus') + One(obi_state' = "REGISTERED")
              = (cnt_q + One(Accepted(c))) - One(c.resp)
    <2> DEFINE held == One(obi_state = "REGISTERED")
               heldNext == One(obi_state' = "REGISTERED")
               granted == One(ObiReq(c) /\ c.gnt)
               accepted == One(Accepted(c))
               answered == One(c.resp)
    <2>1. granted + heldNext = held + accepted
      BY <1>1, <1>3, <1>7 DEF One
    <2>2. /\ held \in Nat /\ heldNext \in Nat /\ granted \in Nat
          /\ accepted \in Nat /\ answered \in Nat
      BY DEF One
    <2>3. cnt_q = Len(bus) + held /\ Len(bus') = (Len(bus) - answered) + granted
      BY <1>1, <1>6
    <2> HIDE DEF held, heldNext, granted, accepted, answered
    <2>4. Len(bus') + heldNext = (cnt_q + accepted) - answered
      BY <2>1, <2>2, <2>3, <1>8
    <2> QED
      BY <2>4 DEF heldNext, accepted, answered
  <1>10. obi_state' \in {"TRANSPARENT", "REGISTERED"}
    BY <1>7
  <1>11. c.resp => bus # <<>> /\ cnt_q > 0 /\ RespData \in Word
    BY <1>1, <1>4, <1>5, <1>8 DEF One
  <1> QED
    BY <1>2, <1>3, <1>6, <1>7, <1>9, <1>10, <1>11

(* What one cycle does to the number of words in the FIFO. *)
LEMMA FifoEdgeLength ==
  ASSUME CounterInv, NEW c \in Input, Cycle(c)
  PROVE  /\ fifo' \in Seq(Word)
         /\ Len(fifo') =
              IF c.branch THEN 0
              ELSE IF c.hwlp /\ ~FifoEmpty THEN (IF FetchReady(c) THEN 0 ELSE 1)
              ELSE Len(fifo) - One(Pop(c)) + One(Push(c))
  <1>1. /\ fifo \in Seq(Word) /\ Len(fifo) <= DEPTH
        /\ flush_cnt_q \in Nat /\ cnt_q \in Nat /\ hwlp_flush_cnt_delayed_q \in Nat
        /\ hwlp_flush_after_resp \in BOOLEAN
    BY DEF CounterInv, TypeOK, Fifo!QueueTypeOK
  <1>2. fifo' = IF Flush(c) THEN <<>>
           ELSE IF FlushButFirst(c)
                THEN (IF fifo = <<>> THEN <<>> ELSE <<Head(fifo)>>)
                ELSE Fifo!Shifted(Push(c), Pop(c), RespData)
    BY DEF Cycle, FifoEdge, Fifo!Cycle
  <1>3. Push(c) => Len(fifo) < DEPTH /\ RespData \in Word
    <2> SUFFICES ASSUME Push(c) PROVE Len(fifo) < DEPTH /\ RespData \in Word
      OBVIOUS
    <2>1. c.resp /\ flush_cnt_q = 0
      BY <1>1 DEF Push
    <2>2. RespData \in Word /\ cnt_q > 0
      BY <2>1, BusEdge
    <2>3. hwlp_flush_cnt_delayed_q < cnt_q
      BY <2>2, <1>1 DEF CounterInv, FlushBounded, FlowInv
    <2> QED
      BY <2>1, <2>2, <2>3, <1>1, LenProperties DEF CounterInv, RoomForAll
  <1>4. Pop(c) <=> ~FifoEmpty /\ FetchReady(c)
    BY DEF Pop
  <1>5. CASE c.branch
    BY <1>5, <1>2 DEF Flush
  <1>6. CASE ~c.branch /\ c.hwlp /\ ~FifoEmpty
    <2>1. CASE FetchReady(c)
      <3>1. Flush(c)
        BY <2>1, <1>6, <1>4 DEF Flush
      <3>2. fifo' = <<>>
        BY <3>1, <1>2
      <3> QED BY <3>2, <2>1, <1>6
    <2>2. CASE ~FetchReady(c)
      <3>1. ~Flush(c) /\ FlushButFirst(c) /\ fifo # <<>>
        BY <2>2, <1>6, <1>4 DEF Flush, FlushButFirst, FifoEmpty
      <3>2. Head(fifo) \in Word
        BY <3>1, <1>1
      <3> QED
        BY <2>2, <1>6, <3>1, <3>2, <1>2
    <2> QED BY <2>1, <2>2
  <1>7. CASE ~c.branch /\ ~(c.hwlp /\ ~FifoEmpty)
    <2>1. fifo' = IF Push(c) THEN Append(Fifo!Popped(Pop(c)), RespData)
                  ELSE Fifo!Popped(Pop(c))
      BY <1>7, <1>2, <1>3 DEF Flush, FlushButFirst, Fifo!Shifted
    <2>2. /\ Fifo!Popped(Pop(c)) \in Seq(Word)
          /\ Len(Fifo!Popped(Pop(c))) = Len(fifo) - One(Pop(c))
      <3>1. CASE Pop(c)
        <4>1. Fifo!Popped(Pop(c)) = Tail(fifo) /\ fifo # <<>>
          BY <3>1, <1>4 DEF Fifo!Popped, FifoEmpty
        <4> QED BY <4>1, <3>1, <1>1, HeadTailProperties DEF One
      <3>2. CASE ~Pop(c)
        BY <3>2, <1>1, LenProperties DEF Fifo!Popped, One
      <3> QED BY <3>1, <3>2
    <2>3. CASE Push(c)
      <3>1. fifo' = Append(Fifo!Popped(Pop(c)), RespData)
        BY <2>3, <2>1
      <3> QED BY <3>1, <2>2, <2>3, <1>3, <1>7, AppendProperties DEF One
    <2>4. CASE ~Push(c)
      <3>1. fifo' = Fifo!Popped(Pop(c))
        BY <2>4, <2>1
      <3>2. One(Push(c)) = 0 /\ One(Pop(c)) \in Nat /\ Len(fifo) \in Nat
        BY <2>4, <1>1, LenProperties DEF One
      <3> QED BY <3>1, <3>2, <2>2, <1>7
    <2> QED BY <2>3, <2>4
  <1> QED BY <1>5, <1>6, <1>7

(* The registers and wires of a cycle that the counters depend on. *)
LEMMA CounterTypes ==
  ASSUME CounterInv, NEW c \in Input, Cycle(c)
  PROVE  /\ cnt_q \in Nat /\ flush_cnt_q \in Nat /\ hwlp_flush_cnt_delayed_q \in Nat
         /\ Len(fifo) \in Nat /\ (FifoEmpty <=> Len(fifo) = 0)
         /\ cnt_q <= DEPTH /\ flush_cnt_q <= cnt_q
         /\ hwlp_flush_after_resp \in BOOLEAN /\ hwlp_update_pc_q \in BOOLEAN
         /\ c.branch \in BOOLEAN /\ c.hwlp \in BOOLEAN /\ c.resp \in BOOLEAN
         /\ c.req \in BOOLEAN
         /\ c.resp => cnt_q > 0
         /\ c.hwlp => /\ ~c.branch /\ run = "flow" /\ ~hwlp_update_pc_q
                      /\ ~hwlp_flush_after_resp /\ flush_cnt_q = 0
                      /\ hwlp_flush_cnt_delayed_q = 0
                      /\ (FifoEmpty => cnt_q > 0)
         /\ Accepted(c) => cnt_q < DEPTH
         /\ Accepted(c) /\ ~c.branch /\ ~c.hwlp => Len(fifo) + cnt_q < DEPTH
         /\ FetchReady(c) => /\ ~c.branch /\ c.req /\ flush_cnt_q = 0
                             /\ (~FifoEmpty \/ c.resp)
  <1>1. /\ cnt_q \in Nat /\ flush_cnt_q \in Nat /\ hwlp_flush_cnt_delayed_q \in Nat
        /\ cnt_q <= DEPTH /\ flush_cnt_q <= cnt_q
        /\ hwlp_flush_after_resp \in BOOLEAN /\ hwlp_update_pc_q \in BOOLEAN
    BY DEF CounterInv, TypeOK, FlushBounded
  <1>2. Len(fifo) \in Nat /\ (FifoEmpty <=> Len(fifo) = 0)
    BY EmptySeq, LenProperties DEF CounterInv, TypeOK, Fifo!QueueTypeOK, FifoEmpty
  <1>3. /\ c.branch \in BOOLEAN /\ c.hwlp \in BOOLEAN /\ c.resp \in BOOLEAN
        /\ c.req \in BOOLEAN
    BY DEF Input
  <1>4. c.resp => cnt_q > 0
    BY BusEdge
  <1>5. c.hwlp => ~c.branch /\ run = "flow" /\ ~hwlp_update_pc_q
    BY DEF Cycle, Legal
  <1>6. c.hwlp => /\ ~hwlp_flush_after_resp /\ flush_cnt_q = 0
                  /\ hwlp_flush_cnt_delayed_q = 0
                  /\ (FifoEmpty => cnt_q > 0)
    BY <1>5 DEF CounterInv, FlushBounded, FlowInv, LoopEndRequested
  <1>7. Accepted(c) => FifoCntMasked(c) + cnt_q < DEPTH
    BY DEF Accepted, TransValid
  <1>8. FifoCntMasked(c) \in Nat
    BY <1>2 DEF FifoCntMasked
  <1>9. /\ Accepted(c) => cnt_q < DEPTH
        /\ Accepted(c) /\ ~c.branch /\ ~c.hwlp => Len(fifo) + cnt_q < DEPTH
    BY <1>1, <1>7, <1>8 DEF FifoCntMasked
  <1>10. FetchReady(c) => /\ ~c.branch /\ c.req /\ flush_cnt_q = 0
                          /\ (~FifoEmpty \/ c.resp)
    BY <1>1 DEF FetchReady, FetchValid
  <1> QED
    BY <1>1, <1>2, <1>3, <1>4, <1>5, <1>6, <1>9, <1>10

(* The registers that decide which answers are dropped, after one cycle.   *)
LEMMA FlushEdge ==
  ASSUME CounterInv, NEW c \in Input, Cycle(c)
  PROVE  /\ cnt_q' = (cnt_q + One(Accepted(c))) - One(c.resp)
         /\ c.branch \/ (c.hwlp /\ ~(FifoEmpty /\ ~c.resp)) =>
              /\ flush_cnt_q' = cnt_q - One(c.resp)
              /\ hwlp_flush_after_resp' = FALSE /\ hwlp_flush_cnt_delayed_q' = 0
         /\ c.hwlp /\ FifoEmpty /\ ~c.resp =>
              /\ flush_cnt_q' = 0
              /\ hwlp_flush_after_resp' = TRUE /\ hwlp_flush_cnt_delayed_q' = cnt_q - 1
         /\ ~c.branch /\ ~c.hwlp /\ hwlp_flush_after_resp /\ c.resp =>
              /\ flush_cnt_q' = hwlp_flush_cnt_delayed_q
              /\ hwlp_flush_after_resp' = FALSE /\ hwlp_flush_cnt_delayed_q' = 0
         /\ ~c.branch /\ ~c.hwlp /\ ~(hwlp_flush_after_resp /\ c.resp) =>
              /\ flush_cnt_q' = IF c.resp /\ flush_cnt_q > 0
                                THEN flush_cnt_q - 1 ELSE flush_cnt_q
              /\ hwlp_flush_after_resp' = hwlp_flush_after_resp
              /\ hwlp_flush_cnt_delayed_q' = hwlp_flush_cnt_delayed_q
  <1> USE CounterTypes
  <1>1. cnt_q' = (cnt_q + One(Accepted(c))) - One(c.resp)
    BY DEF Cycle, ControllerEdge, One
  <1>2. flush_cnt_q' = NextFlushCnt(c) /\ HwlpFlushEdge(c)
    BY DEF Cycle, ControllerEdge
  <1>3. ASSUME c.branch \/ (c.hwlp /\ ~(FifoEmpty /\ ~c.resp))
        PROVE  /\ flush_cnt_q' = cnt_q - One(c.resp)
               /\ hwlp_flush_after_resp' = FALSE /\ hwlp_flush_cnt_delayed_q' = 0
    <2>1. flush_cnt_q' = cnt_q - One(c.resp)
      BY <1>2, <1>3 DEF NextFlushCnt, HwlpFlushResp, One
    <2>2. CASE c.branch
      BY <1>2, <2>1, <2>2 DEF HwlpFlushEdge
    <2>3. CASE ~c.branch
      BY <1>2, <1>3, <2>1, <2>3
         DEF HwlpFlushEdge, HwlpFlushRespDelayed, HwlpWaitRespFlush, CounterInv, FlowInv
    <2> QED BY <2>2, <2>3
  <1>4. ASSUME c.hwlp, FifoEmpty, ~c.resp
        PROVE  /\ flush_cnt_q' = 0
               /\ hwlp_flush_after_resp' = TRUE /\ hwlp_flush_cnt_delayed_q' = cnt_q - 1
    BY <1>2, <1>4 DEF NextFlushCnt, HwlpFlushResp, HwlpFlushEdge, HwlpFlushRespDelayed,
                      HwlpWaitRespFlush
  <1>5. ASSUME ~c.branch, ~c.hwlp, hwlp_flush_after_resp, c.resp
        PROVE  /\ flush_cnt_q' = hwlp_flush_cnt_delayed_q
               /\ hwlp_flush_after_resp' = FALSE /\ hwlp_flush_cnt_delayed_q' = 0
    BY <1>2, <1>5 DEF NextFlushCnt, HwlpFlushResp, HwlpFlushEdge, HwlpFlushRespDelayed,
                      HwlpWaitRespFlush
  <1>6. ASSUME ~c.branch, ~c.hwlp, ~(hwlp_flush_after_resp /\ c.resp)
        PROVE  /\ flush_cnt_q' = IF c.resp /\ flush_cnt_q > 0
                                 THEN flush_cnt_q - 1 ELSE flush_cnt_q
               /\ hwlp_flush_after_resp' = hwlp_flush_after_resp
               /\ hwlp_flush_cnt_delayed_q' = hwlp_flush_cnt_delayed_q
    BY <1>2, <1>6 DEF NextFlushCnt, HwlpFlushResp, HwlpFlushEdge, HwlpFlushRespDelayed,
                      HwlpWaitRespFlush
  <1> QED
    BY <1>1, <1>3, <1>4, <1>5, <1>6

(* The fetch stage's registers, after one cycle. *)
LEMMA FetchEdgeFacts ==
  ASSUME CounterInv, NEW c \in Input, Cycle(c)
  PROVE  /\ run' = IF c.branch THEN "refill"
                   ELSE IF FetchReady(c)
                   THEN IF c.hwlp \/ hwlp_update_pc_q THEN "refill" ELSE "flow"
                   ELSE run
         /\ hwlp_update_pc_q' <=> /\ ~c.branch /\ ~FetchReady(c)
                                  /\ hwlp_update_pc_q \/ c.hwlp
  BY DEF Cycle, FetchEdge

(* A cycle in which a loop jump or a branch is given, or neither: the      *)
(* counters stay in step with each other and with the FIFO.                *)
LEMMA CounterStepArith ==
  ASSUME CounterInv, NEW c \in Input, Cycle(c)
  PROVE  /\ cnt_q' \in 0 .. DEPTH
         /\ flush_cnt_q' \in 0 .. DEPTH /\ hwlp_flush_cnt_delayed_q' \in 0 .. DEPTH
         /\ hwlp_flush_after_resp' \in BOOLEAN
         /\ Len(fifo') \in 0 .. DEPTH
         /\ FlushBounded' /\ RoomForAll' /\ FlowInv'
  <1> DEFINE l == Len(fifo)
             lNext == Len(fifo')
             acc == One(Accepted(c))
             ans == One(c.resp)
             pop == One(Pop(c))
             push == One(Push(c))
             cntNext == cnt_q'
             flNext == flush_cnt_q'
             delNext == hwlp_flush_cnt_delayed_q'
             aftNext == hwlp_flush_after_resp'
  <1>0. /\ cnt_q \in Nat /\ flush_cnt_q \in Nat /\ hwlp_flush_cnt_delayed_q \in Nat
        /\ cnt_q <= DEPTH /\ flush_cnt_q <= cnt_q /\ DEPTH \in Nat /\ DEPTH > 1
        /\ hwlp_flush_after_resp \in BOOLEAN
        /\ Accepted(c) => cnt_q < DEPTH
    BY CounterTypes
  <1>1. /\ acc \in {0, 1} /\ ans \in {0, 1} /\ pop \in {0, 1} /\ push \in {0, 1}
        /\ acc = 1 <=> Accepted(c)
        /\ ans = 1 <=> c.resp
        /\ pop = 1 <=> ~FifoEmpty /\ FetchReady(c)
        /\ push = 1 <=> c.resp /\ (~FifoEmpty \/ ~FetchReady(c)) /\ ~c.branch /\ flush_cnt_q = 0
    BY CounterTypes DEF One, Push, Pop
  <1>2. /\ l \in Nat /\ (FifoEmpty <=> l = 0)
        /\ lNext = IF c.branch THEN 0
                   ELSE IF c.hwlp /\ ~FifoEmpty THEN (IF FetchReady(c) THEN 0 ELSE 1)
                   ELSE l - pop + push
    BY FifoEdgeLength, CounterTypes
  <1>3. cntNext = (cnt_q + acc) - ans
    BY FlushEdge
  <1>4. FifoEmpty' <=> lNext = 0
    BY FifoEdgeLength, EmptySeq DEF FifoEmpty
  <1>5. /\ hwlp_flush_after_resp =>
             /\ hwlp_flush_cnt_delayed_q < cnt_q
             /\ flush_cnt_q = 0 /\ FifoEmpty /\ hwlp_update_pc_q
        /\ (l + cnt_q) - (flush_cnt_q + hwlp_flush_cnt_delayed_q) <= DEPTH
        /\ run = "flow" /\ ~hwlp_update_pc_q => flush_cnt_q = 0
        /\ run = "flow" /\ flush_cnt_q > 0 => ~FifoEmpty
        /\ ~hwlp_flush_after_resp => hwlp_flush_cnt_delayed_q = 0
    BY <1>0 DEF CounterInv, FlushBounded, RoomForAll, FlowInv
  <1> DEFINE Goal ==
        /\ flNext \in Nat /\ delNext \in Nat
        /\ aftNext \in BOOLEAN
        /\ flNext <= cntNext
        /\ aftNext =>
             /\ delNext < cntNext
             /\ flNext = 0 /\ lNext = 0 /\ hwlp_update_pc_q'
        /\ (lNext + cntNext) - (flNext + delNext) <= DEPTH
        /\ run' = "flow" /\ ~hwlp_update_pc_q' => flNext = 0
        /\ run' = "flow" /\ flNext > 0 => lNext # 0
        /\ ~aftNext => delNext = 0
  <1> HIDE DEF l, lNext, acc, ans, pop, push, cntNext, flNext, delNext, aftNext
  <1>6. ans = 1 => cnt_q > 0
    BY <1>1, CounterTypes
  <1>7. ASSUME c.branch
        PROVE  Goal
    <2>1. /\ flNext = cnt_q - ans /\ ~aftNext /\ aftNext \in BOOLEAN
          /\ delNext = 0 /\ lNext = 0 /\ run' = "refill"
      BY <1>7, <1>2, FlushEdge, FetchEdgeFacts DEF ans, flNext, delNext, aftNext
    <2> QED
      BY <2>1, <1>0, <1>1, <1>3, <1>6
  <1>8. ASSUME c.hwlp /\ ~(FifoEmpty /\ ~c.resp)
        PROVE  Goal
    <2>1. /\ flNext = cnt_q - ans /\ ~aftNext /\ aftNext \in BOOLEAN
          /\ delNext = 0
      BY <1>8, FlushEdge DEF ans, flNext, delNext, aftNext
    <2>2. lNext \in {0, 1} /\ (lNext = 0 <=> FetchReady(c))
      <3>1. CASE FifoEmpty
        BY <3>1, <1>1, <1>2, <1>8, CounterTypes
      <3>2. CASE ~FifoEmpty
        BY <3>2, <1>1, <1>2, <1>8, CounterTypes
      <3> QED BY <3>1, <3>2
    <2>3. run' = "flow" => ~FetchReady(c) /\ hwlp_update_pc_q'
      BY <1>8, CounterTypes, FetchEdgeFacts
    <2> QED
      BY <2>1, <2>2, <2>3, <1>0, <1>1, <1>3, <1>6
  <1>9. ASSUME c.hwlp /\ FifoEmpty /\ ~c.resp
        PROVE  Goal
    <2>1. /\ flNext = 0 /\ aftNext /\ aftNext \in BOOLEAN
          /\ delNext = cnt_q - 1 /\ cnt_q > 0
      BY <1>9, FlushEdge, CounterTypes DEF flNext, delNext, aftNext
    <2>2. lNext = 0 /\ ans = 0 /\ hwlp_update_pc_q'
      BY <1>1, <1>2, <1>9, CounterTypes, FetchEdgeFacts
    <2> QED
      BY <2>1, <2>2, <1>0, <1>1, <1>3
  <1>10. ASSUME ~c.branch /\ ~c.hwlp /\ hwlp_flush_after_resp /\ c.resp
        PROVE  Goal
    <2>1. /\ flNext = hwlp_flush_cnt_delayed_q /\ ~aftNext /\ aftNext \in BOOLEAN
          /\ delNext = 0
      BY <1>10, FlushEdge DEF flNext, delNext, aftNext
    <2>2. l = 0 /\ flush_cnt_q = 0 /\ lNext \in {0, 1} /\ (lNext = 0 <=> FetchReady(c)) /\ ans = 1
      BY <1>1, <1>2, <1>5, <1>10
    <2>3. run' = "flow" => ~FetchReady(c) /\ hwlp_update_pc_q'
      BY <1>5, <1>10, FetchEdgeFacts
    <2>4. acc = 1 => l + cnt_q < DEPTH
      BY <1>1, <1>10, CounterTypes DEF l
    <2> QED
      BY <2>1, <2>2, <2>3, <2>4, <1>0, <1>1, <1>3, <1>5, <1>6
  <1>11. ASSUME ~c.branch /\ ~c.hwlp /\ ~(hwlp_flush_after_resp /\ c.resp)
        PROVE  Goal
    <2>1. /\ flNext = IF ans = 1 /\ flush_cnt_q > 0 THEN flush_cnt_q - 1 ELSE flush_cnt_q
          /\ aftNext = hwlp_flush_after_resp
          /\ delNext = hwlp_flush_cnt_delayed_q
      BY <1>1, <1>11, FlushEdge DEF flNext, delNext, aftNext
    <2>2. lNext = l - pop + push
      BY <1>2, <1>11
    <2>3. acc = 1 => l + cnt_q < DEPTH
      BY <1>1, <1>11, CounterTypes DEF l
    <2>4. hwlp_flush_after_resp => ans = 0 /\ ~FetchReady(c)
      BY <1>1, <1>5, <1>11, CounterTypes
    <2>5. pop = 1 => l > 0 /\ FetchReady(c)
      BY <1>1, <1>2
    <2>6. push = 1 => ans = 1 /\ flush_cnt_q = 0
      BY <1>1
    <2>7. ans = 1 /\ flush_cnt_q = 0 /\ push = 0 => pop = 0 /\ l = 0
      BY <1>1, <1>2, <1>11
    <2>8. run' = "flow" => \/ FetchReady(c) /\ flush_cnt_q = 0
                           \/ ~FetchReady(c) /\ run = "flow"
      BY <1>11, CounterTypes, FetchEdgeFacts
    <2>9. hwlp_update_pc_q' <=> ~FetchReady(c) /\ hwlp_update_pc_q
      BY <1>11, FetchEdgeFacts
    <2> QED
      BY <2>1, <2>2, <2>3, <2>4, <2>5, <2>6, <2>7, <2>8, <2>9, <1>0, <1>1, <1>2, <1>3, <1>5, <1>6
  <1>12. Goal
    BY <1>7, <1>8, <1>9, <1>10, <1>11, CounterTypes
  <1>13. cntNext \in Nat /\ cntNext <= DEPTH
    BY <1>0, <1>1, <1>3, <1>6
  <1>14. flNext <= DEPTH /\ delNext <= DEPTH
    BY <1>0, <1>12, <1>13
  <1>15. lNext \in Nat /\ lNext <= DEPTH
    <2>1. lNext \in Nat
      BY FifoEdgeLength, LenProperties DEF lNext
    <2>2. flNext + delNext <= cntNext
      BY <1>12, <1>13
    <2> QED
      BY <1>0, <1>12, <1>13, <2>1, <2>2
  <1>17. RoomForAll'
    <2>1. (lNext + cntNext) - (flNext + delNext) <= DEPTH
      BY <1>12
    <2> QED
      BY <2>1 DEF RoomForAll, lNext, cntNext, flNext, delNext
  <1> USE DEF lNext, cntNext, flNext, delNext, aftNext
  <1>16. FlushBounded'
    BY <1>4, <1>12 DEF FlushBounded
  <1>18. FlowInv'
    BY <1>4, <1>12 DEF FlowInv
  <1> QED
    BY <1>0, <1>12, <1>13, <1>14, <1>15, <1>16, <1>17, <1>18

(* After a word has been taken, HWLP_END is requested or in the FIFO.      *)
LEMMA LoopEndStep ==
  ASSUME CounterInv, NEW c \in Input, Cycle(c)
  PROVE  LoopEndRequested'
  <1> DEFINE l == Len(fifo)
             lNext == Len(fifo')
             acc == One(Accepted(c))
             ans == One(c.resp)
             pop == One(Pop(c))
             push == One(Push(c))
             cntNext == cnt_q'
  <1>0. /\ cnt_q \in Nat /\ flush_cnt_q \in Nat /\ DEPTH \in Nat /\ DEPTH > 1
        /\ l \in Nat /\ (FifoEmpty <=> l = 0)
    BY CounterTypes
  <1>1. /\ acc \in {0, 1} /\ ans \in {0, 1} /\ pop \in {0, 1} /\ push \in {0, 1}
        /\ acc = 1 <=> Accepted(c)
        /\ ans = 1 <=> c.resp
        /\ pop = 1 <=> ~FifoEmpty /\ FetchReady(c)
        /\ push = 1 <=> c.resp /\ (~FifoEmpty \/ ~FetchReady(c)) /\ ~c.branch /\ flush_cnt_q = 0
    BY CounterTypes DEF One, Push, Pop
  <1>2. /\ cntNext = (cnt_q + acc) - ans
        /\ lNext = IF c.branch THEN 0
                   ELSE IF c.hwlp /\ ~FifoEmpty THEN (IF FetchReady(c) THEN 0 ELSE 1)
                   ELSE l - pop + push
    BY FifoEdgeLength, FlushEdge
  <1>3. FifoEmpty' <=> lNext = 0
    BY FifoEdgeLength, EmptySeq DEF FifoEmpty
  <1>4. ans = 1 => cnt_q > 0
    BY <1>1, CounterTypes
  <1> DEFINE Goal == cntNext > 0 \/ lNext # 0
  <1>5. ASSUME FetchReady(c), ~c.hwlp
        PROVE  (cnt_q + acc) - ans > 0 \/ lNext # 0
    <2>1. /\ ~c.branch /\ c.req /\ flush_cnt_q = 0 /\ (~FifoEmpty \/ c.resp)
      BY <1>5, CounterTypes
    <2>2. CASE Accepted(c)
      <3> HIDE DEF l, lNext, acc, ans, pop, push, cntNext
      <3> QED BY <2>2, <1>0, <1>1, <1>4
    <2>3. CASE ~TransReady
      <3>1. cnt_q = Len(bus) + 1
        BY <2>3, OutstandingLength DEF CounterInv, TypeOK, OutstandingExact, TransReady, One
      <3>2. Len(bus) \in Nat /\ (c.resp => Len(bus) > 0)
        BY BusEdge, EmptySeq, LenProperties DEF CounterInv, TypeOK
      <3> HIDE DEF l, lNext, acc, ans, pop, push, cntNext
      <3> QED BY <3>1, <3>2, <1>0, <1>1
    <2>4. CASE ~Accepted(c) /\ TransReady
      <3>1. ~TransValid(c)
        BY <2>4 DEF Accepted
      <3>2. FifoCntMasked(c) = l
        BY <2>1, <1>5 DEF FifoCntMasked
      <3>3. ~(l + cnt_q < DEPTH) \/ (cnt_q # 0 /\ ~c.resp)
        BY <3>1, <3>2, <2>1 DEF TransValid
      <3> HIDE DEF l, lNext, acc, ans, pop, push, cntNext
      <3> QED BY <3>3, <2>1, <1>0, <1>1, <1>2, <1>4, <1>5
    <2> QED BY <2>2, <2>3, <2>4
  <1>6. ASSUME ~FetchReady(c), ~c.branch, run = "flow"
        PROVE  (cnt_q + acc) - ans > 0 \/ lNext # 0
    <2>1. cnt_q > 0 \/ l # 0
      BY <1>0, <1>6 DEF CounterInv, LoopEndRequested
    <2>2. flush_cnt_q > 0 => l # 0
      BY <1>0, <1>6 DEF CounterInv, FlowInv
    <2> HIDE DEF l, lNext, acc, ans, pop, push, cntNext
    <2> QED
      BY <2>1, <2>2, <1>0, <1>1, <1>2, <1>4, <1>6
  <1>7. run' = "flow" => \/ FetchReady(c) /\ ~c.hwlp
                         \/ ~FetchReady(c) /\ ~c.branch /\ run = "flow"
    BY FetchEdgeFacts, CounterTypes
  <1>8. run' = "flow" => Goal
    BY <1>2, <1>5, <1>6, <1>7
  <1> QED
    BY <1>3, <1>8 DEF LoopEndRequested

(* The other registers keep their types. *)
LEMMA TypeStep ==
  ASSUME CounterInv, NEW c \in Input, Cycle(c)
  PROVE  TypeOK'
  <1>0. /\ TypeOK /\ c.target \in Word /\ c.branch \in BOOLEAN /\ c.hwlp \in BOOLEAN
    BY DEF CounterInv, Input
  <1>1. TransAddr(c) \in Word /\ Accepted(c) \in BOOLEAN
    BY BusEdge
  <1>2. state_q' \in {"IDLE", "BRANCH_WAIT"} /\ trans_addr_q' \in Word
    BY <1>0, <1>1 DEF Cycle, ControllerEdge, TypeOK
  <1>3. Fifo!QueueTypeOK'
    BY FifoEdgeLength, CounterStepArith DEF Fifo!QueueTypeOK
  <1>4. Incr(pc) \in Word
    BY <1>0, IncrType DEF TypeOK
  <1>5. /\ run' \in {"reset", "refill", "flow"} /\ pc' \in Word
        /\ hwlp_addr_q' \in Word
    BY <1>0, <1>4 DEF Cycle, FetchEdge, TypeOK
  <1>6. hwlp_update_pc_q' \in BOOLEAN
    BY DEF Cycle, FetchEdge
  <1>7. FetchReady(c) => FetchData \in Word
    <2>1. FifoEmpty \/ Head(fifo) \in Word
      BY <1>0, HeadTailProperties DEF TypeOK, Fifo!QueueTypeOK, FifoEmpty
    <2>2. FetchReady(c) => ~FifoEmpty \/ RespData \in Word
      BY BusEdge, CounterTypes
    <2> QED BY <2>1, <2>2 DEF FetchData
  <1>8. taken' \in Word
    BY <1>0, <1>7 DEF Cycle, FetchEdge, TypeOK
  <1> QED
    BY <1>2, <1>3, <1>5, <1>6, <1>8, BusEdge, CounterStepArith DEF TypeOK

LEMMA OutstandingStep ==
  ASSUME CounterInv, NEW c \in Input, Cycle(c)
  PROVE  OutstandingExact'
  <1>1. Len(bus') + One(obi_state' = "REGISTERED") = cnt_q'
    BY BusEdge, FlushEdge
  <1>2. Len(Outstanding') = Len(bus') + One(obi_state' = "REGISTERED")
    <2>1. CASE obi_state' = "REGISTERED"
      BY <2>1, BusEdge, AppendProperties DEF Outstanding, One
    <2>2. CASE obi_state' # "REGISTERED"
      BY <2>2, BusEdge, LenProperties DEF Outstanding, One
    <2> QED BY <2>1, <2>2
  <1> QED
    BY <1>1, <1>2 DEF OutstandingExact

(* Every clock cycle preserves the invariant. *)
LEMMA CycleInv ==
  ASSUME CounterInv, NEW c \in Input, Cycle(c)
  PROVE  CounterInv'
  BY CounterStepArith, LoopEndStep, TypeStep, OutstandingStep DEF CounterInv

LEMMA StutterInv == CounterInv /\ UNCHANGED vars => CounterInv'
  <1> SUFFICES ASSUME CounterInv, UNCHANGED vars PROVE CounterInv'
    OBVIOUS
  <1> USE DEF vars, ctrlVars, obiVars, fetchVars
  <1>1. TypeOK'
    BY DEF CounterInv, TypeOK, Fifo!QueueTypeOK
  <1>2. OutstandingExact'
    BY DEF CounterInv, OutstandingExact, Outstanding
  <1>3. FlushBounded' /\ RoomForAll' /\ LoopEndRequested' /\ FlowInv'
    BY DEF CounterInv, FlushBounded, RoomForAll, LoopEndRequested, FlowInv, FifoEmpty
  <1> QED
    BY <1>1, <1>2, <1>3 DEF CounterInv

LEMMA NextInv == CounterInv /\ [Next]_vars => CounterInv'
  <1> SUFFICES ASSUME CounterInv, [Next]_vars PROVE CounterInv'
    OBVIOUS
  <1>1. CASE Branch
    BY <1>1, CycleInv DEF Branch
  <1>2. CASE LoopJump
    BY <1>2, CycleInv DEF LoopJump
  <1>3. CASE Fetch
    BY <1>3, CycleInv DEF Fetch
  <1>4. CASE UNCHANGED vars
    BY <1>4, StutterInv
  <1> QED
    BY <1>1, <1>2, <1>3, <1>4 DEF Next

(* The counters of the prefetcher are exact in every reachable state. *)
THEOREM CountersCorrect == Spec => []CounterInv
  <1> QED
    BY InitCounterInv, NextInv, PTL DEF Spec

(* Every variable keeps its type; in particular the FIFO never holds more  *)
(* than DEPTH words and no counter leaves 0 .. DEPTH.                      *)
THEOREM TypeCorrect == Spec => []TypeOK
  <1>1. CounterInv => TypeOK
    BY DEF CounterInv
  <1> QED BY <1>1, CountersCorrect, PTL

(* cnt_q counts exactly the requests the bus owes an answer for, whatever  *)
(* the interleaving of grants, answers and redirects.                      *)
THEOREM OutstandingCorrect == Spec => []OutstandingExact
  <1>1. CounterInv => OutstandingExact
    BY DEF CounterInv
  <1> QED BY <1>1, CountersCorrect, PTL

(* No redirect ever marks more answers to be dropped than are outstanding, *)
(* and never by both counters at once.                                     *)
THEOREM FlushCorrect == Spec => []FlushBounded
  <1>1. CounterInv => FlushBounded
    BY DEF CounterInv
  <1> QED BY <1>1, CountersCorrect, PTL

(* No answer that has to be kept ever finds the FIFO full. *)
THEOREM RoomCorrect == Spec => []RoomForAll
  <1>1. CounterInv => RoomForAll
    BY DEF CounterInv
  <1> QED BY <1>1, CountersCorrect, PTL

(* In every cycle in which a hardware loop may jump, HWLP_END is requested *)
(* or buffered: the assertion of the SVA file holds for every DEPTH > 1.   *)
THEOREM LoopEndCorrect == Spec => []LoopEndRequested
  <1>1. CounterInv => LoopEndRequested
    BY DEF CounterInv
  <1> QED BY <1>1, CountersCorrect, PTL

-----------------------------------------------------------------------------
(* The words ahead of the fetch stage *)

(* Outstanding requests stay in order: an answer removes the oldest, an    *)
(* accepted request joins at the end.                                      *)
LEMMA OutstandingEdge ==
  ASSUME CounterInv, NEW c \in Input, Cycle(c)
  PROVE  /\ Outstanding \in Seq(Word) /\ Len(Outstanding) = cnt_q
         /\ c.resp => RespData = Outstanding[1]
         /\ \A i \in 1 .. cnt_q' :
              Outstanding'[i] = IF i <= cnt_q - One(c.resp)
                                THEN Outstanding[i + One(c.resp)] ELSE TransAddr(c)
  <1> DEFINE ans == One(c.resp)
             held == One(obi_state = "REGISTERED")
             heldNext == One(obi_state' = "REGISTERED")
             acc == One(Accepted(c))
             n == Len(bus)
  <1>1. /\ bus \in Seq(Word) /\ obi_addr_q \in Word /\ n \in Nat
        /\ obi_state \in {"TRANSPARENT", "REGISTERED"}
        /\ cnt_q = n + held
        /\ c.resp \in BOOLEAN /\ c.gnt \in BOOLEAN
    BY OutstandingLength, LenProperties DEF CounterInv, TypeOK, OutstandingExact, Input
  <1>2. /\ Accepted(c) \in BOOLEAN /\ (Accepted(c) => obi_state = "TRANSPARENT")
        /\ ObiReq(c) <=> (obi_state = "REGISTERED" \/ Accepted(c))
        /\ ObiAddr(c) = IF obi_state = "REGISTERED" THEN obi_addr_q ELSE TransAddr(c)
        /\ ObiAddr(c) \in Word
    BY <1>1, BusEdge DEF ObiReq, ObiAddr, Accepted, TransReady
  <1>3. /\ Outstanding \in Seq(Word) /\ Len(Outstanding) = cnt_q
        /\ \A i \in 1 .. n : Outstanding[i] = bus[i]
        /\ held = 1 => Outstanding[n + 1] = obi_addr_q
    <2>1. CASE obi_state = "REGISTERED"
      BY <2>1, <1>1, AppendProperties DEF Outstanding, One
    <2>2. CASE obi_state # "REGISTERED"
      BY <2>2, <1>1 DEF Outstanding, One
    <2> QED BY <2>1, <2>2
  <1>4. /\ Unanswered(c) \in Seq(Word) /\ Len(Unanswered(c)) = n - ans
        /\ \A i \in 1 .. n - ans : Unanswered(c)[i] = bus[i + ans]
    <2>1. CASE c.resp
      <3>1. bus # <<>>
        BY <2>1, BusEdge
      <3> QED
        BY <2>1, <3>1, <1>1, HeadTailProperties DEF Unanswered, One
    <2>2. CASE ~c.resp
      BY <2>2, <1>1 DEF Unanswered, One
    <2> QED BY <2>1, <2>2, <1>1
  <1>5. c.resp => n > 0 /\ RespData = bus[1]
    BY <1>1, BusEdge, EmptySeq DEF RespData
  <1>6. c.resp => RespData = Outstanding[1]
    BY <1>1, <1>3, <1>5
  <1>7. /\ obi_state' = IF ObiReq(c) /\ ~c.gnt THEN "REGISTERED" ELSE "TRANSPARENT"
        /\ obi_addr_q' = IF ObiReq(c) /\ ~c.gnt THEN ObiAddr(c) ELSE obi_addr_q
        /\ bus' = IF ObiReq(c) /\ c.gnt THEN Append(Unanswered(c), ObiAddr(c))
                  ELSE Unanswered(c)
    BY DEF Cycle, ObiEdge, MemoryEdge
  <1>8. Outstanding' = IF ObiReq(c) THEN Append(Unanswered(c), ObiAddr(c)) ELSE Unanswered(c)
    <2>1. Outstanding' = IF obi_state' = "REGISTERED" THEN Append(bus', obi_addr_q') ELSE bus'
      BY DEF Outstanding
    <2> QED BY <2>1, <1>1, <1>7
  <1>9. cnt_q' = (cnt_q + acc) - ans
    BY FlushEdge
  <1>10. /\ \A i \in 1 .. n - ans : Outstanding'[i] = bus[i + ans]
         /\ ObiReq(c) => Outstanding'[n - ans + 1] = ObiAddr(c)
    <2>1. CASE ObiReq(c)
      BY <2>1, <1>1, <1>2, <1>4, <1>8, AppendProperties
    <2>2. CASE ~ObiReq(c)
      BY <2>2, <1>4, <1>8
    <2> QED BY <2>1, <2>2
  <1>11. ASSUME NEW i \in 1 .. cnt_q'
         PROVE  Outstanding'[i] = IF i <= cnt_q - ans
                                  THEN Outstanding[i + ans] ELSE TransAddr(c)
    <2>0. /\ ans \in {0, 1} /\ held \in {0, 1} /\ acc \in {0, 1} /\ (ans = 1 => n > 0)
          /\ acc = 1 <=> Accepted(c)
          /\ held = 1 <=> obi_state = "REGISTERED"
      BY <1>1, <1>2, <1>5 DEF One
    <2> HIDE DEF ans, held, acc, n
    <2>1. CASE i <= n - ans
      <3>1. i \in 1 .. n - ans /\ i + ans \in 1 .. n /\ i <= cnt_q - ans
        BY <2>0, <2>1, <1>1, <1>9
      <3> QED BY <3>1, <1>3, <1>10
    <2>2. CASE ~(i <= n - ans)
      <3>1. i = (n - ans) + 1 /\ (held = 1 \/ acc = 1) /\ (acc = 1 => held = 0)
        BY <2>0, <2>2, <1>1, <1>2, <1>9
      <3>2. CASE held = 1
        <4>1. i <= cnt_q - ans /\ i + ans = n + 1 /\ ObiReq(c) /\ ObiAddr(c) = obi_addr_q
          BY <3>1, <3>2, <2>0, <1>1, <1>2
        <4> QED BY <4>1, <3>1, <3>2, <1>3, <1>10
      <3>3. CASE acc = 1
        <4>1. ~(i <= cnt_q - ans) /\ ObiReq(c) /\ ObiAddr(c) = TransAddr(c)
          BY <3>1, <3>3, <2>0, <1>1, <1>2
        <4> QED BY <4>1, <3>1, <1>10
      <3> QED BY <3>1, <3>2, <3>3
    <2> QED BY <2>1, <2>2
  <1> QED
    BY <1>3, <1>6, <1>11

(* The words the FIFO keeps and gains in one cycle.                        *)
LEMMA FifoEdgeElements ==
  ASSUME CounterInv, NEW c \in Input, Cycle(c), ~c.branch
  PROVE  /\ c.hwlp /\ ~FifoEmpty /\ ~FetchReady(c) => fifo'[1] = fifo[1]
         /\ ~(c.hwlp /\ ~FifoEmpty) =>
              \A i \in 1 .. Len(fifo') :
                fifo'[i] = IF i <= Len(fifo) - One(Pop(c))
                           THEN fifo[i + One(Pop(c))] ELSE RespData
  <1>1. fifo \in Seq(Word) /\ Len(fifo) \in Nat
    BY CounterTypes DEF CounterInv, TypeOK, Fifo!QueueTypeOK
  <1>2. fifo' = IF Flush(c) THEN <<>>
           ELSE IF FlushButFirst(c)
                THEN (IF fifo = <<>> THEN <<>> ELSE <<Head(fifo)>>)
                ELSE Fifo!Shifted(Push(c), Pop(c), RespData)
    BY DEF Cycle, FifoEdge, Fifo!Cycle
  <1>3. Pop(c) <=> ~FifoEmpty /\ FetchReady(c)
    BY DEF Pop
  <1>4. ASSUME c.hwlp, ~FifoEmpty, ~FetchReady(c)
        PROVE  fifo'[1] = fifo[1]
    <2>1. ~Flush(c) /\ FlushButFirst(c) /\ fifo # <<>>
      BY <1>3, <1>4 DEF Flush, FlushButFirst, FifoEmpty
    <2> QED BY <2>1, <1>1, <1>2
  <1>5. ASSUME ~(c.hwlp /\ ~FifoEmpty), NEW i \in 1 .. Len(fifo')
        PROVE  fifo'[i] = IF i <= Len(fifo) - One(Pop(c))
                          THEN fifo[i + One(Pop(c))] ELSE RespData
    <2> DEFINE pop == One(Pop(c))
               l == Len(fifo)
               p == Fifo!Popped(Pop(c))
    <2>1. fifo' = Fifo!Shifted(Push(c), Pop(c), RespData)
      BY <1>2, <1>5 DEF Flush, FlushButFirst
    <2>2. fifo' = p \/ (Push(c) /\ fifo' = Append(p, RespData))
      BY <2>1 DEF Fifo!Shifted
    <2>3. /\ p \in Seq(Word) /\ Len(p) = l - pop
          /\ \A j \in 1 .. l - pop : p[j] = fifo[j + pop]
      <3>1. CASE Pop(c)
        <4>1. p = Tail(fifo) /\ fifo # <<>>
          BY <3>1, <1>3 DEF Fifo!Popped, FifoEmpty
        <4> QED BY <4>1, <3>1, <1>1, HeadTailProperties DEF One
      <3>2. CASE ~Pop(c)
        <4>1. p = fifo /\ pop = 0
          BY <3>2 DEF Fifo!Popped, One
        <4> QED BY <4>1, <1>1
      <3> QED BY <3>1, <3>2
    <2>4. pop \in {0, 1} /\ l - pop \in Nat
      BY <2>3, LenProperties DEF One
    <2> HIDE DEF p, pop, l
    <2>5. CASE fifo' = p
      BY <2>3, <2>4, <2>5 DEF pop, l
    <2>6. CASE Push(c) /\ fifo' = Append(p, RespData)
      <3>1. RespData \in Word
        BY <2>6, BusEdge DEF Push
      <3>2. /\ Len(fifo') = (l - pop) + 1 /\ fifo'[(l - pop) + 1] = RespData
            /\ \A j \in 1 .. l - pop : fifo'[j] = p[j]
        BY <3>1, <2>3, <2>6, AppendProperties
      <3>3. i \in 1 .. l - pop \/ i = (l - pop) + 1
        BY <3>2, <2>4
      <3> QED BY <3>2, <3>3, <2>3, <2>4 DEF pop, l
    <2> QED BY <2>2, <2>5, <2>6
  <1> QED BY <1>4, <1>5

(* Live, element by element: first the FIFO, then, behind the answers to   *)
(* be dropped, what is outstanding; with a drop still to come, HWLP_END is *)
(* the oldest outstanding request.                                         *)
LiveElement(i) ==
  IF i <= Len(fifo) THEN fifo[i]
  ELSE IF hwlp_flush_after_resp /\ i = 1 THEN Outstanding[1]
  ELSE Outstanding[(i - Len(fifo)) + (flush_cnt_q + hwlp_flush_cnt_delayed_q)]

LiveLen == (Len(fifo) + cnt_q) - (flush_cnt_q + hwlp_flush_cnt_delayed_q)

LiveFacts ==
  /\ Live \in Seq(Word) /\ Len(Live) = LiveLen
  /\ \A i \in 1 .. LiveLen : Live[i] = LiveElement(i)

LEMMA LiveIs == CounterInv => LiveFacts
  <1> SUFFICES ASSUME CounterInv PROVE LiveFacts
    OBVIOUS
  <1> DEFINE O == Outstanding
             f == flush_cnt_q
             d == hwlp_flush_cnt_delayed_q
             l == Len(fifo)
  <1>1. /\ fifo \in Seq(Word) /\ l \in Nat
        /\ f \in Nat /\ d \in Nat /\ cnt_q \in Nat /\ f <= cnt_q
        /\ hwlp_flush_after_resp \in BOOLEAN
        /\ ~hwlp_flush_after_resp => d = 0
        /\ hwlp_flush_after_resp => d < cnt_q /\ f = 0 /\ l = 0
    BY LenProperties, EmptySeq
       DEF CounterInv, TypeOK, FlushBounded, FlowInv, Fifo!QueueTypeOK, FifoEmpty
  <1>2. O \in Seq(Word) /\ Len(O) = cnt_q
    <2>1. bus \in Seq(Word) /\ obi_addr_q \in Word
      BY DEF CounterInv, TypeOK
    <2> QED BY <2>1, AppendProperties DEF CounterInv, OutstandingExact, Outstanding
  <1> HIDE DEF O, f, d, l
  <1>3. CASE ~hwlp_flush_after_resp
    <2> DEFINE s == SubSeq(O, 1 + f, cnt_q)
    <2>1. Live = fifo \o s
      BY <1>2, <1>3 DEF Live, O, f
    <2>2. /\ s \in Seq(Word) /\ Len(s) = cnt_q - f
          /\ \A i \in 1 .. cnt_q - f : s[i] = O[i + f]
      <3>1. \A i \in 1 + f .. cnt_q : O[i] \in Word
        BY <1>1, <1>2, ElementOfSeq
      <3>2. /\ SubSeq(O, 1 + f, cnt_q) \in Seq(Word)
            /\ Len(SubSeq(O, 1 + f, cnt_q)) = IF 1 + f <= cnt_q THEN cnt_q - (1 + f) + 1 ELSE 0
            /\ \A i \in 1 .. cnt_q - (1 + f) + 1 :
                 SubSeq(O, 1 + f, cnt_q)[i] = O[(1 + f) + i - 1]
        BY <3>1, <1>1, SubSeqProperties
      <3>3. \A i \in Nat : (1 + f) + i - 1 = i + f
        BY <1>1
      <3>4. /\ cnt_q - (1 + f) + 1 = cnt_q - f
            /\ cnt_q - f \in Nat
            /\ ~(1 + f <= cnt_q) => cnt_q - f = 0
        BY <1>1
      <3>5. \A i \in 1 .. cnt_q - f : i \in Nat
        BY <1>1
      <3> QED BY <3>2, <3>3, <3>4, <3>5
    <2> HIDE DEF s
    <2>3. /\ fifo \o s \in Seq(Word)
          /\ Len(fifo \o s) = l + (cnt_q - f)
          /\ \A i \in 1 .. l + (cnt_q - f) :
               (fifo \o s)[i] = IF i <= l THEN fifo[i] ELSE s[i - l]
      <3>1. /\ fifo \o s \in Seq(Word)
            /\ Len(fifo \o s) = l + Len(s)
            /\ \A i \in 1 .. l + Len(s) :
                 (fifo \o s)[i] = IF i <= l THEN fifo[i] ELSE s[i - l]
        BY <1>1, <2>2, ConcatProperties DEF l
      <3> QED BY <3>1, <2>2
    <2>4. LiveLen = l + (cnt_q - f)
      BY <1>1, <1>3 DEF LiveLen, l, f, d
    <2>5. ASSUME NEW i \in 1 .. LiveLen PROVE Live[i] = LiveElement(i)
      <3>1. LiveElement(i) = IF i <= l THEN fifo[i] ELSE O[(i - l) + (f + d)]
        BY <1>3 DEF LiveElement, O, l, f, d
      <3>2. ~(i <= l) => i - l \in 1 .. cnt_q - f /\ (i - l) + (f + d) = (i - l) + f
        BY <1>1, <1>3, <2>4
      <3> QED BY <3>1, <3>2, <2>1, <2>2, <2>3, <2>4
    <2> QED BY <2>1, <2>3, <2>4, <2>5 DEF LiveFacts
  <1>4. CASE hwlp_flush_after_resp
    <2> DEFINE s == SubSeq(O, 2 + d, cnt_q)
               h == <<O[1]>>
    <2>1. Live = h \o s
      BY <1>2, <1>4 DEF Live, O, d
    <2>2. /\ s \in Seq(Word) /\ Len(s) = (cnt_q - d) - 1
          /\ \A i \in 1 .. (cnt_q - d) - 1 : s[i] = O[(i + 1) + d]
      <3>1. \A i \in 2 + d .. cnt_q : O[i] \in Word
        BY <1>1, <1>2, ElementOfSeq
      <3>2. /\ SubSeq(O, 2 + d, cnt_q) \in Seq(Word)
            /\ Len(SubSeq(O, 2 + d, cnt_q)) = IF 2 + d <= cnt_q THEN cnt_q - (2 + d) + 1 ELSE 0
            /\ \A i \in 1 .. cnt_q - (2 + d) + 1 :
                 SubSeq(O, 2 + d, cnt_q)[i] = O[(2 + d) + i - 1]
        BY <3>1, <1>1, SubSeqProperties
      <3>3. \A i \in Nat : (2 + d) + i - 1 = (i + 1) + d
        BY <1>1
      <3>4. /\ cnt_q - (2 + d) + 1 = (cnt_q - d) - 1
            /\ (cnt_q - d) - 1 \in Nat
            /\ ~(2 + d <= cnt_q) => (cnt_q - d) - 1 = 0
        BY <1>1, <1>4
      <3> QED BY <3>2, <3>3, <3>4
    <2>3. h \in Seq(Word) /\ Len(h) = 1 /\ h[1] = O[1]
      BY <1>1, <1>2, <1>4, ElementOfSeq
    <2> HIDE DEF s, h
    <2>4. /\ h \o s \in Seq(Word)
          /\ Len(h \o s) = 1 + Len(s)
          /\ \A i \in 1 .. 1 + Len(s) :
               (h \o s)[i] = IF i <= 1 THEN h[i] ELSE s[i - 1]
      <3>1. /\ h \o s \in Seq(Word)
            /\ Len(h \o s) = Len(h) + Len(s)
            /\ \A i \in 1 .. Len(h) + Len(s) :
                 (h \o s)[i] = IF i <= Len(h) THEN h[i] ELSE s[i - Len(h)]
        BY <2>2, <2>3, ConcatProperties
      <3> QED BY <3>1, <2>3
    <2>5. LiveLen = 1 + Len(s)
      BY <1>1, <1>4, <2>2 DEF LiveLen, l, f, d
    <2>6. ASSUME NEW i \in 1 .. LiveLen PROVE Live[i] = LiveElement(i)
      <3>1. LiveElement(i) = IF i = 1 THEN O[1] ELSE O[i + d]
        <4>1. LiveElement(i) = IF i <= l THEN fifo[i] ELSE IF i = 1 THEN O[1]
                               ELSE O[(i - l) + (f + d)]
          BY <1>4 DEF LiveElement, O, l, f, d
        <4>2. ~(i <= l) /\ (i - l) + (f + d) = i + d
          BY <1>1, <1>4, <2>5, <2>2
        <4> QED BY <4>1, <4>2
      <3>2. CASE i = 1
        BY <3>1, <3>2, <2>1, <2>3, <2>4, <2>5
      <3>3. CASE i # 1
        <4>1. /\ i \in 1 .. 1 + Len(s) /\ ~(i <= 1)
              /\ i - 1 \in 1 .. (cnt_q - d) - 1 /\ ((i - 1) + 1) + d = i + d
          BY <3>3, <1>1, <2>2, <2>5
        <4> QED BY <4>1, <3>1, <3>3, <2>1, <2>2, <2>4
      <3> QED BY <3>2, <3>3
    <2> QED BY <2>1, <2>4, <2>5, <2>6 DEF LiveFacts
  <1> QED BY <1>1, <1>3, <1>4

(* Live after one cycle: a branch drops everything, a loop jump everything *)
(* but HWLP_END, a word taken the head; an accepted request joins at the   *)
(* end.  The word taken is the head.                                       *)
LEMMA LiveEdge ==
  ASSUME CounterInv, NEW c \in Input, Cycle(c)
  PROVE  /\ FetchReady(c) => LiveLen > 0 /\ FetchData = Live[1]
         /\ c.hwlp => LiveLen > 0
         /\ LiveLen' = One(Accepted(c)) + (IF c.branch THEN 0
                                           ELSE IF c.hwlp THEN 1 - One(FetchReady(c))
                                           ELSE LiveLen - One(FetchReady(c)))
         /\ Accepted(c) => Live'[LiveLen'] = TransAddr(c)
         /\ c.hwlp /\ ~FetchReady(c) => Live'[1] = Live[1]
         /\ ~c.branch /\ ~c.hwlp =>
              \A i \in 1 .. LiveLen - One(FetchReady(c)) :
                Live'[i] = Live[i + One(FetchReady(c))]
  <1> DEFINE l == Len(fifo)
             f == flush_cnt_q
             d == hwlp_flush_cnt_delayed_q
             aft == hwlp_flush_after_resp
             cnt == cnt_q
             lN == Len(fifo')
             fN == flush_cnt_q'
             dN == hwlp_flush_cnt_delayed_q'
             aftN == hwlp_flush_after_resp'
             cntN == cnt_q'
             acc == One(Accepted(c))
             ans == One(c.resp)
             fr == One(FetchReady(c))
             pop == One(Pop(c))
             push == One(Push(c))
             O == Outstanding
             ON == Outstanding'
             fi == fifo
             fiN == fifo'
             ta == TransAddr(c)
             L == Live
             LN == Live'
             n == LiveLen
             nN == LiveLen'
             at(i) == IF i <= l THEN fi[i]
                      ELSE IF aft /\ i = 1 THEN O[1] ELSE O[(i - l) + (f + d)]
             atN(i) == IF i <= lN THEN fiN[i]
                       ELSE IF aftN /\ i = 1 THEN ON[1] ELSE ON[(i - lN) + (fN + dN)]
  <1>1. /\ n = (l + cnt) - (f + d)
        /\ \A i \in 1 .. n : L[i] = at(i)
    BY LiveIs DEF LiveFacts, LiveElement, LiveLen
  <1>2. /\ nN = (lN + cntN) - (fN + dN)
        /\ \A i \in 1 .. nN : LN[i] = atN(i)
    <2>1. CounterInv'
      BY CycleInv
    <2>2. (CounterInv => LiveFacts)'
      BY LiveIs, PTL
    <2>3. LiveFacts'
      BY <2>1, <2>2
    <2>4. nN = (lN + cntN) - (fN + dN)
      BY DEF LiveLen
    <2> QED BY <2>3, <2>4 DEF LiveFacts, LiveElement
  <1>3. /\ l \in Nat /\ f \in Nat /\ d \in Nat /\ cnt \in Nat /\ f <= cnt
        /\ aft \in BOOLEAN /\ (FifoEmpty <=> l = 0)
        /\ acc \in {0, 1} /\ ans \in {0, 1} /\ pop \in {0, 1} /\ push \in {0, 1} /\ fr \in {0, 1}
        /\ acc = 1 <=> Accepted(c)
        /\ ans = 1 <=> c.resp
        /\ fr = 1 <=> FetchReady(c)
        /\ pop = 1 <=> l # 0 /\ fr = 1
        /\ push = 1 <=> ans = 1 /\ (l # 0 \/ fr = 0) /\ ~c.branch /\ f = 0
    BY CounterTypes DEF One, Push, Pop
  <1>4. /\ lN = IF c.branch THEN 0
                ELSE IF c.hwlp /\ ~FifoEmpty THEN (IF FetchReady(c) THEN 0 ELSE 1)
                ELSE l - pop + push
        /\ cntN = (cnt + acc) - ans
    BY FifoEdgeLength, FlushEdge DEF One
  <1>5. /\ ~aft => d = 0
        /\ aft => d < cnt /\ f = 0 /\ l = 0
        /\ ans = 1 => cnt > 0
        /\ c.hwlp => /\ ~c.branch /\ ~aft /\ f = 0 /\ d = 0 /\ (l = 0 => cnt > 0)
        /\ fr = 1 => f = 0 /\ ~c.branch /\ (l # 0 \/ ans = 1)
    BY <1>3, CounterTypes DEF CounterInv, FlowInv, FlushBounded
  <1>6. /\ \A i \in 1 .. cntN : ON[i] = IF i <= cnt - ans THEN O[i + ans] ELSE ta
        /\ ans = 1 => RespData = O[1]
    BY <1>3, OutstandingEdge
  <1>7. FetchReady(c) => FetchData = IF l = 0 THEN RespData ELSE fi[1]
    BY <1>3, FifoEdgeLength DEF FetchData, CounterInv, TypeOK, Fifo!QueueTypeOK
  <1>8. c.branch => fN = cnt - ans /\ ~aftN /\ dN = 0
    BY FlushEdge
  <1>9. c.hwlp /\ ~(l = 0 /\ ans = 0) => fN = cnt - ans /\ ~aftN /\ dN = 0
    BY <1>3, FlushEdge
  <1>10. c.hwlp /\ l = 0 /\ ans = 0 => fN = 0 /\ aftN /\ dN = cnt - 1
    BY <1>3, FlushEdge
  <1>11. /\ ~c.branch /\ ~c.hwlp /\ aft /\ ans = 1 => fN = d /\ ~aftN /\ dN = 0
         /\ ~c.branch /\ ~c.hwlp /\ ~(aft /\ ans = 1) =>
              /\ fN = IF ans = 1 /\ f > 0 THEN f - 1 ELSE f
              /\ (aftN <=> aft) /\ dN = d
    BY <1>3, FlushEdge
  <1>12. ~c.branch =>
           /\ c.hwlp /\ l # 0 /\ fr = 0 => fiN[1] = fi[1]
           /\ ~(c.hwlp /\ l # 0) =>
                \A i \in 1 .. lN : fiN[i] = IF i <= l - pop THEN fi[i + pop] ELSE RespData
    BY <1>3, FifoEdgeElements
  <1> HIDE DEF l, f, d, aft, cnt, lN, fN, dN, aftN, cntN, acc, ans, fr, pop, push,
               O, ON, fi, fiN, ta, L, LN, n, nN
  <1>13. fr = 1 => n > 0 /\ FetchData = L[1]
    <2> SUFFICES ASSUME fr = 1 PROVE n > 0 /\ FetchData = L[1]
      OBVIOUS
    <2>1. n > 0
      BY <1>1, <1>3, <1>5
    <2>2. L[1] = at(1)
      BY <1>1, <1>3, <2>1
    <2>3. at(1) = IF l = 0 THEN O[1] ELSE fi[1]
      <3>1. CASE l = 0
        <4>1. ~aft => (1 - l) + (f + d) = 1
          BY <3>1, <1>3, <1>5
        <4> QED BY <3>1, <4>1, <1>3
      <3>2. CASE l # 0
        BY <3>2, <1>3
      <3> QED BY <3>1, <3>2
    <2> QED BY <2>1, <2>2, <2>3, <1>3, <1>5, <1>6, <1>7
  <1>14. c.hwlp => n > 0
    BY <1>1, <1>3, <1>5
  <1>15. nN = acc + (IF c.branch THEN 0 ELSE IF c.hwlp THEN 1 - fr ELSE n - fr)
    <2>1. CASE c.branch
      BY <2>1, <1>2, <1>3, <1>4, <1>8
    <2>2. CASE c.hwlp
      <3>1. CASE l = 0 /\ ans = 0
        BY <2>2, <3>1, <1>2, <1>3, <1>4, <1>5, <1>10
      <3>2. CASE ~(l = 0 /\ ans = 0)
        BY <2>2, <3>2, <1>2, <1>3, <1>4, <1>5, <1>9
      <3> QED BY <3>1, <3>2
    <2>3. CASE ~c.branch /\ ~c.hwlp /\ aft
      <3>1. l = 0 /\ f = 0 /\ pop = 0 /\ lN = push /\ fr <= ans /\ push = ans - fr
        BY <2>3, <1>3, <1>4, <1>5
      <3>2. fN + dN = d
        <4>1. CASE ans = 1
          BY <2>3, <4>1, <1>3, <1>11
        <4>2. CASE ans = 0
          <5>1. fN = f /\ dN = d
            BY <2>3, <4>2, <1>11
          <5> QED BY <5>1, <3>1, <1>3
        <4> QED BY <4>1, <4>2, <1>3
      <3> QED BY <2>3, <3>1, <3>2, <1>1, <1>2, <1>3, <1>4
    <2>4. CASE ~c.branch /\ ~c.hwlp /\ ~aft
      BY <2>4, <1>1, <1>2, <1>3, <1>4, <1>5, <1>11
    <2> QED BY <2>1, <2>2, <2>3, <2>4
  <1>16. ASSUME acc = 1 PROVE LN[nN] = ta
    <2>1. nN > 0 /\ LN[nN] = atN(nN)
      BY <1>2, <1>3, <1>4, <1>5, <1>15, <1>16, <1>1
    <2>2. ~(nN <= lN) /\ ~(aftN /\ nN = 1) /\ (nN - lN) + (fN + dN) = cntN
      <3>1. lN \in Nat /\ cntN \in Nat /\ fN \in Nat /\ dN \in Nat
        BY CounterStepArith DEF lN, cntN, fN, dN
      <3>2. (nN - lN) + (fN + dN) = cntN
        BY <3>1, <1>2
      <3>3. nN > lN
        <4>1. CASE c.branch
          BY <4>1, <1>3, <1>4, <1>15, <1>16
        <4>2. CASE c.hwlp
          BY <4>2, <1>3, <1>4, <1>5, <1>15, <1>16
        <4>3. CASE ~c.branch /\ ~c.hwlp
          BY <4>3, <1>1, <1>3, <1>4, <1>5, <1>15, <1>16
        <4> QED BY <4>1, <4>2, <4>3
      <3>4. ~(aftN /\ nN = 1)
        <4>1. CASE c.branch
          BY <4>1, <1>8
        <4>2. CASE c.hwlp
          <5>1. aftN => fr = 0
            BY <4>2, <1>3, <1>5, <1>9
          <5> QED BY <4>2, <5>1, <1>5, <1>15, <1>16
        <4>3. CASE ~c.branch /\ ~c.hwlp
          <5>1. aftN => aft /\ ans = 0
            BY <4>3, <1>3, <1>11
          <5>2. aftN => fr = 0 /\ n > 0
            BY <5>1, <1>1, <1>3, <1>5
          <5> QED BY <4>3, <5>2, <1>1, <1>3, <1>15, <1>16
        <4> QED BY <4>1, <4>2, <4>3
      <3> QED BY <3>1, <3>2, <3>3, <3>4, <1>2
    <2>3. ON[cntN] = ta
      BY <1>3, <1>4, <1>5, <1>6, <1>16
    <2> QED BY <2>1, <2>2, <2>3
  <1>17. ASSUME c.hwlp, fr = 0 PROVE LN[1] = L[1]
    <2>1. nN > 0 /\ LN[1] = atN(1)
      BY <1>2, <1>3, <1>15, <1>17, <1>5
    <2>2. L[1] = at(1)
      BY <1>1, <1>14, <1>17
    <2>3. CASE l = 0 /\ ans = 0
      BY <2>1, <2>2, <2>3, <1>3, <1>4, <1>5, <1>6, <1>10, <1>17
    <2>4. CASE l = 0 /\ ans = 1
      <3>1. push = 1 /\ pop = 0 /\ lN = 1
        BY <2>4, <1>3, <1>4, <1>5, <1>17
      <3>2. atN(1) = RespData
        BY <2>4, <3>1, <1>12, <1>17, <1>5
      <3>3. at(1) = O[1]
        BY <2>4, <1>5, <1>17
      <3> QED BY <3>2, <3>3, <2>1, <2>2, <2>4, <1>6
    <2>5. CASE l # 0
      <3>1. lN = 1
        BY <2>5, <1>3, <1>4, <1>5, <1>17
      <3> QED BY <3>1, <2>1, <2>2, <2>5, <1>3, <1>5, <1>12, <1>17
    <2> QED BY <2>3, <2>4, <2>5, <1>3
  <1>18. ASSUME ~c.branch, ~c.hwlp, NEW i \in 1 .. n - fr PROVE LN[i] = L[i + fr]
    <2>1. i \in 1 .. nN /\ i + fr \in 1 .. n /\ i \in Nat
      BY <1>1, <1>2, <1>3, <1>15, <1>18
    <2>2. LN[i] = atN(i) /\ L[i + fr] = at(i + fr)
      BY <2>1, <1>1, <1>2
    <2>3. CASE aft /\ ans = 1
      <3>1. /\ l = 0 /\ f = 0 /\ lN = 1 - fr /\ pop = 0 /\ cntN = (cnt + acc) - 1
            /\ fN = d /\ dN = 0 /\ ~aftN
        BY <2>3, <1>3, <1>4, <1>5, <1>11, <1>18
      <3>2. n = cnt - d
        BY <3>1, <1>1, <1>3
      <3>3. CASE i <= lN
        <4>1. i = 1 /\ lN = 1 /\ fr = 0 /\ LN[i] = RespData
          BY <2>1, <2>2, <3>1, <3>3, <1>3, <1>12, <1>18
        <4> QED BY <4>1, <3>1, <2>2, <2>3, <1>6
      <3>4. CASE ~(i <= lN)
        <4>1. LN[i] = ON[(i - lN) + d]
          BY <2>2, <3>1, <3>4, <1>3
        <4>2. /\ (i - lN) + d \in 1 .. cntN /\ (i - lN) + d <= cnt - 1
              /\ ((i - lN) + d) + 1 = (i + fr) + d
          BY <2>1, <3>1, <3>2, <3>4, <1>3
        <4>3. LN[i] = O[(i + fr) + d]
          BY <4>1, <4>2, <2>3, <1>6
        <4>4. /\ ~(i + fr <= l) /\ i + fr # 1
              /\ ((i + fr) - l) + (f + d) = (i + fr) + d
          BY <2>1, <3>1, <3>4, <1>3
        <4>5. L[i + fr] = O[(i + fr) + d]
          BY <4>4, <2>2
        <4> QED BY <4>3, <4>5
      <3> QED BY <3>3, <3>4
    <2>4. CASE aft /\ ans = 0
      <3>1. /\ l = 0 /\ f = 0 /\ fr = 0 /\ lN = 0 /\ pop = 0 /\ cntN = cnt + acc
            /\ fN = 0 /\ dN = d /\ aftN
        BY <2>4, <1>3, <1>4, <1>5, <1>11, <1>18
      <3>2. n = cnt - d
        BY <3>1, <1>1, <1>3
      <3>3. /\ LN[i] = IF i = 1 THEN ON[1] ELSE ON[i + d]
            /\ L[i] = IF i = 1 THEN O[1] ELSE O[i + d]
        BY <2>1, <2>2, <2>4, <3>1, <1>3
      <3>4. i + d \in 1 .. cntN /\ 1 \in 1 .. cntN /\ i + d <= cnt /\ 1 <= cnt
        BY <2>1, <3>1, <3>2, <1>3
      <3> QED BY <3>1, <3>3, <3>4, <2>4, <1>6, <1>3
    <2>5. CASE ~aft
      <3>1. /\ d = 0 /\ dN = 0 /\ ~aftN
            /\ fN = IF ans = 1 /\ f > 0 THEN f - 1 ELSE f
            /\ lN = (l - pop) + push /\ n = (l + cnt) - f
        BY <2>5, <1>1, <1>3, <1>4, <1>5, <1>11, <1>18
      <3>2. L[i + fr] = IF i + fr <= l THEN fi[i + fr] ELSE O[((i + fr) - l) + f]
        BY <2>2, <2>5, <3>1, <1>3
      <3>3. LN[i] = IF i <= lN THEN fiN[i] ELSE ON[(i - lN) + fN]
        BY <2>2, <3>1, CounterStepArith DEF fN
      <3>4. CASE i <= l - pop
        <4>1. i <= lN /\ pop = fr /\ i + fr <= l
          BY <2>1, <3>1, <3>4, <1>3
        <4> QED BY <4>1, <3>2, <3>3, <2>1, <3>4, <1>12, <1>18
      <3>5. CASE ~(i <= l - pop) /\ i <= lN
        <4>1. push = 1 /\ i = (l - pop) + 1 /\ f = 0 /\ ans = 1
          BY <2>1, <3>1, <3>5, <1>3
        <4>2. pop = fr /\ ((i + fr) - l) + f = 1 /\ ~(i + fr <= l)
          BY <4>1, <1>3
        <4>3. LN[i] = RespData
          BY <4>1, <3>3, <3>5, <2>1, <1>12, <1>18
        <4> QED BY <4>1, <4>2, <4>3, <3>2, <1>6
      <3>6. CASE ~(i <= lN)
        <4>1. /\ (i - lN) + fN \in 1 .. cntN /\ (i - lN) + fN <= cnt - ans
              /\ ((i - lN) + fN) + ans = ((i + fr) - l) + f /\ ~(i + fr <= l)
          <5>1. (pop + ans) + fN = (push + fr) + f
            BY <3>1, <1>3, <1>5, <1>18
          <5>2. /\ ((i - lN) + fN) + ans = ((i + fr) - l) + f
                /\ fN \in Nat /\ fr >= pop
            BY <3>1, <5>1, <1>3
          <5>3. (i - lN) + fN <= cnt - ans
            BY <5>2, <2>1, <3>1, <1>3
          <5> QED BY <5>2, <5>3, <2>1, <3>1, <3>6, <1>3, <1>4
        <4> QED BY <4>1, <3>2, <3>3, <3>6, <1>6
      <3> QED BY <3>4, <3>5, <3>6
    <2> QED BY <2>2, <2>3, <2>4, <2>5, <1>3
  <1> QED
    BY <1>3, <1>13, <1>14, <1>15, <1>16, <1>17, <1>18 DEF LN, L, n, nN, acc, fr, ta

-----------------------------------------------------------------------------
(* The invariant: what is ahead is the stream the program wants; a pending *)
(* loop jump still has HWLP_END ahead; and a redirect that waits to be     *)
(* issued has nothing behind it but, for a loop jump, HWLP_END.            *)
WaitInv ==
  /\ hwlp_update_pc_q => LiveLen > 0
  /\ state_q = "BRANCH_WAIT" =>
       /\ LiveLen = One(hwlp_update_pc_q)
       /\ run = "flow" => hwlp_update_pc_q

StreamInv == CounterInv /\ StreamIntact /\ WaitInv

AheadFacts ==
  /\ LiveLen \in Nat
  /\ \A i \in 1 .. LiveLen : Ahead[i] = Live[i]
  /\ Ahead[LiveLen + 1] = NextAddr
  /\ StreamIntact <=>
       (run # "reset" =>
          /\ Ahead[1] = pc
          /\ \A i \in 1 .. LiveLen :
               Ahead[i + 1] = IF i = 1 /\ hwlp_update_pc_q
                              THEN hwlp_addr_q ELSE Incr(Ahead[i]))

LEMMA AheadIs == CounterInv => AheadFacts
  <1> SUFFICES ASSUME CounterInv PROVE AheadFacts
    OBVIOUS
  <1>1. Live \in Seq(Word) /\ Len(Live) = LiveLen
    BY LiveIs DEF LiveFacts
  <1>2. NextAddr \in Word
    BY IncrType DEF NextAddr, CounterInv, TypeOK
  <1>3. /\ LiveLen \in Nat
        /\ \A i \in 1 .. LiveLen : Ahead[i] = Live[i]
        /\ Ahead[LiveLen + 1] = NextAddr
    BY <1>1, <1>2, LenProperties, AppendProperties DEF Ahead
  <1> QED
    BY <1>1, <1>3 DEF AheadFacts, StreamIntact

(* What is requested next, after one cycle. *)
LEMMA NextAddrEdge ==
  ASSUME StreamInv, NEW c \in Input, Cycle(c)
  PROVE  /\ state_q' = IF Accepted(c) \/ (state_q = "IDLE" /\ ~c.branch /\ ~c.hwlp)
                       THEN "IDLE" ELSE "BRANCH_WAIT"
         /\ TransAddr(c) = IF c.branch \/ c.hwlp THEN c.target ELSE NextAddr
         /\ NextAddr' = IF Accepted(c) THEN Incr(TransAddr(c)) ELSE TransAddr(c)
  <1>1. /\ state_q \in {"IDLE", "BRANCH_WAIT"}
        /\ c.branch \in BOOLEAN /\ c.hwlp \in BOOLEAN
    BY DEF StreamInv, CounterInv, TypeOK, Input
  <1>2. /\ state_q' = IF state_q = "IDLE"
                      THEN IF (c.branch \/ c.hwlp) /\ ~Accepted(c) THEN "BRANCH_WAIT" ELSE "IDLE"
                      ELSE IF Accepted(c) THEN "IDLE" ELSE "BRANCH_WAIT"
        /\ trans_addr_q' = IF c.branch \/ c.hwlp \/ Accepted(c)
                           THEN TransAddr(c) ELSE trans_addr_q
    BY DEF Cycle, ControllerEdge
  <1>3. c.hwlp => state_q = "IDLE"
    BY <1>1 DEF StreamInv, WaitInv, Cycle, Legal
  <1>4. TransAddr(c) = IF c.branch \/ c.hwlp THEN c.target ELSE NextAddr
    BY <1>1, <1>3 DEF TransAddr, NextAddr
  <1>5. NextAddr' = IF state_q' = "BRANCH_WAIT" THEN trans_addr_q' ELSE Incr(trans_addr_q')
    BY DEF NextAddr, Incr
  <1>6. state_q' = IF Accepted(c) \/ (state_q = "IDLE" /\ ~c.branch /\ ~c.hwlp)
                   THEN "IDLE" ELSE "BRANCH_WAIT"
    BY <1>1, <1>2
  <1>7. NextAddr' = IF Accepted(c) THEN Incr(TransAddr(c)) ELSE TransAddr(c)
    <2>1. CASE Accepted(c)
      BY <2>1, <1>2, <1>5, <1>6
    <2>2. CASE ~Accepted(c) /\ (c.branch \/ c.hwlp)
      BY <2>2, <1>2, <1>5, <1>6
    <2>3. CASE ~Accepted(c) /\ ~c.branch /\ ~c.hwlp
      BY <2>3, <1>1, <1>2, <1>4, <1>5, <1>6 DEF NextAddr
    <2> QED BY <2>1, <2>2, <2>3
  <1> QED BY <1>4, <1>6, <1>7

LEMMA PcEdge ==
  ASSUME NEW c \in Input, Cycle(c)
  PROVE  /\ pc' = IF c.branch THEN c.target
                  ELSE IF FetchReady(c)
                  THEN IF c.hwlp THEN c.target
                       ELSE IF hwlp_update_pc_q THEN hwlp_addr_q ELSE Incr(pc)
                  ELSE pc
         /\ hwlp_addr_q' = IF ~(c.branch \/ FetchReady(c)) /\ c.hwlp
                           THEN c.target ELSE hwlp_addr_q
         /\ taken' = IF FetchReady(c) THEN FetchData ELSE taken
  BY DEF Cycle, FetchEdge

(* Every cycle keeps the stream intact. *)
LEMMA StreamStep ==
  ASSUME StreamInv, NEW c \in Input, Cycle(c)
  PROVE  StreamIntact' /\ WaitInv'
  <1> DEFINE acc == One(Accepted(c))
             fr == One(FetchReady(c))
             n == LiveLen
             nN == LiveLen'
             A == Ahead
             AN == Ahead'
             L == Live
             LN == Live'
             upd == hwlp_update_pc_q
             updN == hwlp_update_pc_q'
             loop == hwlp_addr_q
             loopN == hwlp_addr_q'
             ta == TransAddr(c)
             na == NextAddr
             naN == NextAddr'
             p == pc
             pN == pc'
  <1>1. /\ n \in Nat /\ nN \in Nat
        /\ \A i \in 1 .. n : A[i] = L[i]
        /\ A[n + 1] = na
        /\ \A i \in 1 .. nN : AN[i] = LN[i]
        /\ AN[nN + 1] = naN
    <2>1. (CounterInv => AheadFacts)'
      BY AheadIs, PTL
    <2>2. CounterInv'
      BY CycleInv DEF StreamInv
    <2>3. AheadFacts /\ AheadFacts'
      BY <2>1, <2>2, AheadIs DEF StreamInv
    <2> QED BY <2>3 DEF AheadFacts
  <1>2. StreamIntact' <=>
          (run' # "reset" =>
             /\ AN[1] = pN
             /\ \A i \in 1 .. nN : AN[i + 1] = IF i = 1 /\ updN THEN loopN ELSE Incr(AN[i]))
    <2>1. (CounterInv => AheadFacts)'
      BY AheadIs, PTL
    <2>2. CounterInv'
      BY CycleInv DEF StreamInv
    <2>3. AheadFacts'
      BY <2>1, <2>2
    <2> QED BY <2>3 DEF AheadFacts, Incr
  <1>3. /\ run # "reset" /\ StreamIntact =>
             /\ A[1] = p
             /\ \A i \in 1 .. n : A[i + 1] = IF i = 1 /\ upd THEN loop ELSE Incr(A[i])
        /\ upd => n > 0
        /\ state_q = "BRANCH_WAIT" => n = One(upd) /\ (run = "flow" => upd)
    BY AheadIs DEF StreamInv, AheadFacts, WaitInv
  <1>4. StreamIntact
    BY DEF StreamInv
  <1>5. /\ acc \in {0, 1} /\ fr \in {0, 1}
        /\ acc = 1 <=> Accepted(c)
        /\ fr = 1 <=> FetchReady(c)
        /\ upd \in BOOLEAN /\ updN \in BOOLEAN /\ c.branch \in BOOLEAN /\ c.hwlp \in BOOLEAN
        /\ c.hwlp => ~c.branch /\ run = "flow" /\ ~upd
        /\ fr = 1 => ~c.branch /\ c.req
        /\ c.req => run # "reset" \/ c.branch
        /\ updN <=> ~c.branch /\ fr = 0 /\ (upd \/ c.hwlp)
    <2>1. CounterInv
      BY DEF StreamInv
    <2>2. c.req => run # "reset" \/ c.branch
      BY DEF Cycle, Legal
    <2>3. updN <=> ~c.branch /\ ~FetchReady(c) /\ (upd \/ c.hwlp)
      BY <2>1, FetchEdgeFacts
    <2>4. updN \in BOOLEAN
      BY DEF Cycle, FetchEdge
    <2> QED BY <2>1, <2>2, <2>3, <2>4, CounterTypes DEF One
  <1>6. /\ fr = 1 => n > 0
        /\ c.hwlp => n > 0
        /\ nN = acc + (IF c.branch THEN 0 ELSE IF c.hwlp THEN 1 - fr ELSE n - fr)
        /\ acc = 1 => LN[nN] = ta
        /\ c.hwlp /\ fr = 0 => LN[1] = L[1]
        /\ ~c.branch /\ ~c.hwlp => \A i \in 1 .. n - fr : LN[i] = L[i + fr]
    BY LiveEdge, <1>5 DEF StreamInv
  <1>7. /\ state_q' = IF acc = 1 \/ (state_q = "IDLE" /\ ~c.branch /\ ~c.hwlp)
                      THEN "IDLE" ELSE "BRANCH_WAIT"
        /\ ta = IF c.branch \/ c.hwlp THEN c.target ELSE na
        /\ naN = IF acc = 1 THEN Incr(ta) ELSE ta
        /\ state_q \in {"IDLE", "BRANCH_WAIT"}
    BY NextAddrEdge, <1>5 DEF StreamInv, CounterInv, TypeOK
  <1>8. /\ pN = IF c.branch THEN c.target
                ELSE IF fr = 1
                THEN IF c.hwlp THEN c.target ELSE IF upd THEN loop ELSE Incr(p)
                ELSE p
        /\ loopN = IF ~c.branch /\ fr = 0 /\ c.hwlp THEN c.target ELSE loop
        /\ run' = IF c.branch THEN "refill"
                  ELSE IF fr = 1 THEN IF c.hwlp \/ upd THEN "refill" ELSE "flow"
                  ELSE run
    BY PcEdge, FetchEdgeFacts, <1>5 DEF StreamInv
  <1> DEFINE Intact == run' # "reset" =>
             /\ AN[1] = pN
             /\ \A i \in 1 .. nN : AN[i + 1] = IF i = 1 /\ updN THEN loopN ELSE Incr(AN[i])
             Wait == /\ updN => nN > 0
                     /\ state_q' = "BRANCH_WAIT" => nN = One(updN) /\ (run' = "flow" => updN)
  <1> HIDE DEF acc, fr, n, nN, A, AN, L, LN, upd, updN, loop, loopN, ta, na, naN, p, pN
  <1>9. ASSUME c.branch PROVE Intact /\ Wait
    <2>1. nN = acc /\ ta = c.target /\ pN = ta /\ ~updN /\ run' = "refill"
      BY <1>5, <1>6, <1>7, <1>8, <1>9
    <2>2. CASE acc = 1
      BY <2>1, <2>2, <1>1, <1>6, <1>7
    <2>3. CASE acc = 0
      BY <2>1, <2>3, <1>1, <1>6, <1>7 DEF One
    <2> QED BY <2>2, <2>3, <1>5
  <1>10. ASSUME c.hwlp PROVE Intact /\ Wait
    <2>1. /\ nN = acc + (1 - fr) /\ ta = c.target /\ ~upd /\ run # "reset" /\ n > 0
          /\ A[1] = p /\ A[1] = L[1]
      BY <1>1, <1>3, <1>4, <1>5, <1>6, <1>7, <1>10
    <2>2. CASE fr = 1
      <3>1. pN = ta /\ ~updN /\ run' = "refill" /\ nN = acc
        BY <2>1, <2>2, <1>5, <1>8, <1>10
      <3>2. CASE acc = 1
        BY <3>1, <3>2, <1>1, <1>6, <1>7
      <3>3. CASE acc = 0
        BY <3>1, <3>3, <1>1, <1>6, <1>7 DEF One
      <3> QED BY <3>2, <3>3, <1>5
    <2>3. CASE fr = 0
      <3>1. pN = p /\ updN /\ nN = acc + 1 /\ loopN = ta /\ LN[1] = p
        <4>1. ~c.branch /\ c.hwlp
          BY <1>5, <1>10
        <4>2. pN = p /\ loopN = ta /\ LN[1] = L[1]
          <5>1. LN[1] = L[1]
            BY <4>1, <2>3, <1>6
          <5>2. pN = p
            BY <4>1, <2>3, <1>8
          <5>3. loopN = ta
            BY <4>1, <2>1, <2>3, <1>8
          <5> QED BY <5>1, <5>2, <5>3
        <4>3. updN /\ nN = acc + 1
          BY <4>1, <2>1, <2>3, <1>5
        <4> QED BY <4>2, <4>3, <2>1
      <3>2. CASE acc = 1
        <4>1. nN = 2 /\ AN[1] = p /\ AN[2] = ta /\ AN[3] = Incr(ta)
          BY <3>1, <3>2, <1>1, <1>6, <1>7
        <4>2. \A i \in 1 .. nN : i = 1 \/ i = 2
          BY <4>1
        <4>3. state_q' = "IDLE"
          BY <3>2, <1>7
        <4> QED BY <4>1, <4>2, <4>3, <3>1
      <3>3. CASE acc = 0
        <4>1. nN = 1 /\ AN[1] = p /\ AN[2] = ta
          BY <3>1, <3>3, <1>1, <1>6, <1>7
        <4>2. \A i \in 1 .. nN : i = 1
          BY <4>1
        <4> QED BY <4>1, <4>2, <3>1 DEF One
      <3> QED BY <3>2, <3>3, <1>5
    <2> QED BY <2>2, <2>3, <1>5
  <1>11. ASSUME ~c.branch, ~c.hwlp PROVE Intact /\ Wait
    <2>1. /\ nN = acc + (n - fr) /\ ta = na /\ n - fr \in Nat
          /\ \A i \in 1 .. n - fr : LN[i] = L[i + fr]
      BY <1>1, <1>5, <1>6, <1>7, <1>11
    <2>2. \A i \in 1 .. (n - fr) + 1 : AN[i] = A[i + fr]
      <3> SUFFICES ASSUME NEW i \in 1 .. (n - fr) + 1 PROVE AN[i] = A[i + fr]
        OBVIOUS
      <3>1. CASE i \in 1 .. n - fr
        <4>1. i \in 1 .. nN /\ i + fr \in 1 .. n
          BY <3>1, <2>1, <1>1, <1>5
        <4> QED BY <3>1, <4>1, <2>1, <1>1
      <3>2. CASE i = (n - fr) + 1
        <4>1. i + fr = n + 1
          BY <3>2, <1>1, <1>5
        <4>2. CASE acc = 1
          BY <4>1, <4>2, <3>2, <2>1, <1>1, <1>6
        <4>3. CASE acc = 0
          BY <4>1, <4>3, <3>2, <2>1, <1>1, <1>7
        <4> QED BY <4>2, <4>3, <1>5
      <3> QED BY <3>1, <3>2, <2>1
    <2>3. acc = 1 => nN = (n - fr) + 1 /\ AN[nN + 1] = Incr(AN[nN])
      <3> SUFFICES ASSUME acc = 1 PROVE nN = (n - fr) + 1 /\ AN[nN + 1] = Incr(AN[nN])
        OBVIOUS
      <3>1. nN = (n - fr) + 1 /\ nN \in 1 .. nN
        BY <2>1, <1>1, <1>5
      <3>2. AN[nN] = ta /\ AN[nN + 1] = Incr(ta)
        BY <3>1, <1>1, <1>6, <1>7
      <3> QED BY <3>1, <3>2
    <2>4. Wait
      <3>1. updN => upd /\ fr = 0
        BY <1>5, <1>11
      <3>2. updN => nN > 0
        BY <3>1, <2>1, <1>1, <1>3, <1>5
      <3>3. ASSUME state_q' = "BRANCH_WAIT"
            PROVE  nN = One(updN) /\ (run' = "flow" => updN)
        <4>1. acc = 0 /\ state_q = "BRANCH_WAIT" /\ n = One(upd) /\ (run = "flow" => upd)
          BY <3>3, <1>3, <1>5, <1>7, <1>11
        <4>2. CASE fr = 1
          <5>1. upd /\ n = 1 /\ ~updN /\ run' = "refill"
            BY <4>1, <4>2, <1>5, <1>6, <1>8, <1>11 DEF One
          <5> QED BY <5>1, <4>1, <4>2, <2>1 DEF One
        <4>3. CASE fr = 0
          <5>1. (updN <=> upd) /\ run' = run
            BY <4>3, <1>5, <1>8, <1>11
          <5> QED BY <5>1, <4>1, <4>3, <2>1, <1>1 DEF One
        <4> QED BY <4>2, <4>3, <1>5
      <3> QED BY <3>2, <3>3
    <2>5. Intact
      <3>1. ASSUME run' # "reset" PROVE run # "reset"
        BY <3>1, <1>5, <1>8, <1>11
      <3> SUFFICES ASSUME run' # "reset"
                   PROVE /\ AN[1] = pN
                         /\ \A i \in 1 .. nN :
                              AN[i + 1] = IF i = 1 /\ updN THEN loopN ELSE Incr(AN[i])
        OBVIOUS
      <3>2. /\ A[1] = p
            /\ \A i \in 1 .. n : A[i + 1] = IF i = 1 /\ upd THEN loop ELSE Incr(A[i])
        BY <3>1, <1>3, <1>4
      <3>3. AN[1] = pN
        <4>1. AN[1] = A[1 + fr]
          BY <2>1, <2>2
        <4>2. CASE fr = 1
          <5>1. 1 \in 1 .. n /\ A[2] = IF upd THEN loop ELSE Incr(A[1])
            BY <4>2, <3>2, <1>1, <1>6
          <5> QED BY <4>1, <4>2, <5>1, <3>2, <1>8, <1>11
        <4>3. CASE fr = 0
          BY <4>1, <4>3, <3>2, <1>8, <1>11
        <4> QED BY <4>2, <4>3, <1>5
      <3>4. ASSUME NEW i \in 1 .. nN
            PROVE  AN[i + 1] = IF i = 1 /\ updN THEN loopN ELSE Incr(AN[i])
        <4>1. CASE i \in 1 .. n - fr
          <5>1. i + fr \in 1 .. n /\ i \in 1 .. (n - fr) + 1 /\ i + 1 \in 1 .. (n - fr) + 1
                /\ (i + 1) + fr = (i + fr) + 1
            BY <4>1, <2>1, <1>1, <1>5
          <5>2. AN[i + 1] = IF i + fr = 1 /\ upd THEN loop ELSE Incr(AN[i])
            BY <5>1, <2>2, <3>2
          <5>3. CASE fr = 1
            <6>1. ~updN /\ i + fr # 1
              BY <5>1, <5>3, <4>1, <1>5
            <6> QED BY <6>1, <5>2
          <5>4. CASE fr = 0
            <6>1. (updN <=> upd) /\ loopN = loop /\ i + fr = i
              BY <5>4, <4>1, <1>5, <1>8, <1>11
            <6> QED BY <6>1, <5>2
          <5> QED BY <5>3, <5>4, <1>5
        <4>2. CASE ~(i \in 1 .. n - fr)
          <5>1. acc = 1 /\ i = nN /\ nN = (n - fr) + 1
            BY <4>2, <2>1, <1>1, <1>5
          <5>2. ~(i = 1 /\ updN)
            BY <5>1, <1>1, <1>3, <1>5, <1>11
          <5> QED BY <5>1, <5>2, <2>3
        <4> QED BY <4>1, <4>2
      <3> QED BY <3>3, <3>4
    <2> QED BY <2>4, <2>5
  <1>12. Intact /\ Wait
    BY <1>5, <1>9, <1>10, <1>11
  <1>13. WaitInv'
    BY <1>12 DEF WaitInv, One, updN, nN
  <1> QED BY <1>2, <1>12, <1>13

LEMMA InitStreamInv == Init => StreamInv
  <1> SUFFICES ASSUME Init PROVE StreamInv
    OBVIOUS
  <1>1. CounterInv
    BY InitCounterInv
  <1> QED
    BY <1>1 DEF Init, StreamInv, StreamIntact, WaitInv

LEMMA StreamNext == StreamInv /\ [Next]_vars => StreamInv'
  <1> SUFFICES ASSUME StreamInv, [Next]_vars PROVE StreamInv'
    OBVIOUS
  <1>1. CounterInv'
    BY NextInv DEF StreamInv
  <1>2. ASSUME NEW c \in Input, Cycle(c) PROVE StreamIntact' /\ WaitInv'
    BY <1>2, StreamStep
  <1>3. CASE Next
    BY <1>1, <1>2, <1>3 DEF Next, Branch, LoopJump, Fetch, StreamInv
  <1>4. CASE UNCHANGED vars
    <2> USE DEF vars, ctrlVars, obiVars, fetchVars
    <2>1. Outstanding' = Outstanding /\ NextAddr' = NextAddr /\ FifoEmpty' = FifoEmpty
      BY <1>4 DEF Outstanding, NextAddr, FifoEmpty, Incr
    <2>2. Live' = Live /\ LiveLen' = LiveLen
      BY <1>4, <2>1 DEF Live, LiveLen
    <2>3. Ahead' = Ahead
      BY <2>1, <2>2 DEF Ahead
    <2>4. StreamIntact'
      BY <1>4, <2>2, <2>3 DEF StreamInv, StreamIntact, Incr
    <2>5. WaitInv'
      BY <1>4, <2>2 DEF StreamInv, WaitInv, One
    <2> QED BY <1>1, <2>4, <2>5 DEF StreamInv
  <1> QED BY <1>3, <1>4

LEMMA StreamInvAlways == Spec => []StreamInv
  BY InitStreamInv, StreamNext, PTL DEF Spec

(* Whatever a branch or a loop jump races with, the words buffered and     *)
(* outstanding and the address requested next are the instruction stream   *)
(* from pc on, without gap, repetition or stale word.                      *)
THEOREM StreamCorrect == Spec => []StreamIntact
  <1>1. StreamInv => StreamIntact
    BY DEF StreamInv
  <1> QED BY <1>1, StreamInvAlways, PTL

-----------------------------------------------------------------------------
(* The refinement *)

LEMMA StreamRefinesInit == Init => Stream!Init
  BY DEF Init, Stream!Init

(* A cycle delivers the word the stream has next, redirects the stream,    *)
(* or is a stuttering step of it.                                          *)
LEMMA StreamRefinesCycle ==
  ASSUME StreamInv, NEW c \in Input, Cycle(c)
  PROVE  [Stream!Next]_(Stream!streamVars)
  <1> DEFINE loop == IF hwlp_update_pc_q THEN {hwlp_addr_q} ELSE {}
  <1>1. /\ pc' = IF c.branch THEN c.target
                 ELSE IF FetchReady(c)
                 THEN IF c.hwlp THEN c.target
                      ELSE IF hwlp_update_pc_q THEN hwlp_addr_q ELSE Incr(pc)
                 ELSE pc
        /\ hwlp_addr_q' = IF ~(c.branch \/ FetchReady(c)) /\ c.hwlp
                          THEN c.target ELSE hwlp_addr_q
        /\ taken' = IF FetchReady(c) THEN FetchData ELSE taken
    BY PcEdge
  <1>2. /\ hwlp_update_pc_q' <=> ~c.branch /\ ~FetchReady(c) /\ (hwlp_update_pc_q \/ c.hwlp)
        /\ hwlp_update_pc_q' \in BOOLEAN
    BY FetchEdgeFacts DEF StreamInv, Cycle, FetchEdge
  <1>3. /\ c.branch \in BOOLEAN /\ c.hwlp \in BOOLEAN /\ c.target \in Word
        /\ c.hwlp => ~c.branch /\ ~hwlp_update_pc_q
        /\ FetchReady(c) => ~c.branch
    BY DEF Input, Cycle, Legal, FetchReady
  <1>4. FetchReady(c) => FetchData = pc
    <2> SUFFICES ASSUME FetchReady(c) PROVE FetchData = pc
      OBVIOUS
    <2>1. run # "reset"
      BY <1>3 DEF FetchReady, Cycle, Legal
    <2>2. LiveLen > 0 /\ FetchData = Live[1]
      BY LiveEdge DEF StreamInv
    <2>3. Ahead[1] = Live[1] /\ Ahead[1] = pc
      BY <2>1, <2>2, AheadIs DEF StreamInv, AheadFacts
    <2> QED BY <2>2, <2>3
  <1>5. ASSUME c.branch PROVE Stream!Redirect(c.target)
    <2>1. pc' = c.target /\ taken' = taken /\ ~hwlp_update_pc_q'
      BY <1>1, <1>2, <1>3, <1>5
    <2> QED BY <2>1 DEF Stream!Redirect
  <1>6. ASSUME c.hwlp, FetchReady(c) PROVE Stream!LoopDeliver(c.target)
    <2>1. pc' = c.target /\ taken' = pc /\ ~hwlp_update_pc_q /\ ~hwlp_update_pc_q'
      BY <1>1, <1>2, <1>3, <1>4, <1>6
    <2> QED BY <2>1 DEF Stream!LoopDeliver
  <1>7. ASSUME c.hwlp, ~FetchReady(c) PROVE Stream!LoopJump(c.target)
    <2>1. pc' = pc /\ taken' = taken /\ hwlp_addr_q' = c.target
          /\ ~hwlp_update_pc_q /\ hwlp_update_pc_q'
      BY <1>1, <1>2, <1>3, <1>7
    <2> QED BY <2>1 DEF Stream!LoopJump
  <1>8. ASSUME ~c.hwlp, FetchReady(c) PROVE Stream!Deliver
    <2>1. pc' = (IF hwlp_update_pc_q THEN hwlp_addr_q ELSE Incr(pc))
          /\ taken' = pc /\ ~hwlp_update_pc_q'
      BY <1>1, <1>2, <1>3, <1>4, <1>8
    <2>2. CASE hwlp_update_pc_q
      BY <2>1, <2>2 DEF Stream!Deliver
    <2>3. CASE ~hwlp_update_pc_q
      BY <2>1, <2>3 DEF Stream!Deliver, Incr
    <2> QED BY <2>2, <2>3
  <1>9. ASSUME ~c.branch, ~c.hwlp, ~FetchReady(c) PROVE UNCHANGED Stream!streamVars
    <2>1. pc' = pc /\ taken' = taken /\ hwlp_addr_q' = hwlp_addr_q
          /\ (hwlp_update_pc_q' <=> hwlp_update_pc_q)
      BY <1>1, <1>2, <1>9
    <2> QED BY <2>1 DEF Stream!streamVars
  <1>10. c.target \in Stream!Word
    BY <1>3 DEF Stream!Word, Word
  <1> QED
    BY <1>3, <1>5, <1>6, <1>7, <1>8, <1>9, <1>10 DEF Stream!Next

(* The prefetcher delivers exactly the words of the abstract stream:       *)
(* consecutive from the last redirect on, diverted after HWLP_END by a     *)
(* loop jump, whatever the memory's grants and answers do.                 *)
THEOREM DeliversStream == Spec => FetchStreamSpec
  <1>1. StreamInv /\ [Next]_vars => [Stream!Next]_(Stream!streamVars)
    <2> SUFFICES ASSUME StreamInv, [Next]_vars PROVE [Stream!Next]_(Stream!streamVars)
      OBVIOUS
    <2>1. CASE Next
      BY <2>1, StreamRefinesCycle DEF Next, Branch, LoopJump, Fetch
    <2>2. CASE UNCHANGED vars
      BY <2>2 DEF vars, fetchVars, Stream!streamVars
    <2> QED BY <2>1, <2>2
  <1> QED
    BY <1>1, StreamInvAlways, StreamRefinesInit, PTL
       DEF Spec, FetchStreamSpec, Stream!Spec
-----------------------------------------------------------------------------
(* PrefetchBuffer, for every FIFO whose DEPTH is a power of two: the       *)
(* circular memory of cv32e40p_fifo.sv always holds the queue that         *)
(* Prefetcher reasons about, across wraps of the pointers, flushes, and    *)
(* the flush that keeps HWLP_END.                                          *)

N == Memory!PointerRange

(* The slot of the i-th entry. *)
Slot(i) == (read_pointer_q + i - 1) % N

BufferInv ==
  /\ CounterInv
  /\ read_pointer_q \in 0 .. N - 1
  /\ mem_q \in [0 .. N - 1 -> Word]
  /\ status_cnt_q = Len(fifo)
  /\ write_pointer_q = (read_pointer_q + status_cnt_q) % N
  /\ \A i \in 1 .. Len(fifo) : mem_q[Slot(i)] = fifo[i]

-----------------------------------------------------------------------------
(* Pointer arithmetic *)

LEMMA Wrap ==
  ASSUME NEW n \in Nat, n > 0, NEW x \in 0 .. n + n - 1
  PROVE  x % n = IF x < n THEN x ELSE x - n
  <1>1. CASE x < n
    BY <1>1, SMTT(30)
  <1>2. CASE x >= n
    <2>1. x = n + (x - n)
      OBVIOUS
    <2> QED BY <1>2, SMTT(30)
  <1> QED BY <1>1, <1>2

LEMMA PointerRangeIs == N = DEPTH /\ N \in Nat /\ N > 1
  BY PrefetchBufferAssumption DEF N, Memory!PointerRange

Wrapped(x) == IF x < N THEN x ELSE x - N

LEMMA Modulo == \A x \in 0 .. N + N - 1 : x % N = Wrapped(x)
  BY PointerRangeIs, Wrap DEF Wrapped

(* A pointer wraps at DEPTH, by its width alone. *)
LEMMA AdvanceIs ==
  ASSUME NEW p \in 0 .. N - 1
  PROVE  Memory!Advance(p) = Wrapped(p + 1)
  <1>1. N \in 0 .. N + N - 1 /\ p + 1 \in 0 .. N + N - 1
    BY PointerRangeIs
  <1>2. DEPTH % N = 0
    <2>1. N % N = Wrapped(N)
      BY <1>1, Modulo
    <2> QED BY <2>1, PointerRangeIs DEF Wrapped
  <1>3. Memory!Advance(p) = (p + 1) % N
    BY <1>2 DEF Memory!Advance, N
  <1> QED BY <1>1, <1>3, Modulo

-----------------------------------------------------------------------------
LEMMA PushHasRoom ==
  ASSUME CounterInv, NEW c \in Input, Cycle(c), Push(c)
  PROVE  Len(fifo) < DEPTH /\ RespData \in Word
  <1>1. c.resp /\ flush_cnt_q = 0
    BY CounterTypes DEF Push
  <1>2. RespData \in Word /\ cnt_q > 0
    BY <1>1, BusEdge
  <1>3. hwlp_flush_cnt_delayed_q < cnt_q
    BY <1>2, CounterTypes DEF CounterInv, FlushBounded, FlowInv
  <1>4. (Len(fifo) + cnt_q) - (flush_cnt_q + hwlp_flush_cnt_delayed_q) <= DEPTH
    BY DEF CounterInv, RoomForAll
  <1> QED
    BY <1>1, <1>2, <1>3, <1>4, CounterTypes

LEMMA InitBufferInv == BufferInit => BufferInv
  <1> SUFFICES ASSUME BufferInit PROVE BufferInv
    OBVIOUS
  <1>1. CounterInv
    BY InitCounterInv DEF BufferInit
  <1>2. N \in Nat /\ N > 1 /\ 0 % N = 0
    <2>1. N \in Nat /\ N > 1 /\ 0 \in 0 .. N + N - 1
      BY PointerRangeIs
    <2> QED BY <2>1, Modulo DEF Wrapped
  <1>3. fifo = <<>> /\ read_pointer_q = 0 /\ write_pointer_q = 0 /\ status_cnt_q = 0
        /\ mem_q = [p \in 0 .. N - 1 |-> 0]
    BY DEF BufferInit, Init, Fifo!QueueInit, Memory!Init, Memory!Pointer, N
  <1>4. 0 \in Word
    BY DEF Word
  <1> QED
    BY <1>1, <1>2, <1>3, <1>4 DEF BufferInv

(* One clock edge keeps the memory in step with the queue. *)
LEMMA BufferStep ==
  ASSUME BufferInv, NEW c \in Input, BufferCycle(c)
  PROVE  BufferInv'
  <1> DEFINE l == Len(fifo)
             lN == Len(fifo')
             r == read_pointer_q
             rN == read_pointer_q'
             w == write_pointer_q
             s == status_cnt_q
             sN == status_cnt_q'
             m == mem_q
             mN == mem_q'
             pop == One(Pop(c))
             push == One(Push(c))
  <1>1. CounterInv /\ Cycle(c) /\ CounterInv'
    BY CycleInv DEF BufferInv, BufferCycle
  <1>2. /\ N = DEPTH /\ N \in Nat /\ N > 1
    BY PointerRangeIs
  <1>3. /\ l \in Nat /\ (FifoEmpty <=> l = 0) /\ lN \in Nat
        /\ fifo \in Seq(Word) /\ l <= N
        /\ pop \in {0, 1} /\ push \in {0, 1}
        /\ pop = 1 <=> Pop(c)
        /\ push = 1 <=> Push(c)
        /\ Push(c) => l < N /\ RespData \in Word
        /\ Pop(c) => l > 0
    <2>1. l \in Nat /\ (FifoEmpty <=> l = 0)
      BY <1>1, CounterTypes
    <2>2. fifo \in Seq(Word) /\ l <= N
      BY <1>1, <1>2 DEF CounterInv, TypeOK, Fifo!QueueTypeOK
    <2>3. Push(c) => l < N /\ RespData \in Word
      BY <1>1, <1>2, PushHasRoom
    <2>4. lN \in Nat
      BY <1>1, FifoEdgeLength, LenProperties
    <2> QED BY <2>1, <2>2, <2>3, <2>4 DEF One, Pop
  <1>4. /\ r \in 0 .. N - 1 /\ m \in [0 .. N - 1 -> Word] /\ s = l
        /\ w = Wrapped(r + l)
        /\ \A i \in 1 .. l : Wrapped(r + i - 1) \in 0 .. N - 1 /\ m[Wrapped(r + i - 1)] = fifo[i]
    <2>1. r \in 0 .. N - 1 /\ m \in [0 .. N - 1 -> Word] /\ s = l
      BY DEF BufferInv
    <2>2. r + l \in 0 .. N + N - 1
      BY <2>1, <1>2, <1>3
    <2>3. w = Wrapped(r + l)
      BY <2>1, <2>2, Modulo DEF BufferInv
    <2>4. \A i \in 1 .. l : r + i - 1 \in 0 .. N + N - 1 /\ Wrapped(r + i - 1) \in 0 .. N - 1
      BY <2>1, <1>2, <1>3 DEF Wrapped
    <2>5. \A i \in 1 .. l : m[(r + i - 1) % N] = fifo[i]
      BY DEF BufferInv, Slot
    <2> QED BY <2>1, <2>3, <2>4, <2>5, Modulo
  <1>5. /\ mN = IF Push(c) THEN [m EXCEPT ![w] = RespData] ELSE m
        /\ w \in 0 .. N - 1
    <2>1. Memory!DoPush(Push(c)) <=> Push(c)
      BY <1>2, <1>3, <1>4 DEF Memory!DoPush, Memory!Full
    <2>2. w \in 0 .. N - 1
      BY <1>2, <1>3, <1>4 DEF Wrapped
    <2> QED BY <2>1, <2>2 DEF BufferCycle, Memory!Cycle, Memory!MemoryEdge
  <1>6. mN \in [0 .. N - 1 -> Word]
    BY <1>3, <1>4, <1>5
  <1>7. /\ Push(c) => mN[w] = RespData
        /\ \A p \in 0 .. N - 1 : ~Push(c) \/ p # w => mN[p] = m[p]
    BY <1>4, <1>5
  <1> DEFINE Holds ==
        /\ rN \in 0 .. N - 1 /\ sN = lN /\ lN <= N
        /\ write_pointer_q' = Wrapped(rN + lN)
        /\ \A i \in 1 .. lN : mN[Wrapped(rN + i - 1)] = fifo'[i]
  <1>8. fifo' = IF Flush(c) THEN <<>>
                ELSE IF FlushButFirst(c)
                THEN (IF fifo = <<>> THEN <<>> ELSE <<Head(fifo)>>)
                ELSE Fifo!Shifted(Push(c), Pop(c), RespData)
    BY <1>1 DEF Cycle, FifoEdge, Fifo!Cycle
  <1>9. Memory!PointersEdge(Push(c), Pop(c), Flush(c), FlushButFirst(c))
    BY DEF BufferCycle, Memory!Cycle
  <1>10. ASSUME Flush(c) PROVE Holds
    <2>1. rN = 0 /\ write_pointer_q' = 0 /\ sN = 0
      BY <1>9, <1>10 DEF Memory!PointersEdge
    <2>2. lN = 0
      BY <1>8, <1>10
    <2> HIDE DEF rN, sN, lN, l, r, w, s, m, mN
    <2> QED
      BY <2>1, <2>2, <1>2 DEF Wrapped
  <1>11. ASSUME ~Flush(c), FlushButFirst(c) PROVE Holds
    <2>1. l > 0 /\ fifo # <<>>
      BY <1>3, <1>11 DEF FlushButFirst, FifoEmpty
    <2>2. fifo' = <<fifo[1]>>
      BY <2>1, <1>3, <1>8, <1>11
    <2>3. lN = 1 /\ fifo'[1] = fifo[1]
      BY <2>2
    <2>4. rN = r /\ write_pointer_q' = (r + 1) % N /\ sN = 1
      BY <2>1, <1>4, <1>9, <1>11 DEF Memory!PointersEdge, N
    <2>5. (r + 1) % N = Wrapped(r + 1)
      <3>1. r + 1 \in 0 .. N + N - 1
        BY <1>2, <1>4
      <3> QED BY <3>1, Modulo
    <2>6. Wrapped(r + 1 - 1) = r /\ m[r] = fifo[1]
      <3>1. 1 \in 1 .. l /\ Wrapped(r + 1 - 1) = r
        BY <2>1, <1>2, <1>3, <1>4 DEF Wrapped
      <3> QED BY <3>1, <1>4
    <2>7. mN[r] = m[r]
      <3>1. Push(c) => r # w
        BY <2>1, <1>2, <1>3, <1>4 DEF Wrapped
      <3> QED BY <3>1, <1>4, <1>7
    <2>8. \A i \in 1 .. lN : i = 1
      BY <2>3
    <2> HIDE DEF rN, sN, lN, l, r, w, s, m, mN
    <2> QED
      BY <2>3, <2>4, <2>5, <2>6, <2>7, <2>8, <1>2, <1>4
  <1>12. ASSUME ~Flush(c), ~FlushButFirst(c) PROVE Holds
    <2>1. ~c.branch /\ ~(c.hwlp /\ ~FifoEmpty)
      BY <1>12 DEF Flush, FlushButFirst
    <2>2. /\ lN = (l - pop) + push
          /\ \A i \in 1 .. lN : fifo'[i] = IF i <= l - pop THEN fifo[i + pop] ELSE RespData
      BY <2>1, <1>1, FifoEdgeLength, FifoEdgeElements
    <2>3. (Memory!DoPush(Push(c)) <=> Push(c)) /\ (Memory!DoPop(Pop(c)) <=> Pop(c))
      BY <1>2, <1>3, <1>4 DEF Memory!DoPush, Memory!Full, Memory!DoPop, Memory!Empty
    <2>4. /\ rN = IF pop = 1 THEN Wrapped(r + 1) ELSE r
          /\ write_pointer_q' = IF push = 1 THEN Wrapped(w + 1) ELSE w
          /\ sN = (l - pop) + push
      <3>1. /\ rN = IF Pop(c) THEN Memory!Advance(r) ELSE r
            /\ write_pointer_q' = IF Push(c) THEN Memory!Advance(w) ELSE w
            /\ sN = Memory!StatusNext(Push(c), Pop(c))
        BY <2>3, <1>9, <1>12 DEF Memory!PointersEdge
      <3>2. sN = (l - pop) + push
        BY <3>1, <2>3, <1>3, <1>4 DEF Memory!StatusNext
      <3> QED BY <3>1, <3>2, <1>3, <1>4, <1>5, AdvanceIs
    <2> DEFINE wN == write_pointer_q'
    <2>5. /\ push = 1 => l < N /\ mN[w] = RespData
          /\ \A p \in 0 .. N - 1 : push = 0 \/ p # w => mN[p] = m[p]
          /\ pop = 1 => l > 0
      BY <1>3, <1>7
    <2>6. \A i \in 1 .. l : Wrapped(r + i - 1) \in 0 .. N - 1 /\ m[Wrapped(r + i - 1)] = fifo[i]
      BY <1>4
    <2>7. /\ r \in 0 .. N - 1 /\ s = l /\ w = Wrapped(r + l) /\ l \in Nat /\ l <= N
          /\ pop \in {0, 1} /\ push \in {0, 1} /\ w \in 0 .. N - 1
      BY <1>3, <1>4, <1>5
    <2> HIDE DEF rN, sN, lN, l, r, w, s, m, mN, pop, push, wN
    <2>8. /\ rN \in 0 .. N - 1 /\ lN \in 0 .. N /\ wN = Wrapped(rN + lN)
          /\ rN = Wrapped(r + pop)
      BY <2>2, <2>4, <2>5, <2>7, <1>2 DEF Wrapped, wN
    <2>9. ASSUME NEW i \in 1 .. lN PROVE mN[Wrapped(rN + i - 1)] = fifo'[i]
      <3>1. CASE i <= l - pop
        <4>1. i + pop \in 1 .. l /\ Wrapped(r + (i + pop) - 1) = Wrapped(rN + i - 1)
          BY <3>1, <2>7, <2>8, <1>2 DEF Wrapped
        <4>2. push = 0 \/ Wrapped(r + (i + pop) - 1) # w
          BY <4>1, <2>5, <2>7, <1>2 DEF Wrapped
        <4> QED BY <4>1, <4>2, <3>1, <2>2, <2>5, <2>6
      <3>2. CASE ~(i <= l - pop)
        <4>1. push = 1 /\ i = (l - pop) + 1
          BY <3>2, <2>2, <2>7
        <4>2. Wrapped(rN + i - 1) = w
          BY <4>1, <2>5, <2>7, <2>8, <1>2 DEF Wrapped
        <4> QED BY <4>1, <4>2, <3>2, <2>2, <2>5
      <3> QED BY <3>1, <3>2
    <2> QED BY <2>2, <2>4, <2>8, <2>9 DEF wN
  <1>13. Holds
    BY <1>10, <1>11, <1>12
  <1>14. write_pointer_q' = (rN + sN) % N
    <2>1. rN + sN \in 0 .. N + N - 1 /\ write_pointer_q' = Wrapped(rN + sN)
      BY <1>2, <1>3, <1>13
    <2> QED BY <2>1, Modulo
  <1>15. ASSUME NEW i \in 1 .. Len(fifo')
         PROVE  mem_q'[(read_pointer_q' + i - 1) % N] = fifo'[i]
    <2>1. rN + i - 1 \in 0 .. N + N - 1
      <3>1. rN \in 0 .. N - 1 /\ lN <= N
        BY <1>13
      <3>2. i \in Nat /\ i >= 1 /\ i <= lN
        BY <1>3
      <3> HIDE DEF rN, lN
      <3> QED BY <3>1, <3>2, <1>2, <1>3
    <2> QED BY <2>1, <1>13, Modulo
  <1>16. N' = N
    BY DEF N, Memory!PointerRange
  <1> QED
    BY <1>1, <1>6, <1>13, <1>14, <1>15 DEF BufferInv, Slot, N, Memory!PointerRange

LEMMA BufferNextInv == BufferInv /\ [BufferNext]_bufferVars => BufferInv'
  <1> SUFFICES ASSUME BufferInv, [BufferNext]_bufferVars PROVE BufferInv'
    OBVIOUS
  <1>1. CASE BufferNext
    BY <1>1, BufferStep DEF BufferNext
  <1>2. CASE UNCHANGED bufferVars
    <2>1. CounterInv'
      BY <1>2, StutterInv DEF BufferInv, bufferVars
    <2> QED
      BY <1>2, <2>1
         DEF bufferVars, vars, BufferInv, Slot, N, Memory!PointerRange
  <1> QED BY <1>1, <1>2

(* The memory from the read pointer on is the queue, and the write pointer *)
(* is where the next word belongs: no word the prefetcher pushes is lost   *)
(* or overwrites one that is still to be taken.                            *)
THEOREM BufferCorrect == BufferSpec => []BufferHolds
  <1>1. BufferInv => BufferHolds
    <2> SUFFICES ASSUME BufferInv PROVE BufferHolds
      OBVIOUS
    <2>1. Memory!Contents = fifo
      <3>1. fifo \in Seq(Word)
        BY DEF BufferInv, CounterInv, TypeOK, Fifo!QueueTypeOK
      <3>2. fifo = [i \in 1 .. Len(fifo) |-> fifo[i]]
        BY <3>1, LenProperties
      <3>3. \A i \in 1 .. Len(fifo) :
              mem_q[(read_pointer_q + i - 1) % Memory!PointerRange] = fifo[i]
        BY DEF BufferInv, Slot, N
      <3>4. Memory!Contents =
              [i \in 1 .. Len(fifo) |->
                 mem_q[(read_pointer_q + i - 1) % Memory!PointerRange]]
        BY DEF Memory!Contents, BufferInv
      <3> QED BY <3>2, <3>3, <3>4
    <2> QED BY <2>1 DEF BufferInv, BufferHolds, N
  <1>2. BufferSpec => BufferInit /\ [][BufferNext]_bufferVars
    BY DEF BufferSpec
  <1> QED
    BY <1>1, <1>2, InitBufferInv, BufferNextInv, PTL
=============================================================================
