----------------------------- MODULE Prefetcher -----------------------------
(***************************************************************************)
(* The instruction prefetcher of CV32E40P: the prefetch controller         *)
(* (rtl/cv32e40p_prefetch_controller.sv), the fetch FIFO (FifoQueue) and   *)
(* the instruction-side OBI adapter (rtl/cv32e40p_obi_interface.sv with    *)
(* TRANS_STABLE = 0) as rtl/cv32e40p_prefetch_buffer.sv connects them.     *)
(*                                                                         *)
(* One step is one clock edge; the input wires of the cycle are a record c *)
(* and the combinational wires are operators on c.  An address is the      *)
(* number of a 32-bit word, and the word read from memory is represented   *)
(* by its address, so "which word is delivered" is visible.                *)
(*                                                                         *)
(* The two neighbours are modelled from how the code uses them: the OBI    *)
(* memory, which grants when it likes and answers granted requests in      *)
(* order, at least one cycle later; and the fetch stage, whose aligner     *)
(* keeps the program counter pc it believes the next word to have.         *)
(***************************************************************************)
EXTENDS Integers, Sequences

CONSTANTS DEPTH,       \* FIFO entries and largest number of outstanding requests
          NumWords,    \* number of words of the address space (2^30 in the code)
          PULP_OBI,    \* legacy bus behaviour
          COREV_PULP   \* hardware loops present

Word == 0 .. NumWords - 1

ASSUME PrefetcherAssumption ==
  /\ DEPTH \in Nat /\ DEPTH > 1
  /\ NumWords \in Nat /\ NumWords > 0
  /\ PULP_OBI \in BOOLEAN /\ COREV_PULP \in BOOLEAN

VARIABLES
  state_q,                    \* IDLE, or BRANCH_WAIT: redirect target not yet accepted
  cnt_q,                      \* outstanding transactions
  flush_cnt_q,                \* responses still to be dropped
  trans_addr_q,               \* last (or waiting) transaction address
  hwlp_flush_after_resp,      \* drop responses, but only after HWLP_END has arrived
  hwlp_flush_cnt_delayed_q,   \* how many to drop then
  fifo,                       \* words received and not yet taken
  obi_state,                  \* OBI adapter: TRANSPARENT or REGISTERED
  obi_addr_q,                 \* address held while REGISTERED
  bus,                        \* external memory: granted addresses, not yet answered
  run,                        \* fetch stage: reset, refill (redirected), flow (word taken)
  pc,                         \* fetch stage: address of the next word to be taken
  hwlp_addr_q,                \* aligner: loop start to continue with ...
  hwlp_update_pc_q,           \* ... once the word at pc (HWLP_END) has been taken
  taken                       \* history: last word taken

ctrlVars  == <<state_q, cnt_q, flush_cnt_q, trans_addr_q,
               hwlp_flush_after_resp, hwlp_flush_cnt_delayed_q>>
obiVars   == <<obi_state, obi_addr_q, bus>>
fetchVars == <<run, pc, hwlp_addr_q, hwlp_update_pc_q, taken>>
vars      == <<ctrlVars, fifo, obiVars, fetchVars>>

Fifo == INSTANCE FifoQueue WITH Data <- Word, queue <- fifo

-----------------------------------------------------------------------------
(* The inputs of one cycle. *)

Input == [req    : BOOLEAN,   \* the controller wants instructions
          branch : BOOLEAN,   \* pc_set: redirect now
          hwlp   : BOOLEAN,   \* hardware loop jump, HWLP_END is still to be delivered
          target : Word,      \* branch_addr / hwlp_target
          want   : BOOLEAN,   \* the fetch stage accepts a word if one is offered
          gnt    : BOOLEAN,   \* memory grants the request of this cycle
          resp   : BOOLEAN]   \* memory answers the oldest granted request

Incr(a) == (a + 1) % NumWords

-----------------------------------------------------------------------------
(* Combinational wires of the prefetch controller. *)

FifoEmpty == fifo = <<>>

RespData == Head(bus)

FetchValid(c) == (~FifoEmpty \/ c.resp) /\ ~(c.branch \/ flush_cnt_q > 0)

FetchReady(c) == ~c.branch /\ FetchValid(c) /\ c.req /\ c.want

FetchData == IF FifoEmpty THEN RespData ELSE Head(fifo)

FifoCntMasked(c) == IF c.branch \/ c.hwlp THEN 0 ELSE Len(fifo)

(* Wrong variants, for the runs that show what breaks: one request too     *)
(* many, one too few.                                                      *)
TransValidOneMore(c) ==
  /\ c.req
  /\ FifoCntMasked(c) + cnt_q <= DEPTH
  /\ PULP_OBI => (cnt_q = 0 \/ c.resp)

TransValidOneLess(c) ==
  /\ c.req
  /\ FifoCntMasked(c) + cnt_q < DEPTH - 1
  /\ PULP_OBI => (cnt_q = 0 \/ c.resp)

TransValid(c) ==
  /\ c.req
  /\ FifoCntMasked(c) + cnt_q < DEPTH
  /\ PULP_OBI => (cnt_q = 0 \/ c.resp)

TransAddr(c) ==
  IF c.branch THEN c.target
  ELSE IF state_q = "BRANCH_WAIT" THEN trans_addr_q
  ELSE IF c.hwlp THEN c.target
  ELSE Incr(trans_addr_q)

TransReady == obi_state = "TRANSPARENT"

Accepted(c) == TransValid(c) /\ TransReady

Push(c) ==
  /\ c.resp
  /\ ~FifoEmpty \/ ~FetchReady(c)
  /\ ~(c.branch \/ flush_cnt_q > 0)

Pop(c) == ~FifoEmpty /\ FetchReady(c)

FlushWithLoopEnd(c) == c.branch \/ (c.hwlp /\ ~FifoEmpty)   \* wrong: drops HWLP_END

Flush(c) == c.branch \/ (c.hwlp /\ ~FifoEmpty /\ Pop(c))

FlushButFirst(c) == c.hwlp /\ ~FifoEmpty /\ ~Pop(c)

(* HWLP_END is being or was returned: drop everything else outstanding.    *)
HwlpFlushResp(c) == c.hwlp /\ ~(FifoEmpty /\ ~c.resp)

(* HWLP_END has not been returned yet: drop what follows it, but later.    *)
HwlpWaitRespFlushNever(c) == FALSE   \* wrong: what follows HWLP_END stays

HwlpWaitRespFlush(c) == c.hwlp /\ FifoEmpty /\ ~c.resp

HwlpFlushRespDelayed(c) == hwlp_flush_after_resp /\ c.resp

(* Wrong variants: the answer of this very cycle is counted as outstanding; *)
(* dropped answers are not counted down.                                    *)
NextFlushCntLateAnswer(c) ==
  IF c.branch \/ HwlpFlushResp(c) THEN cnt_q
  ELSE IF HwlpFlushRespDelayed(c) THEN hwlp_flush_cnt_delayed_q
  ELSE IF c.resp /\ flush_cnt_q > 0 THEN flush_cnt_q - 1
  ELSE flush_cnt_q

NextFlushCntSticky(c) ==
  IF c.branch \/ HwlpFlushResp(c)
  THEN IF c.resp /\ cnt_q > 0 THEN cnt_q - 1 ELSE cnt_q
  ELSE IF HwlpFlushRespDelayed(c) THEN hwlp_flush_cnt_delayed_q
  ELSE flush_cnt_q

NextFlushCnt(c) ==
  IF c.branch \/ HwlpFlushResp(c)
  THEN IF c.resp /\ cnt_q > 0 THEN cnt_q - 1 ELSE cnt_q
  ELSE IF HwlpFlushRespDelayed(c) THEN hwlp_flush_cnt_delayed_q
  ELSE IF c.resp /\ flush_cnt_q > 0 THEN flush_cnt_q - 1
  ELSE flush_cnt_q

-----------------------------------------------------------------------------
(* Register updates, one operator per block. *)

ControllerEdge(c) ==
  /\ state_q' =
       IF state_q = "IDLE"
       THEN IF (c.branch \/ c.hwlp) /\ ~Accepted(c) THEN "BRANCH_WAIT" ELSE "IDLE"
       ELSE IF Accepted(c) THEN "IDLE" ELSE "BRANCH_WAIT"
  /\ cnt_q' = (cnt_q + (IF Accepted(c) THEN 1 ELSE 0)) - (IF c.resp THEN 1 ELSE 0)
  /\ flush_cnt_q' = NextFlushCnt(c)
  /\ trans_addr_q' = IF c.branch \/ c.hwlp \/ Accepted(c)
                     THEN TransAddr(c) ELSE trans_addr_q

HwlpFlushEdge(c) ==
  IF c.branch \/ (HwlpFlushRespDelayed(c) /\ ~HwlpWaitRespFlush(c))
  THEN hwlp_flush_after_resp' = FALSE /\ hwlp_flush_cnt_delayed_q' = 0
  ELSE IF HwlpWaitRespFlush(c)
  THEN hwlp_flush_after_resp' = TRUE /\ hwlp_flush_cnt_delayed_q' = cnt_q - 1
  ELSE UNCHANGED <<hwlp_flush_after_resp, hwlp_flush_cnt_delayed_q>>

FifoEdge(c) ==
  Fifo!Cycle(Push(c), Pop(c), Flush(c), FlushButFirst(c), RespData)

(* OBI adapter: a request that is not granted at once is registered and    *)
(* then kept on the bus, whatever the prefetch controller does meanwhile.  *)
ObiReq(c) == obi_state = "REGISTERED" \/ TransValid(c)

ObiAddr(c) == IF obi_state = "REGISTERED" THEN obi_addr_q ELSE TransAddr(c)

ObiEdge(c) ==
  /\ obi_state' = IF ObiReq(c) /\ ~c.gnt THEN "REGISTERED" ELSE "TRANSPARENT"
  /\ obi_addr_q' = IF ObiReq(c) /\ ~c.gnt THEN ObiAddr(c) ELSE obi_addr_q

(* External memory. *)
Unanswered(c) == IF c.resp THEN Tail(bus) ELSE bus

MemoryEdge(c) ==
  bus' = IF ObiReq(c) /\ c.gnt THEN Append(Unanswered(c), ObiAddr(c)) ELSE Unanswered(c)

(* The fetch stage takes a word when FetchReady; its aligner moves pc on,  *)
(* to the loop start if a hardware loop jump is being or has been given.   *)
FetchEdge(c) ==
  /\ run' = IF c.branch THEN "refill"
            ELSE IF FetchReady(c)
            THEN IF c.hwlp \/ hwlp_update_pc_q THEN "refill" ELSE "flow"
            ELSE run
  /\ pc' = IF c.branch THEN c.target
           ELSE IF FetchReady(c)
           THEN IF c.hwlp THEN c.target
                ELSE IF hwlp_update_pc_q THEN hwlp_addr_q ELSE Incr(pc)
           ELSE pc
  /\ hwlp_update_pc_q' = (~(c.branch \/ FetchReady(c)) /\ (hwlp_update_pc_q \/ c.hwlp))
  /\ hwlp_addr_q' = IF ~(c.branch \/ FetchReady(c)) /\ c.hwlp
                    THEN c.target ELSE hwlp_addr_q
  /\ taken' = IF FetchReady(c) THEN FetchData ELSE taken

-----------------------------------------------------------------------------
(* What the neighbours do: the first request comes with the boot branch, a *)
(* branch comes with req, never with a loop jump; a loop jump comes while  *)
(* the instruction before HWLP_END is in ID, so a word has been taken      *)
(* since the last redirect and no earlier loop jump is pending; only       *)
(* granted requests are answered.                                          *)
Legal(c) ==
  /\ c.req => (run # "reset" \/ c.branch)
  /\ c.branch => c.req
  /\ c.hwlp => COREV_PULP /\ ~c.branch /\ run = "flow" /\ ~hwlp_update_pc_q
  /\ c.resp => bus # <<>>
  /\ c.target # 0 => c.branch \/ c.hwlp      \* looked at nowhere else

Cycle(c) ==
  /\ Legal(c)
  /\ ControllerEdge(c)
  /\ HwlpFlushEdge(c)
  /\ FifoEdge(c)
  /\ ObiEdge(c)
  /\ MemoryEdge(c)
  /\ FetchEdge(c)

Init ==
  /\ state_q = "IDLE" /\ cnt_q = 0 /\ flush_cnt_q = 0 /\ trans_addr_q = 0
  /\ hwlp_flush_after_resp = FALSE /\ hwlp_flush_cnt_delayed_q = 0
  /\ Fifo!QueueInit
  /\ obi_state = "TRANSPARENT" /\ obi_addr_q = 0 /\ bus = <<>>
  /\ run = "reset" /\ pc = 0 /\ hwlp_addr_q = 0 /\ hwlp_update_pc_q = FALSE
  /\ taken = 0

Branch   == \E c \in Input : c.branch /\ Cycle(c)
LoopJump == \E c \in Input : c.hwlp /\ Cycle(c)
Fetch    == \E c \in Input : ~c.branch /\ ~c.hwlp /\ Cycle(c)

Next == Branch \/ LoopJump \/ Fetch

Spec == Init /\ [][Next]_vars

(* Fairness: the memory eventually grants a registered request and answers *)
(* a granted one; the controller keeps asking for instructions and the     *)
(* decode stage does not refuse an offered word for ever.  No redirect is  *)
(* needed for any of them.                                                 *)
Granted  == \E c \in Input : obi_state = "REGISTERED" /\ c.gnt /\ Cycle(c)
Answered == \E c \in Input : c.resp /\ Cycle(c)
Asked    == \E c \in Input : ~c.branch /\ ~c.hwlp /\ Accepted(c) /\ Cycle(c)
Taken    == \E c \in Input : ~c.branch /\ FetchReady(c) /\ Cycle(c)

Fairness == WF_vars(Granted) /\ WF_vars(Answered) /\ WF_vars(Asked) /\ WF_vars(Taken)

-----------------------------------------------------------------------------
TypeOK ==
  /\ state_q \in {"IDLE", "BRANCH_WAIT"}
  /\ cnt_q \in 0 .. DEPTH
  /\ flush_cnt_q \in 0 .. DEPTH
  /\ trans_addr_q \in Word
  /\ hwlp_flush_after_resp \in BOOLEAN
  /\ hwlp_flush_cnt_delayed_q \in 0 .. DEPTH
  /\ Fifo!QueueTypeOK
  /\ obi_state \in {"TRANSPARENT", "REGISTERED"}
  /\ obi_addr_q \in Word
  /\ bus \in Seq(Word)
  /\ run \in {"reset", "refill", "flow"}
  /\ pc \in Word
  /\ hwlp_addr_q \in Word
  /\ hwlp_update_pc_q \in BOOLEAN
  /\ taken \in Word

(* Requests accepted from the controller and not yet answered, oldest first. *)
Outstanding == IF obi_state = "REGISTERED" THEN Append(bus, obi_addr_q) ELSE bus

(* The controller's transaction counter is the number of requests the bus  *)
(* really owes an answer for, in spite of requests the adapter has taken   *)
(* over before their grant (a wrong count makes a branch drop too few or   *)
(* too many answers).                                                      *)
OutstandingExact == cnt_q = Len(Outstanding)

(* The answers marked to be dropped are all still outstanding, and at most *)
(* one of the two ways of marking them is in use; the delayed one is used  *)
(* only while HWLP_END itself is still to come.                            *)
FlushBounded ==
  /\ flush_cnt_q <= cnt_q
  /\ hwlp_flush_after_resp =>
       /\ hwlp_flush_cnt_delayed_q < cnt_q
       /\ flush_cnt_q = 0 /\ FifoEmpty /\ hwlp_update_pc_q

(* Every answer that will not be dropped has a free place in the FIFO, so  *)
(* no response is ever lost for lack of room, although a redirect issues   *)
(* its request without waiting for room.                                   *)
RoomForAll ==
  (Len(fifo) + cnt_q) - (flush_cnt_q + hwlp_flush_cnt_delayed_q) <= DEPTH

(* The assertion a_hwlp_end_already_gnt_when_hwlp_branch of                *)
(* sva/cv32e40p_prefetch_controller_sva.sv, for every cycle in which a     *)
(* loop jump may come: HWLP_END has been requested by then.                *)
LoopEndRequested == run = "flow" => cnt_q > 0 \/ ~FifoEmpty

(* The words that will be delivered if no further redirect comes, then the *)
(* address that will be requested next.                                    *)
Live ==
  IF hwlp_flush_after_resp
  THEN <<Outstanding[1]>>
         \o SubSeq(Outstanding, 2 + hwlp_flush_cnt_delayed_q, Len(Outstanding))
  ELSE fifo \o SubSeq(Outstanding, 1 + flush_cnt_q, Len(Outstanding))

NextAddr == IF state_q = "BRANCH_WAIT" THEN trans_addr_q ELSE Incr(trans_addr_q)

Ahead == Append(Live, NextAddr)

(* What is buffered, outstanding and requested next is the instruction     *)
(* stream the program wants from pc on, without gap, repetition or stale   *)
(* word; a pending loop jump diverts it after its first word, HWLP_END.    *)
(* This is what a branch or a loop jump that races with grants, answers    *)
(* and FIFO pushes must not break.                                         *)
StreamIntact ==
  run # "reset" =>
    /\ Ahead[1] = pc
    /\ \A i \in 1 .. Len(Live) :
         Ahead[i + 1] = IF i = 1 /\ hwlp_update_pc_q
                        THEN hwlp_addr_q ELSE Incr(Ahead[i])

-----------------------------------------------------------------------------
(* The prefetcher implements FetchStream: each taken word is the one the   *)
(* program wants next.                                                     *)
Stream == INSTANCE FetchStream
            WITH next  <- pc,
                 loop  <- IF hwlp_update_pc_q THEN {hwlp_addr_q} ELSE {},
                 last  <- taken

FetchStreamSpec == Stream!Spec

(* Once a booted core stops branching, words keep being taken for ever: the *)
(* prefetcher never gets stuck with flushed answers, a full FIFO or a      *)
(* redirect it waits to issue.                                             *)
FetchProgress ==
  <>(run # "reset") /\ <>[][~Branch]_vars => []<><<Taken>>_vars
=============================================================================
