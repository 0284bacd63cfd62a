---------------------------- MODULE LoadStoreUnit ----------------------------
(***************************************************************************)
(* The load/store unit of CV32E40P (rtl/cv32e40p_load_store_unit.sv) with  *)
(* the part of the pipeline it moves in lock step with: the LSU fields of  *)
(* the ID/EX register (rtl/cv32e40p_id_stage.sv) and the EX/WB register    *)
(* (rtl/cv32e40p_ex_stage.sv).  The data-side OBI adapter has              *)
(* TRANS_STABLE = 1 and passes requests through.                           *)
(*                                                                         *)
(* One step is one clock edge, c its inputs.  A byte of data is a number   *)
(* that names where it comes from: the memory byte a it was initially, the *)
(* byte of the stored register, or an extension; so the alignment network  *)
(* is visible and the width of a byte is not.                              *)
(***************************************************************************)
EXTENDS Integers, Sequences

CONSTANTS MemBytes,    \* bytes of the address space (2^32 in the code)
          Accesses     \* loads and stores the program may execute

DEPTH == 2             \* localparam: outstanding transactions

Addr == 0 .. MemBytes - 1
Lane == 0 .. 3
Byte == -3 - MemBytes - 4 .. MemBytes + 3

(* useincr: the address is base + off; otherwise it is base, and base + off *)
(* is written back to the base register (post-increment).                  *)
AccessType == [we : BOOLEAN, type : {"word", "half", "byte"},
               ext : {"zero", "ones", "sign"},
               base : Addr, off : Addr, useincr : BOOLEAN]

ASSUME LoadStoreUnitAssumption ==
  /\ MemBytes \in Nat /\ MemBytes > 0 /\ MemBytes % 4 = 0
  /\ Accesses \subseteq AccessType /\ Accesses # {}

VARIABLES
  PULP_OBI,              \* parameter of the build, never changes: legacy bus behaviour
  ex,                    \* what is in EX: bubble, alu, branch or lsu (data_req_ex)
  acc,                   \* ID/EX: the access, if ex is lsu
  alu_operand_a_ex, alu_operand_b_ex, prepost_useincr_ex, regfile_alu_we_ex,
  data_misaligned_ex,    \* ID/EX: second half of a misaligned access
  cnt_q,                 \* outstanding transactions
  data_type_q, rdata_offset_q, data_sign_ext_q, data_we_q,   \* the access in WB
  rdata_q,               \* first half of a misaligned load
  regfile_we_lsu,        \* EX/WB: the access in WB is a load
  bus,                   \* external memory: words read, not yet answered
  mem,                   \* external memory
  amem,                  \* history: memory as the program sees it
  want_wb,               \* history: what the load in WB has to return
  refused                \* history: address phase not granted at the last edge

exVars  == <<ex, acc, alu_operand_a_ex, alu_operand_b_ex, prepost_useincr_ex,
             regfile_alu_we_ex, data_misaligned_ex>>
wbVars  == <<cnt_q, data_type_q, rdata_offset_q, data_sign_ext_q, data_we_q,
             rdata_q, regfile_we_lsu>>
busVars == <<bus, mem>>
history == <<amem, want_wb, refused>>
vars    == <<PULP_OBI, exVars, wbVars, busVars, history>>

-----------------------------------------------------------------------------
(* The inputs of one cycle; acc matters only for a load or store. *)

AnAccess == CHOOSE a \in Accesses : TRUE

Input ==
  [id   : {"bubble", "alu", "branch"},   \* what ID would issue
   acc  : {AnAccess},
   busy : BOOLEAN,                       \* a multi-cycle operation is in EX
   gnt  : BOOLEAN,                       \* data memory grants
   resp : BOOLEAN]                       \* data memory answers
  \cup
  [id : {"lsu"}, acc : Accesses, busy : BOOLEAN, gnt : BOOLEAN, resp : BOOLEAN]

Zero == -1
Ones == -2
SignOf(b) == -3 - b
RegByte(i) == MemBytes + i    \* byte i of the register being stored

Word32 == [Lane -> Byte]

Add(a, b) == (a + b) % MemBytes
WordOf(a) == a \div 4
Offset(a) == a % 4

-----------------------------------------------------------------------------
(* What the program means: the bytes of an access. *)

Size(a) == IF a.type = "word" THEN 4 ELSE IF a.type = "half" THEN 2 ELSE 1

Start(a) == IF a.useincr THEN Add(a.base, a.off) ELSE a.base

LoadValue(m, a) ==
  LET msb == m[Add(Start(a), Size(a) - 1)]
      fill == IF a.ext = "zero" THEN Zero ELSE IF a.ext = "ones" THEN Ones ELSE SignOf(msb)
  IN  [i \in Lane |-> IF i < Size(a) THEN m[Add(Start(a), i)] ELSE fill]

Stored(m, a) ==
  [x \in Addr |-> IF \E i \in 0 .. Size(a) - 1 : x = Add(Start(a), i)
                  THEN RegByte(CHOOSE i \in 0 .. Size(a) - 1 : x = Add(Start(a), i))
                  ELSE m[x]]

-----------------------------------------------------------------------------
(* Combinational wires of the load/store unit. *)

DataReq == ex = "lsu"

AluResult == Add(alu_operand_a_ex, alu_operand_b_ex)

DataAddr == IF prepost_useincr_ex THEN AluResult ELSE alu_operand_a_ex

(* Wrong variant: halfwords are taken to be misaligned like words. *)
MisalignedHalfEarly ==
  /\ DataReq /\ ~data_misaligned_ex
  /\ \/ acc.type = "word" /\ Offset(DataAddr) # 0
     \/ acc.type = "half" /\ Offset(DataAddr) = 2

Misaligned ==
  /\ DataReq /\ ~data_misaligned_ex
  /\ \/ acc.type = "word" /\ Offset(DataAddr) # 0
     \/ acc.type = "half" /\ Offset(DataAddr) = 3

(* Byte enables of the current half. *)
ByteEnable ==
  LET o == Offset(DataAddr)
  IN  IF acc.type = "word"
      THEN IF data_misaligned_ex THEN {i \in Lane : i < o} ELSE {i \in Lane : i >= o}
      ELSE IF acc.type = "half"
      THEN IF data_misaligned_ex THEN {0} ELSE {o, o + 1} \cap Lane
      ELSE {o}

(* The register rotated by the offset of the address. *)
DataWData == [i \in Lane |-> RegByte((i - Offset(DataAddr)) % 4)]

TransAddr == WordOf(DataAddr)

(* Wrong variants: no limit on the outstanding requests; the legacy bus    *)
(* waits for an answer even if nothing is outstanding.                     *)
TransValidUnlimited(c) ==
  /\ DataReq
  /\ PULP_OBI => (cnt_q = 0 \/ c.resp)

TransValidNeedsAnswer(c) ==
  /\ DataReq
  /\ cnt_q < DEPTH
  /\ PULP_OBI => c.resp

TransValid(c) ==
  /\ DataReq
  /\ cnt_q < DEPTH
  /\ PULP_OBI => (cnt_q = 0 \/ c.resp)

Accepted(c) == TransValid(c) /\ c.gnt

LsuReadyWB(c) == cnt_q = 0 \/ c.resp

LsuReadyEXAnswered(c) ==    \* mutant: EX only waits for the answer in WB
  \/ ~DataReq
  \/ cnt_q = 0 /\ Accepted(c)
  \/ cnt_q > 0 /\ c.resp

LsuReadyEX(c) ==
  \/ ~DataReq
  \/ cnt_q = 0 /\ Accepted(c)
  \/ cnt_q = 1 /\ c.resp /\ Accepted(c)
  \/ cnt_q = 2 /\ c.resp

CtrlUpdate(c) == LsuReadyEX(c) /\ DataReq

EXReady(c) ==
  \/ ex = "branch"
  \/ LsuReadyEX(c) /\ LsuReadyWB(c) /\ ~c.busy

EXValid(c) == ex # "alu" \/ ~c.busy
EXDone(c)  == EXValid(c) /\ LsuReadyEX(c) /\ LsuReadyWB(c)   \* ex_valid_o

RespData == Head(bus)

Extend(b) ==
  IF data_sign_ext_q = "zero" THEN Zero
  ELSE IF data_sign_ext_q = "ones" THEN Ones ELSE SignOf(b)

DataRDataExt ==
  LET o == rdata_offset_q
      r == RespData
  IN  IF data_type_q = "word"
      THEN [i \in Lane |-> IF o = 0 THEN r[i]
                           ELSE IF i + o \in Lane THEN rdata_q[i + o] ELSE r[(i + o) - 4]]
      ELSE IF data_type_q = "half"
      THEN LET low  == IF o = 3 THEN rdata_q[3] ELSE r[o]
               high == IF o = 3 THEN r[0] ELSE r[o + 1]
           IN  [i \in Lane |-> IF i = 0 THEN low ELSE IF i = 1 THEN high ELSE Extend(high)]
      ELSE [i \in Lane |-> IF i = 0 THEN r[o] ELSE Extend(r[o])]

-----------------------------------------------------------------------------
(* Register updates. *)

(* Wrong variant: the base register is written again in the second half,   *)
(* whose adder works on the address of the first.                          *)
SecondHalfEdgeIncTwice ==
  /\ alu_operand_a_ex' = IF prepost_useincr_ex THEN AluResult ELSE alu_operand_a_ex
  /\ alu_operand_b_ex' = 4
  /\ prepost_useincr_ex' = TRUE
  /\ data_misaligned_ex' = TRUE
  /\ UNCHANGED <<ex, acc, amem, regfile_alu_we_ex>>

(* ID/EX while a misaligned access is in its first half: only the address  *)
(* operands move, to the address of the first half plus 4.                 *)
SecondHalfEdge ==
  /\ alu_operand_a_ex' = IF prepost_useincr_ex THEN AluResult ELSE alu_operand_a_ex
  /\ alu_operand_b_ex' = 4
  /\ regfile_alu_we_ex' = FALSE
  /\ prepost_useincr_ex' = TRUE
  /\ data_misaligned_ex' = TRUE
  /\ UNCHANGED <<ex, acc, amem>>

IssueEdge(c) ==
  /\ ex' = c.id
  /\ data_misaligned_ex' = FALSE
  /\ IF c.id = "lsu"
     THEN /\ acc' = c.acc
          /\ alu_operand_a_ex' = c.acc.base /\ alu_operand_b_ex' = c.acc.off
          /\ prepost_useincr_ex' = c.acc.useincr
          /\ regfile_alu_we_ex' = ~c.acc.useincr
          /\ amem' = IF c.acc.we THEN Stored(amem, c.acc) ELSE amem
     ELSE /\ regfile_alu_we_ex' = FALSE
          /\ UNCHANGED <<acc, alu_operand_a_ex, alu_operand_b_ex, prepost_useincr_ex, amem>>

IDEXEdge(c) ==
  IF ~EXReady(c) THEN UNCHANGED <<exVars, amem>>
  ELSE IF Misaligned THEN SecondHalfEdge
  ELSE IssueEdge(c)

(* EX/WB register and the registers of the LSU for the access in WB. *)
EXWBEdge(c) ==
  /\ regfile_we_lsu' = IF EXDone(c) THEN DataReq /\ ~acc.we
                       ELSE regfile_we_lsu /\ ~LsuReadyWB(c)
  /\ IF CtrlUpdate(c)
     THEN /\ data_type_q' = acc.type /\ data_sign_ext_q' = acc.ext
          /\ rdata_offset_q' = Offset(DataAddr) /\ data_we_q' = acc.we
          /\ want_wb' = LoadValue(amem, acc)
     ELSE UNCHANGED <<data_type_q, data_sign_ext_q, rdata_offset_q, data_we_q, want_wb>>
  /\ cnt_q' = (cnt_q + (IF Accepted(c) THEN 1 ELSE 0)) - (IF c.resp THEN 1 ELSE 0)

(* Wrong variant: the first half is only kept while it is itself in EX. *)
RDataEdgeLost(c) ==
  rdata_q' = IF c.resp /\ ~data_we_q
             THEN IF Misaligned THEN RespData ELSE DataRDataExt
             ELSE rdata_q

RDataEdge(c) ==
  rdata_q' = IF c.resp /\ ~data_we_q
             THEN IF data_misaligned_ex \/ Misaligned THEN RespData ELSE DataRDataExt
             ELSE rdata_q

(* External memory: performs an access when it grants it, answers in order *)
(* at least one cycle later.                                               *)
MemoryEdge(c) ==
  LET left == IF c.resp THEN Tail(bus) ELSE bus
      word == [i \in Lane |-> mem[4 * TransAddr + i]]
  IN  IF Accepted(c)
      THEN /\ bus' = Append(left, word)
           /\ mem' = IF acc.we
                     THEN [x \in Addr |-> IF WordOf(x) = TransAddr /\ Offset(x) \in ByteEnable
                                          THEN DataWData[Offset(x)] ELSE mem[x]]
                     ELSE mem
      ELSE bus' = left /\ mem' = mem

(* What the bus sees of a request; compared from one cycle to the next. *)
AddressPhase == <<TransAddr, acc.we, ByteEnable, DataWData>>

HistoryEdge(c) == refused' = IF TransValid(c) /\ ~c.gnt THEN AddressPhase ELSE <<>>

Legal(c) == /\ c.resp => bus # <<>>
            /\ c.busy => ex = "alu"

Cycle(c) ==
  /\ Legal(c)
  /\ PULP_OBI' = PULP_OBI
  /\ IDEXEdge(c)
  /\ EXWBEdge(c)
  /\ RDataEdge(c)
  /\ MemoryEdge(c)
  /\ HistoryEdge(c)

NoData == [i \in Lane |-> Zero]

Init ==
  /\ PULP_OBI \in BOOLEAN
  /\ ex = "bubble" /\ acc = AnAccess
  /\ alu_operand_a_ex = 0 /\ alu_operand_b_ex = 0
  /\ prepost_useincr_ex = FALSE /\ regfile_alu_we_ex = FALSE
  /\ data_misaligned_ex = FALSE
  /\ cnt_q = 0 /\ data_type_q = "word" /\ rdata_offset_q = 0
  /\ data_sign_ext_q = "zero" /\ data_we_q = FALSE
  /\ rdata_q = NoData /\ regfile_we_lsu = FALSE
  /\ bus = <<>> /\ mem = [a \in Addr |-> a]
  /\ amem = mem /\ want_wb = NoData /\ refused = <<>>

Issue  == \E c \in Input : EXReady(c) /\ ~Misaligned /\ Cycle(c)
Split  == \E c \in Input : EXReady(c) /\ Misaligned /\ Cycle(c)
Stall  == \E c \in Input : ~EXReady(c) /\ Cycle(c)

Next == Issue \/ Split \/ Stall

Spec == Init /\ [][Next]_vars

(* Fairness: the memory grants a request it keeps seeing and answers what  *)
(* it granted, and a multi-cycle operation in EX ends.                     *)
Granted  == \E c \in Input : Accepted(c) /\ Cycle(c)
Answered == \E c \in Input : c.resp /\ Cycle(c)
Computed == \E c \in Input : ex = "alu" /\ EXReady(c) /\ Cycle(c)

FairSpec == Spec /\ WF_vars(Granted) /\ WF_vars(Answered) /\ WF_vars(Computed)

-----------------------------------------------------------------------------
TypeOK ==
  /\ PULP_OBI \in BOOLEAN
  /\ ex \in {"bubble", "alu", "branch", "lsu"}
  /\ acc \in Accesses
  /\ alu_operand_a_ex \in Addr
  /\ alu_operand_b_ex \in Addr \cup {4}
  /\ {prepost_useincr_ex, regfile_alu_we_ex, data_misaligned_ex,
      data_we_q, regfile_we_lsu} \subseteq BOOLEAN
  /\ cnt_q \in 0 .. DEPTH
  /\ data_type_q \in {"word", "half", "byte"}
  /\ rdata_offset_q \in Lane
  /\ data_sign_ext_q \in {"zero", "ones", "sign"}
  /\ rdata_q \in Word32
  /\ bus \in Seq(Word32)
  /\ mem \in [Addr -> Byte] /\ amem \in [Addr -> Byte]
  /\ want_wb \in Word32

(* While a load is in WB its answer is still to come, and the last one     *)
(* completes exactly the bytes program order gives the load, for every     *)
(* alignment, size and extension, grant and answer delay, and whatever     *)
(* access follows it in EX.                                                *)
LoadsCorrect ==
  regfile_we_lsu =>
    /\ bus # <<>>
    /\ ~data_misaligned_ex => DataRDataExt = want_wb

(* The memory holds what the program has stored, byte for byte, the store  *)
(* in EX aside: no store is lost, doubled at a wrong place or reordered.   *)
StoresCorrect ==
  amem = IF DataReq /\ acc.we THEN Stored(mem, acc) ELSE mem

(* The base register of a post-increment access gets base + offset, also   *)
(* when the access is misaligned and its adder is reused for the address   *)
(* of the second half.                                                     *)
IncrementsCorrect == regfile_alu_we_ex => DataReq /\ AluResult = Add(acc.base, acc.off)

(* The OBI rule the pass-through adapter relies on (TRANS_STABLE = 1): a   *)
(* request that is not granted is repeated with the same address phase     *)
(* signals.                                                                *)
RequestStable ==
  refused # <<>> => DataReq /\ cnt_q < DEPTH /\ AddressPhase = refused

(* No load or store stays in EX for ever: the lock step of EX and WB never *)
(* waits for an answer to a request that was not sent, or for a grant that *)
(* waits for an answer.                                                    *)
AccessesMoveOn == []<>(ex # "lsu") \/ []<><<Issue>>_vars
=============================================================================
