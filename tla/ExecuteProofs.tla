---------------------------- MODULE ExecuteProofs ----------------------------
(***************************************************************************)
(* Proofs about Execute, for every set of registers and of instructions,   *)
(* with and without COREV_PULP and for every choice of FPU latencies.      *)
(***************************************************************************)
EXTENDS Execute, SequenceTheorems, TLAPS

USE ExecuteAssumption

-----------------------------------------------------------------------------
(* The invariant                                                           *)

Decoded == {i \in InstrType : /\ i.inc => i.op \in {"load", "store"}
                              /\ i.op = "fpu" => i.lat \in 1 .. 3}

ResultType == [rd : Reg, last : BOOLEAN]

Entry == [rd : Reg, last : BOOLEAN, lat : 2 .. 3, new : BOOLEAN]

TypeInv ==
  /\ COREV_PULP \in BOOLEAN /\ lats \subseteq 1 .. 3
  /\ id \in Decoded /\ ex \in Decoded
  /\ instr_valid_id \in BOOLEAN /\ regfile_alu_we_ex \in BOOLEAN
  /\ data_misaligned_ex \in BOOLEAN /\ regfile_waddr_ex \in Reg
  /\ unit \in {"IDLE", "STEP0", "STEP1", "STEP2", "DIVIDE", "FINISH"}
  /\ cnt_q \in 0 .. 2 /\ regfile_we_lsu \in BOOLEAN /\ wb \in ResultType
  /\ valid_inflight \in BOOLEAN /\ addr_inflight \in Reg /\ apu_lat \in 0 .. 3
  /\ apu_rvalid_q \in BOOLEAN /\ apu_result_q \in ResultType
  /\ fpu \in Seq(Entry)
  /\ rf_ok \in [Reg -> BOOLEAN]

(* The ID/EX register and the multi-cycle units belong together; a second  *)
(* half has no increment; the partial sums of a mulh are never disturbed.  *)
ExInv ==
  /\ regfile_alu_we_ex => WritesAlu(ex)
  /\ data_misaligned_ex => DataReqEX /\ ex.mis /\ ~regfile_alu_we_ex
  /\ WritesLsu(ex) => regfile_waddr_ex = ex.rd
  /\ unit \in {"STEP0", "STEP1", "STEP2"} => ex.op = "mulh"
  /\ unit = "DIVIDE" => ex.op = "div"
  /\ unit = "FINISH" => ex.op \in {"mulh", "div"}
  /\ acc_ok

(* A load in WB waits for an answer, its register is the one load_stall    *)
(* looks at, and only a load or FPU operation in EX may be the next writer *)
(* of that register.                                                       *)
WbInv ==
  /\ regfile_we_lsu => cnt_q > 0
  /\ cnt_q = 2 => DataReqEX
  /\ regfile_we_lsu /\ data_misaligned_ex => WritesLsu(ex) /\ wb.rd = ex.rd
  /\ regfile_we_lsu /\ ~WritesLsu(ex) => regfile_waddr_ex = wb.rd
  /\ regfile_we_lsu /\ ~wb.last => ex.op \in {"load", "fpu"} /\ ex.rd = wb.rd

(* The result of the operation in flight is in the FPU or memorised.       *)
ApuLast == IF apu_rvalid_q THEN apu_result_q.last ELSE Head(fpu).last

InFlightIs ==
  /\ apu_lat \in {2, 3}
  /\ IF apu_rvalid_q THEN fpu = <<>> /\ apu_lat = 3 /\ apu_result_q.rd = addr_inflight
     ELSE Len(fpu) = 1 /\ Head(fpu).rd = addr_inflight /\ Head(fpu).lat = apu_lat
  /\ ~ApuLast => ex.op = "fpu" /\ ex.rd = addr_inflight
  /\ apu_lat = 2 /\ regfile_we_lsu => ex.op = "fpu" /\ ex.rd = addr_inflight
  /\ ex.op # "csr"

(* The latency classes let at most one operation be in flight, so nothing  *)
(* ever waits behind it.  A younger operation on the same register is      *)
(* still in EX, and one of latency 2 meets a load in WB only while it is   *)
(* itself held in EX, where it is requested again.                         *)
ApuInv ==
  /\ ~valid_waiting
  /\ valid_inflight => InFlightIs
  /\ ~valid_inflight => fpu = <<>> /\ ~apu_rvalid_q

(* What is still to be written to r. *)
ExPending(r) ==
  \/ regfile_alu_we_ex /\ AluDest(ex) = r
  \/ WritesLsu(ex) /\ ex.rd = r
  \/ ex.op = "fpu" /\ ex.rd = r

WbPending(r)  == regfile_we_lsu /\ wb.rd = r /\ wb.last
ApuPending(r) == valid_inflight /\ addr_inflight = r /\ ApuLast

(* A register without its value of program order will get it. *)
Pending ==
  /\ rf_ok[0]
  /\ \A r \in Reg : ~rf_ok[r] => ExPending(r) \/ WbPending(r) \/ ApuPending(r)

ExecInv == TypeInv /\ ExInv /\ WbInv /\ ApuInv /\ Pending

-----------------------------------------------------------------------------
(* A cycle, edge by edge                                                   *)

LEMMA InputFacts ==
  ASSUME NEW c \in Input
  PROVE  /\ c.fetch \in BOOLEAN /\ c.halt \in BOOLEAN /\ c.taken \in BOOLEAN
         /\ c.gnt \in BOOLEAN /\ c.rvalid \in BOOLEAN /\ c.gntF \in BOOLEAN
         /\ c.doneF \in BOOLEAN /\ c.doneD \in BOOLEAN
         /\ c.gnt => TransValid
         /\ c.rvalid => cnt_q > 0
         /\ c.gntF => valid_req
  BY DEF Input, Free

Issues(c) == IdReady(c) /\ ~c.halt /\ Asserted(c) /\ id.op # "bubble"

NewDests(c) == IF Issues(c) THEN Dests(id) ELSE {}

LEMMA Edges ==
  ASSUME NEW c \in Input, Cycle(c)
  PROVE  /\ FetchEdge(c, Wires(c)) /\ UnitEdge(c, Wires(c)) /\ IssueEdge(c, Wires(c))
         /\ WriteBackEdge(c, Wires(c)) /\ DispatchEdge(c) /\ MemorizeEdge(c, Wires(c))
         /\ FpuEdge(c, Wires(c)) /\ RegisterEdge(c, Wires(c)) /\ HistoryEdge(c, Wires(c))
         /\ UNCHANGED build
  BY DEF Cycle

LEMMA WiresAre ==
  ASSUME NEW c \in Input
  PROVE  /\ Wires(c).id_ready <=> IdReady(c)
         /\ Wires(c).ex_ready <=> EXReady(c)
         /\ Wires(c).jumps <=> Jumps(c)
         /\ Wires(c).issues <=> Issues(c)
         /\ Wires(c).hold <=> HoldResult(c)
         /\ Wires(c).by_apu <=> AluPortByApu(c)
         /\ IssuedDests(Wires(c)) = NewDests(c)
  BY DEF Wires, Issues, IssuedDests, NewDests

LEMMA DecodedFacts ==
  ASSUME NEW i \in Decoded
  PROVE  /\ i.op \in Ops /\ i.rs \in Reg /\ i.rd \in Reg
         /\ i.inc \in BOOLEAN /\ i.mis \in BOOLEAN
         /\ i.inc => i.op \in {"load", "store"}
         /\ i.op = "fpu" => i.lat \in 1 .. 3
         /\ i.lat \in 0 .. 3
         /\ AluDest(i) \in Reg
         /\ WritesAlu(i) <=> i.op \in {"alu", "mulh", "div", "jalr", "csr"} \/ i.inc
         /\ WritesLsu(i) <=> i.op = "load"
  BY DEF Decoded, InstrType, AluDest, WritesAlu, WritesLsu

LEMMA BubbleDecoded == Bubble \in Decoded
  BY DEF Bubble, Decoded, InstrType, Ops

-----------------------------------------------------------------------------
(* The wires of the dispatcher                                             *)

LEMMA FpuInEx ==
  ASSUME TypeInv, ExInv, ex.op = "fpu", NEW c \in Input
  PROVE  /\ ~regfile_alu_we_ex /\ ~DataReqEX /\ ~data_misaligned_ex /\ ~Misaligned
         /\ ~MulhActive /\ ~WritesLsu(ex) /\ ~WritesAlu(ex)
         /\ ~HoldResult(c) /\ UnitsReady
  <1>1. ex \in Decoded
    BY DEF TypeInv
  <1>2. ~WritesAlu(ex) /\ ~WritesLsu(ex) /\ ~DataReqEX
    BY <1>1, DecodedFacts DEF DataReqEX
  <1> QED BY <1>2 DEF ExInv, Misaligned, MulhActive, HoldResult, UnitsReady

LEMMA ApuWires ==
  ASSUME TypeInv, ExInv, ApuInv, NEW c \in Input
  PROVE  /\ (active <=> valid_inflight) /\ ~stall_full
         /\ apu_stall_disp(c) <=> stall_type \/ (valid_req /\ ~c.gntF)
         /\ returned_inflight(c) <=> valid_inflight /\ apu_valid(c)
         /\ ~returned_waiting(c)
         /\ ~valid_inflight => /\ apu_valid(c) <=> AtOnce(c)
                               /\ returned_req(c) <=> AtOnce(c)
         /\ valid_inflight => ~AtOnce(c) /\ ~returned_req(c)
         /\ valid_inflight /\ apu_lat = 2 => apu_valid(c) /\ ~apu_rvalid_q
         /\ valid_inflight /\ valid_req => apu_lat = 2 /\ ex.lat = 2
         /\ valid_inflight => apu_lat \in {2, 3}
         /\ valid_req => ex.op = "fpu"
         /\ req_accepted(c) => valid_req /\ c.gntF
  <1>1. ~valid_waiting
    BY DEF ApuInv
  <1>2. (active <=> valid_inflight) /\ ~stall_full
    BY <1>1 DEF active, stall_full
  <1>3. apu_stall_disp(c) <=> stall_type \/ (valid_req /\ ~c.gntF)
    BY <1>2 DEF apu_stall_disp
  <1>4. (returned_inflight(c) <=> valid_inflight /\ apu_valid(c)) /\ ~returned_waiting(c)
    BY <1>1 DEF returned_inflight, returned_waiting
  <1>5. valid_req => ex.op = "fpu"
    BY DEF valid_req
  <1>6. ex.op = "fpu" => ex.lat \in 1 .. 3
    BY DecodedFacts DEF TypeInv
  <1>7. valid_inflight => apu_lat \in {2, 3}
    BY DEF ApuInv, InFlightIs
  <1>8. valid_inflight /\ valid_req => apu_lat = 2 /\ ex.lat = 2
    BY <1>2, <1>5, <1>6, <1>7 DEF valid_req, stall_type
  <1>9. req_accepted(c) => valid_req /\ c.gntF
    BY DEF req_accepted
  <1>10. valid_inflight => ~AtOnce(c) /\ ~returned_req(c)
    BY <1>8, <1>9 DEF AtOnce, returned_req
  <1>11. valid_inflight /\ apu_lat = 2 => apu_valid(c) /\ ~apu_rvalid_q
    <2> SUFFICES ASSUME valid_inflight, apu_lat = 2 PROVE apu_valid(c) /\ ~apu_rvalid_q
      OBVIOUS
    <2>1. ~apu_rvalid_q /\ Len(fpu) = 1 /\ Head(fpu).lat = 2
      BY DEF ApuInv, InFlightIs
    <2>2. fpu # <<>>
      BY <2>1
    <2> QED BY <2>1, <2>2 DEF apu_valid, apu_multicycle, apu_rvalid, HeadReturns
  <1>12. ~valid_inflight => (apu_valid(c) <=> AtOnce(c)) /\ (returned_req(c) <=> AtOnce(c))
    <2> SUFFICES ASSUME ~valid_inflight
                 PROVE  (apu_valid(c) <=> AtOnce(c)) /\ (returned_req(c) <=> AtOnce(c))
      OBVIOUS
    <2>1. fpu = <<>> /\ ~apu_rvalid_q
      BY DEF ApuInv
    <2>2. apu_rvalid(c) <=> AtOnce(c)
      BY <2>1 DEF apu_rvalid, HeadReturns
    <2>3. AtOnce(c) => ~HoldResult(c) /\ valid_req
      BY <1>5, <1>9, FpuInEx DEF AtOnce
    <2> QED BY <2>1, <2>2, <2>3, <1>1 DEF apu_valid, returned_req
  <1> QED BY <1>2, <1>3, <1>4, <1>5, <1>7, <1>8, <1>9, <1>10, <1>11, <1>12

(* Which write port a result takes, and what it carries. *)
LEMMA ApuPorts ==
  ASSUME TypeInv, ExInv, ApuInv, NEW c \in Input
  PROVE  /\ AluPortByApu(c) <=> AtOnce(c) \/ (valid_inflight /\ apu_lat = 3 /\ apu_valid(c))
         /\ LsuPortByApu(c) <=> valid_inflight /\ apu_lat = 2
         /\ AtOnce(c) => /\ apu_waddr(c) = ex.rd
                         /\ apu_result(c).rd = ex.rd /\ apu_result(c).last
         /\ valid_inflight /\ apu_valid(c) =>
              /\ apu_waddr(c) = addr_inflight
              /\ apu_result(c).rd = addr_inflight
              /\ apu_result(c).last <=> ApuLast
  <1>1. /\ active <=> valid_inflight
        /\ returned_inflight(c) <=> valid_inflight /\ apu_valid(c)
        /\ ~returned_waiting(c)
        /\ ~valid_inflight => /\ apu_valid(c) <=> AtOnce(c)
                              /\ returned_req(c) <=> AtOnce(c)
        /\ valid_inflight => ~AtOnce(c) /\ ~returned_req(c)
        /\ valid_inflight /\ apu_lat = 2 => apu_valid(c) /\ ~apu_rvalid_q
        /\ valid_inflight => apu_lat \in {2, 3}
    BY ApuWires
  <1>2. AluPortByApu(c) <=> AtOnce(c) \/ (valid_inflight /\ apu_lat = 3 /\ apu_valid(c))
    BY <1>1 DEF AluPortByApu, apu_singlecycle, apu_multicycle
  <1>3. LsuPortByApu(c) <=> valid_inflight /\ apu_lat = 2
    BY <1>1 DEF LsuPortByApu, apu_singlecycle, apu_multicycle
  <1>4. ASSUME AtOnce(c)
        PROVE  apu_waddr(c) = ex.rd /\ apu_result(c).rd = ex.rd /\ apu_result(c).last
    <2>1. ~valid_inflight /\ returned_req(c) /\ ~returned_inflight(c)
      BY <1>1, <1>4
    <2>2. fpu = <<>> /\ ~apu_rvalid_q
      BY <2>1 DEF ApuInv
    <2>3. apu_result(c) = Result(ex.rd, TRUE)
      BY <2>2 DEF apu_result, FpuResult, HeadReturns
    <2> QED BY <1>1, <2>1, <2>3 DEF apu_waddr, Result
  <1>5. ASSUME valid_inflight, apu_valid(c)
        PROVE  /\ apu_waddr(c) = addr_inflight
               /\ apu_result(c).rd = addr_inflight
               /\ apu_result(c).last <=> ApuLast
    <2>1. apu_waddr(c) = addr_inflight
      BY <1>1, <1>5 DEF apu_waddr
    <2>2. CASE apu_rvalid_q
      BY <2>1, <2>2, <1>5 DEF apu_result, ApuInv, InFlightIs, ApuLast
    <2>3. CASE ~apu_rvalid_q
      <3>1. HeadReturns(c)
        BY <2>3, <1>1, <1>5 DEF apu_valid, apu_rvalid
      <3>2. apu_result(c) = Result(Head(fpu).rd, Head(fpu).last)
        BY <2>3, <3>1 DEF apu_result, FpuResult
      <3>3. Head(fpu).rd = addr_inflight
        BY <2>3, <1>5 DEF ApuInv, InFlightIs
      <3> QED BY <2>1, <2>3, <3>2, <3>3 DEF Result, ApuLast
    <2> QED BY <2>2, <2>3 DEF TypeInv
  <1> QED BY <1>2, <1>3, <1>4, <1>5

-----------------------------------------------------------------------------
(* The three things EX can do in a cycle                                   *)

Stays(c) ==
  /\ ~EXReady(c) /\ ~Issues(c)
  /\ ex' = ex /\ data_misaligned_ex' = data_misaligned_ex
  /\ regfile_waddr_ex' = regfile_waddr_ex
  /\ regfile_alu_we_ex' <=> regfile_alu_we_ex /\ ex.op # "csr"

Splits(c) ==
  /\ EXReady(c) /\ ~Issues(c) /\ Misaligned
  /\ ex' = ex /\ data_misaligned_ex' /\ ~regfile_alu_we_ex'
  /\ regfile_waddr_ex' = regfile_waddr_ex

Leaves(c) ==
  /\ EXReady(c) /\ ~Misaligned
  /\ ex' = IF Issues(c) THEN id ELSE Bubble
  /\ regfile_alu_we_ex' <=> Issues(c) /\ WritesAlu(id)
  /\ regfile_waddr_ex' = IF Issues(c) /\ WritesLsu(id) THEN id.rd ELSE regfile_waddr_ex
  /\ ~data_misaligned_ex'

LEMMA HeldBehindMulh ==
  ASSUME TypeInv, ExInv, ApuInv, NEW c \in Input, MulhActive
  PROVE  ~AluPortByApu(c)
  <1>1. HoldResult(c) /\ ex.op = "mulh"
    BY DEF HoldResult, MulhActive
  <1>2. ~AtOnce(c)
    BY <1>1, ApuWires DEF AtOnce
  <1>3. apu_lat = 3 => ~apu_valid(c)
    BY <1>1 DEF apu_valid, apu_multicycle
  <1> QED BY <1>2, <1>3, ApuPorts

LEMMA ExEdge ==
  ASSUME TypeInv, ExInv, ApuInv, NEW c \in Input, Cycle(c)
  PROVE  /\ Stays(c) \/ Splits(c) \/ Leaves(c)
         /\ acc_ok'
  <1> DEFINE w == Wires(c)
  <1>1. /\ w.id_ready <=> IdReady(c)
        /\ w.ex_ready <=> EXReady(c)
        /\ w.issues <=> Issues(c)
        /\ w.by_apu <=> AluPortByApu(c)
    BY WiresAre
  <1>2. IssueEdge(c, w)
    BY Edges
  <1>3. IdReady(c) => EXReady(c) /\ ~Misaligned
    BY DEF IdReady
  <1>4. Issues(c) => IdReady(c)
    BY DEF Issues
  <1>5. MulMulticycle => ex.op = "mulh" /\ MulhActive /\ ~Misaligned
    BY DEF MulMulticycle, ExInv, MulhActive, Misaligned, DataReqEX
  <1>6. acc_ok
    BY DEF ExInv
  <1> HIDE DEF w
  <1>7. CASE Misaligned
    <2>1. /\ IF w.ex_ready THEN data_misaligned_ex' = TRUE /\ regfile_alu_we_ex' = FALSE
                           ELSE UNCHANGED <<data_misaligned_ex, regfile_alu_we_ex>>
          /\ UNCHANGED <<ex, regfile_waddr_ex, acc_ok>>
      BY <1>2, <1>5, <1>7 DEF IssueEdge
    <2>2. ~Issues(c) /\ ex.op # "csr"
      BY <1>3, <1>4, <1>7 DEF Misaligned, DataReqEX
    <2>3. CASE EXReady(c)
      BY <2>1, <2>2, <2>3, <1>1, <1>6, <1>7 DEF Splits
    <2>4. CASE ~EXReady(c)
      BY <2>1, <2>2, <2>4, <1>1, <1>6 DEF Stays, TypeInv
    <2> QED BY <2>3, <2>4
  <1>8. CASE MulMulticycle
    <2>1. /\ acc_ok' = (acc_ok /\ ~w.by_apu)
          /\ UNCHANGED <<ex, regfile_alu_we_ex, regfile_waddr_ex, data_misaligned_ex>>
      BY <1>2, <1>5, <1>8 DEF IssueEdge
    <2>2. acc_ok'
      BY <2>1, <1>1, <1>5, <1>6, <1>8, HeldBehindMulh
    <2>3. ~EXReady(c)
      BY <1>5, <1>8 DEF EXReady, UnitsReady, MulMulticycle
    <2>4. ~Issues(c)
      BY <2>3, <1>3, <1>4
    <2> QED BY <2>1, <2>2, <2>3, <2>4, <1>5, <1>8 DEF Stays, TypeInv
  <1>9. CASE ~Misaligned /\ ~MulMulticycle
    <2>1. /\ acc_ok' = TRUE
          /\ IF (w.id_ready /\ ~c.halt) \/ w.ex_ready
             THEN /\ ex' = IF w.issues THEN id ELSE Bubble
                  /\ regfile_alu_we_ex' = (w.issues /\ WritesAlu(id))
                  /\ regfile_waddr_ex' = IF w.issues /\ WritesLsu(id) THEN id.rd
                                         ELSE regfile_waddr_ex
                  /\ data_misaligned_ex' = FALSE
             ELSE /\ regfile_alu_we_ex' = (regfile_alu_we_ex /\ ex.op # "csr")
                  /\ UNCHANGED <<ex, regfile_waddr_ex, data_misaligned_ex>>
      BY <1>2, <1>9 DEF IssueEdge
    <2>2. CASE EXReady(c)
      BY <2>1, <2>2, <1>1, <1>9 DEF Leaves
    <2>3. CASE ~EXReady(c)
      BY <2>1, <2>3, <1>1, <1>3, <1>4 DEF Stays
    <2> QED BY <2>1, <2>2, <2>3
  <1> QED BY <1>7, <1>8, <1>9

-----------------------------------------------------------------------------
(* The operations in flight after a cycle                                  *)

LEMMA AsSequence ==
  ASSUME NEW S, NEW n \in Nat, NEW s \in [1 .. n -> S]
  PROVE  s \in Seq(S) /\ Len(s) = n
  OBVIOUS

LEMMA OneEntry ==
  ASSUME NEW S, NEW e \in S, NEW s, s = [i \in {1} |-> e]
  PROVE  s \in Seq(S) /\ Len(s) = 1 /\ Head(s) = e
  <1>1. s \in [1 .. 1 -> S] /\ 1 \in Nat
    OBVIOUS
  <1>2. s \in Seq(S) /\ Len(s) = 1
    BY <1>1, AsSequence
  <1> QED BY <1>2, HeadTailProperties

LEMMA NoEntry ==
  ASSUME NEW s, DOMAIN s = {}, s = [i \in DOMAIN s |-> s[i]]
  PROVE  s = <<>>
  <1>1. s \in [1 .. 0 -> {}] /\ 0 \in Nat
    OBVIOUS
  <1>2. s \in Seq({}) /\ Len(s) = 0
    BY <1>1, AsSequence
  <1> QED BY <1>2, EmptySeq

LEMMA AppendOne ==
  ASSUME NEW S, NEW e \in S
  PROVE  DOMAIN Append(<<>>, e) = {1} /\ Append(<<>>, e)[1] = e
  <1>1. <<>> \in Seq(S) /\ Len(<<>>) = 0
    OBVIOUS
  <1>2. /\ Append(<<>>, e) \in Seq(S) /\ Len(Append(<<>>, e)) = 1
        /\ Append(<<>>, e)[1] = e
    BY <1>1, AppendProperties
  <1>3. DOMAIN Append(<<>>, e) = 1 .. 1
    BY <1>2, LenProperties
  <1> QED BY <1>2, <1>3

(* What FpuEdge makes of at most one operation. *)
LEMMA FpuNext ==
  ASSUME TypeInv, ExInv, ApuInv, NEW c \in Input, Cycle(c)
  PROVE  /\ (fpu = <<>> \/ HeadReturns(c)) /\ ~(req_accepted(c) /\ ex.lat # 1) => fpu' = <<>>
         /\ (fpu = <<>> \/ HeadReturns(c)) /\ req_accepted(c) /\ ex.lat # 1 =>
              /\ fpu' \in Seq(Entry) /\ Len(fpu') = 1
              /\ Head(fpu').rd = ex.rd /\ Head(fpu').lat = ex.lat
              /\ Head(fpu').last <=> ex.rd \notin NewDests(c)
         /\ fpu # <<>> /\ ~HeadReturns(c) /\ ~(req_accepted(c) /\ ex.lat # 1) =>
              /\ fpu' \in Seq(Entry) /\ Len(fpu') = 1
              /\ Head(fpu').rd = Head(fpu).rd /\ Head(fpu').lat = Head(fpu).lat
              /\ Head(fpu').last <=> Head(fpu).last /\ Head(fpu).rd \notin NewDests(c)
              /\ ~Head(fpu').new
  <1> DEFINE left  == IF HeadReturns(c) THEN Tail(fpu) ELSE fpu
             old   == [i \in DOMAIN left |-> [left[i] EXCEPT !.new = FALSE]]
             taken == req_accepted(c) /\ ex.lat # 1
             new   == [rd |-> ex.rd, last |-> TRUE, lat |-> ex.lat, new |-> TRUE]
             all   == IF taken THEN Append(old, new) ELSE old
  <1>1. fpu' = [i \in DOMAIN all |-> Outdated(all[i], NewDests(c))]
    <2>1. IssuedDests(Wires(c)) = NewDests(c) /\ FpuEdge(c, Wires(c))
      BY WiresAre, Edges
    <2> QED BY <2>1 DEF FpuEdge
  <1>2. fpu \in Seq(Entry) /\ (fpu = <<>> \/ Len(fpu) = 1)
    <2>1. fpu \in Seq(Entry)
      BY DEF TypeInv
    <2> QED BY <2>1 DEF ApuInv, InFlightIs
  <1>3. HeadReturns(c) => fpu # <<>>
    BY DEF HeadReturns
  <1>4. fpu # <<>> => Head(fpu) \in Entry /\ Tail(fpu) = <<>> /\ Head(fpu) = fpu[1]
                      /\ DOMAIN fpu = {1}
    <2> SUFFICES ASSUME fpu # <<>>
                 PROVE  Head(fpu) \in Entry /\ Tail(fpu) = <<>> /\ Head(fpu) = fpu[1]
                        /\ DOMAIN fpu = {1}
      OBVIOUS
    <2>1. Len(Tail(fpu)) = 0 /\ Tail(fpu) \in Seq(Entry)
      BY <1>2, HeadTailProperties
    <2>2. Tail(fpu) = <<>>
      BY <2>1, EmptySeq
    <2>3. DOMAIN fpu = 1 .. 1
      BY <1>2, LenProperties
    <2> QED BY <1>2, <2>2, <2>3, HeadTailProperties
  <1>5. taken => new \in Entry
    <2>1. taken => ex.op = "fpu" /\ ex \in Decoded
      BY ApuWires DEF TypeInv
    <2> QED BY <2>1, DecodedFacts DEF Entry
  <1>6. \A e \in Entry : /\ Outdated(e, NewDests(c)) \in Entry
                         /\ Outdated(e, NewDests(c)).rd = e.rd
                         /\ Outdated(e, NewDests(c)).lat = e.lat
                         /\ Outdated(e, NewDests(c)).new = e.new
                         /\ Outdated(e, NewDests(c)).last <=> e.last /\ e.rd \notin NewDests(c)
    BY DEF Outdated, Entry
  <1>7. ASSUME fpu = <<>> \/ HeadReturns(c)
        PROVE  left = <<>> /\ old = <<>>
    <2>1. left = <<>>
      BY <1>4, <1>7
    <2>2. DOMAIN left = {}
      BY <2>1
    <2>3. DOMAIN old = {} /\ old = [i \in DOMAIN old |-> old[i]]
      BY <2>2
    <2> HIDE DEF old
    <2>4. old = <<>>
      BY <2>3, NoEntry
    <2> QED BY <2>1, <2>4
  <1>8. ASSUME fpu = <<>> \/ HeadReturns(c), ~taken
        PROVE  fpu' = <<>>
    <2>1. all = <<>>
      BY <1>7, <1>8
    <2>2. DOMAIN all = {}
      BY <2>1
    <2> HIDE DEF all
    <2>3. DOMAIN fpu' = {} /\ fpu' = [i \in DOMAIN fpu' |-> fpu'[i]]
      BY <1>1, <2>2
    <2> QED BY <2>3, NoEntry
  <1>9. ASSUME fpu = <<>> \/ HeadReturns(c), taken
        PROVE  /\ fpu' \in Seq(Entry) /\ Len(fpu') = 1
               /\ Head(fpu') = Outdated(new, NewDests(c))
    <2>1. all = Append(<<>>, new)
      BY <1>7, <1>9
    <2>2. DOMAIN all = {1} /\ all[1] = new
      <3>1. new \in Entry
        BY <1>5, <1>9
      <3> HIDE DEF all, new
      <3> QED BY <2>1, <3>1, AppendOne
    <2> DEFINE e == Outdated(new, NewDests(c))
    <2>3. e \in Entry
      BY <1>5, <1>6, <1>9
    <2> HIDE DEF all, new
    <2>4. fpu' = [i \in {1} |-> e]
      BY <1>1, <2>2
    <2> HIDE DEF e
    <2>5. fpu' \in Seq(Entry) /\ Len(fpu') = 1 /\ Head(fpu') = e
      BY <2>3, <2>4, OneEntry
    <2> QED BY <2>5 DEF e
  <1>10. ASSUME fpu # <<>>, ~HeadReturns(c), ~taken
         PROVE  /\ fpu' \in Seq(Entry) /\ Len(fpu') = 1
                /\ Head(fpu') = Outdated([Head(fpu) EXCEPT !.new = FALSE], NewDests(c))
    <2> DEFINE h == [Head(fpu) EXCEPT !.new = FALSE]
               e == Outdated(h, NewDests(c))
    <2>1. left = fpu
      BY <1>10
    <2>2. DOMAIN all = {1} /\ all[1] = h
      BY <2>1, <1>4, <1>10
    <2>3. h \in Entry
      BY <1>4, <1>10 DEF Entry
    <2>4. e \in Entry
      BY <1>6, <2>3
    <2> HIDE DEF all, h
    <2>5. fpu' = [i \in {1} |-> e]
      BY <1>1, <2>2
    <2> HIDE DEF e
    <2>6. fpu' \in Seq(Entry) /\ Len(fpu') = 1 /\ Head(fpu') = e
      BY <2>4, <2>5, OneEntry
    <2> QED BY <2>6 DEF e, h
  <1>11. taken => /\ Outdated(new, NewDests(c)).rd = ex.rd
                  /\ Outdated(new, NewDests(c)).lat = ex.lat
                  /\ Outdated(new, NewDests(c)).last <=> ex.rd \notin NewDests(c)
    <2>1. new.rd = ex.rd /\ new.lat = ex.lat /\ new.last
      OBVIOUS
    <2> HIDE DEF new
    <2> QED BY <2>1, <1>5, <1>6
  <1>12. fpu # <<>> =>
           LET h == [Head(fpu) EXCEPT !.new = FALSE]
           IN  /\ Outdated(h, NewDests(c)).rd = Head(fpu).rd
               /\ Outdated(h, NewDests(c)).lat = Head(fpu).lat
               /\ ~Outdated(h, NewDests(c)).new
               /\ Outdated(h, NewDests(c)).last <=> Head(fpu).last /\ Head(fpu).rd \notin NewDests(c)
    <2> SUFFICES ASSUME fpu # <<>>, NEW h, h = [Head(fpu) EXCEPT !.new = FALSE]
                 PROVE  /\ Outdated(h, NewDests(c)).rd = Head(fpu).rd
                        /\ Outdated(h, NewDests(c)).lat = Head(fpu).lat
                        /\ ~Outdated(h, NewDests(c)).new
                        /\ Outdated(h, NewDests(c)).last
                             <=> Head(fpu).last /\ Head(fpu).rd \notin NewDests(c)
      OBVIOUS
    <2>1. /\ h \in Entry /\ h.rd = Head(fpu).rd /\ h.lat = Head(fpu).lat
          /\ h.last = Head(fpu).last /\ ~h.new
      BY <1>4 DEF Entry
    <2> QED BY <2>1, <1>6
  <1> HIDE DEF new
  <1> QED BY <1>8, <1>9, <1>10, <1>11, <1>12

(* The three things the dispatcher can do in a cycle. *)
Taken(c) == req_accepted(c) /\ ex.lat # 1

Gone(c) ==
  /\ ~Taken(c) /\ (valid_inflight => apu_valid(c))
  /\ ~valid_inflight' /\ fpu' = <<>> /\ ~apu_rvalid_q'

Starts(c) ==
  /\ Taken(c) /\ ex.op = "fpu" /\ (valid_inflight => apu_valid(c) /\ apu_lat = 2)
  /\ valid_inflight' /\ addr_inflight' = ex.rd
  /\ ex.lat \in {2, 3} /\ apu_lat' = ex.lat
  /\ ~apu_rvalid_q' /\ Len(fpu') = 1
  /\ Head(fpu').rd = ex.rd /\ Head(fpu').lat = ex.lat
  /\ Head(fpu').last <=> ex.rd \notin NewDests(c)

Waits(c) ==
  /\ valid_inflight /\ ~apu_valid(c) /\ apu_lat = 3 /\ ~valid_req
  /\ valid_inflight' /\ addr_inflight' = addr_inflight /\ apu_lat' = 3
  /\ IF apu_rvalid_q' THEN fpu' = <<>> /\ apu_result_q'.rd = addr_inflight
     ELSE Len(fpu') = 1 /\ Head(fpu').rd = addr_inflight /\ Head(fpu').lat = 3
          /\ ~Head(fpu').new
  /\ ApuLast' <=> ApuLast /\ addr_inflight \notin NewDests(c)

LEMMA OutdatedResult ==
  ASSUME NEW e \in ResultType, NEW ds
  PROVE  /\ Outdated(e, ds) \in ResultType
         /\ Outdated(e, ds).rd = e.rd
         /\ Outdated(e, ds).last <=> e.last /\ e.rd \notin ds
  BY DEF Outdated, ResultType

LEMMA Memorized ==
  ASSUME TypeInv, ExInv, ApuInv, NEW c \in Input, Cycle(c)
  PROVE  /\ apu_rvalid_q' <=> \/ apu_rvalid(c) /\ apu_lat = 3 /\ HoldResult(c)
                              \/ apu_rvalid_q /\ HoldResult(c)
         /\ apu_result_q' = Outdated(IF apu_rvalid(c) /\ apu_lat = 3 /\ HoldResult(c)
                                     THEN FpuResult(c) ELSE apu_result_q, NewDests(c))
         /\ FpuResult(c) \in ResultType
         /\ apu_rvalid_q' \in BOOLEAN /\ apu_result_q' \in ResultType
  <1>1. MemorizeEdge(c, Wires(c)) /\ (Wires(c).hold <=> HoldResult(c))
        /\ IssuedDests(Wires(c)) = NewDests(c)
    BY Edges, WiresAre
  <1>2. FpuResult(c) \in ResultType
    <2>1. ex.rd \in Reg
      BY DecodedFacts DEF TypeInv
    <2>2. fpu # <<>> => Head(fpu) \in Entry
      BY HeadTailProperties DEF TypeInv
    <2>3. HeadReturns(c) => fpu # <<>>
      BY DEF HeadReturns
    <2> QED BY <2>1, <2>2, <2>3 DEF FpuResult, Result, ResultType, Entry
  <1>3. apu_rvalid_q' <=> \/ apu_rvalid(c) /\ apu_lat = 3 /\ HoldResult(c)
                          \/ apu_rvalid_q /\ HoldResult(c)
    BY <1>1 DEF MemorizeEdge, apu_multicycle
  <1>4. apu_result_q' = Outdated(IF apu_rvalid(c) /\ apu_lat = 3 /\ HoldResult(c)
                                 THEN FpuResult(c) ELSE apu_result_q, NewDests(c))
    BY <1>1 DEF MemorizeEdge, apu_multicycle
  <1>5. apu_rvalid_q' \in BOOLEAN
    <2>1. apu_rvalid_q' = IF apu_rvalid(c) /\ apu_multicycle /\ Wires(c).hold THEN TRUE
                          ELSE apu_rvalid_q /\ Wires(c).hold
      BY <1>1 DEF MemorizeEdge
    <2> QED BY <2>1 DEF TypeInv
  <1>6. apu_result_q' \in ResultType
    <2> DEFINE e == IF apu_rvalid(c) /\ apu_lat = 3 /\ HoldResult(c)
                    THEN FpuResult(c) ELSE apu_result_q
    <2>1. e \in ResultType
      BY <1>2 DEF TypeInv
    <2>2. apu_result_q' = Outdated(e, NewDests(c))
      BY <1>4
    <2> HIDE DEF e
    <2> QED BY <2>1, <2>2, OutdatedResult
  <1> QED BY <1>2, <1>3, <1>4, <1>5, <1>6

LEMMA ApuEdge ==
  ASSUME TypeInv, ExInv, ApuInv, NEW c \in Input, Cycle(c)
  PROVE  /\ Gone(c) \/ Starts(c) \/ Waits(c)
         /\ ~valid_waiting'
         /\ valid_inflight' \in BOOLEAN /\ addr_inflight' \in Reg /\ apu_lat' \in 0 .. 3
         /\ fpu' \in Seq(Entry)
  <1>1. /\ returned_inflight(c) <=> valid_inflight /\ apu_valid(c)
        /\ ~returned_waiting(c)
        /\ ~valid_inflight => /\ apu_valid(c) <=> AtOnce(c)
                              /\ returned_req(c) <=> AtOnce(c)
        /\ valid_inflight => ~AtOnce(c) /\ ~returned_req(c)
        /\ valid_inflight /\ apu_lat = 2 => apu_valid(c) /\ ~apu_rvalid_q
        /\ valid_inflight /\ valid_req => apu_lat = 2 /\ ex.lat = 2
        /\ valid_inflight => apu_lat \in {2, 3}
        /\ valid_req => ex.op = "fpu"
        /\ req_accepted(c) => valid_req /\ c.gntF
    BY ApuWires
  <1>2. DispatchEdge(c)
    BY Edges
  <1>3. ~valid_waiting /\ valid_inflight \in BOOLEAN /\ addr_inflight \in Reg
        /\ apu_lat \in 0 .. 3 /\ ex.rd \in Reg /\ ex.lat \in 0 .. 3 /\ 0 \in Reg
        /\ (ex.op = "fpu" => ex.lat \in 1 .. 3)
    BY DecodedFacts DEF ApuInv, TypeInv
  <1>4. apu_lat' = IF valid_req THEN ex.lat ELSE apu_lat
    BY <1>2 DEF DispatchEdge
  <1>5. ex.op = "fpu" => ~HoldResult(c)
    BY FpuInEx
  <1>6. apu_rvalid_q' <=> \/ apu_rvalid(c) /\ apu_lat = 3 /\ HoldResult(c)
                          \/ apu_rvalid_q /\ HoldResult(c)
    BY Memorized
  <1>7. ~valid_inflight => fpu = <<>> /\ ~apu_rvalid_q
    BY DEF ApuInv
  <1>8. apu_rvalid(c) <=> HeadReturns(c) \/ AtOnce(c)
    BY DEF apu_rvalid
  <1>9. apu_valid(c) <=> ~(apu_lat = 3 /\ HoldResult(c)) /\ (apu_rvalid(c) \/ apu_rvalid_q)
    BY DEF apu_valid, apu_multicycle
  <1>10. apu_rvalid_q /\ valid_inflight => fpu = <<>>
    BY DEF ApuInv, InFlightIs
  <1>11. AtOnce(c) <=> req_accepted(c) /\ ex.lat = 1
    BY DEF AtOnce
  <1>12. fpu = <<>> => ~HeadReturns(c)
    BY DEF HeadReturns
  <1>13. ASSUME ~Taken(c), valid_inflight => apu_valid(c)
         PROVE  Gone(c) /\ ~valid_waiting' /\ valid_inflight' \in BOOLEAN
                /\ addr_inflight' \in Reg /\ fpu' \in Seq(Entry)
    <2>1. req_accepted(c) => returned_req(c)
      BY <1>1, <1>11, <1>13 DEF Taken
    <2>2. ~valid_inflight' /\ ~valid_waiting' /\ addr_inflight' \in Reg /\ valid_inflight' \in BOOLEAN
      BY <1>1, <1>2, <1>3, <1>13, <2>1 DEF DispatchEdge, InFlight, Waiting
    <2>3. fpu = <<>> \/ HeadReturns(c)
      BY <1>1, <1>7, <1>8, <1>9, <1>10, <1>13
    <2>4. fpu' = <<>>
      BY <2>3, <1>13, FpuNext DEF Taken
    <2>5. ~apu_rvalid_q'
      BY <1>1, <1>5, <1>6, <1>7, <1>8, <1>9, <1>12, <1>13
    <2> QED BY <2>2, <2>4, <2>5, <1>13, EmptySeq DEF Gone
  <1>14. ASSUME Taken(c)
         PROVE  Starts(c) /\ ~valid_waiting' /\ valid_inflight' \in BOOLEAN
                /\ addr_inflight' \in Reg /\ fpu' \in Seq(Entry)
    <2>1. valid_req /\ ex.op = "fpu" /\ ex.lat \in {2, 3} /\ ~AtOnce(c) /\ req_accepted(c)
      BY <1>1, <1>3, <1>11, <1>14 DEF Taken
    <2>2. ~returned_req(c) /\ (valid_inflight => apu_lat = 2 /\ apu_valid(c) /\ returned_inflight(c))
      BY <1>1, <2>1
    <2>3. valid_inflight' /\ addr_inflight' = ex.rd /\ ~valid_waiting' /\ valid_inflight' \in BOOLEAN
      BY <1>1, <1>2, <1>3, <2>1, <2>2 DEF DispatchEdge, InFlight
    <2>4. apu_lat' = ex.lat
      BY <1>4, <2>1
    <2>5. fpu = <<>> \/ HeadReturns(c)
      BY <1>1, <1>7, <1>8, <1>9, <2>1, <2>2
    <2>6. /\ fpu' \in Seq(Entry) /\ Len(fpu') = 1
          /\ Head(fpu').rd = ex.rd /\ Head(fpu').lat = ex.lat
          /\ Head(fpu').last <=> ex.rd \notin NewDests(c)
      BY <2>5, <2>1, FpuNext
    <2>7. ~apu_rvalid_q'
      BY <1>5, <1>6, <2>1
    <2> QED BY <2>1, <2>2, <2>3, <2>4, <2>6, <2>7, <1>3, <1>14 DEF Starts
  <1>15. ASSUME ~Taken(c), valid_inflight, ~apu_valid(c)
         PROVE  Waits(c) /\ ~valid_waiting' /\ valid_inflight' \in BOOLEAN
                /\ addr_inflight' \in Reg /\ fpu' \in Seq(Entry)
    <2>1. apu_lat = 3 /\ ~valid_req /\ ~req_accepted(c) /\ ~AtOnce(c)
      BY <1>1, <1>15
    <2>2. /\ valid_inflight' /\ addr_inflight' = addr_inflight /\ ~valid_waiting'
          /\ valid_inflight' \in BOOLEAN /\ apu_lat' = 3
      BY <1>1, <1>2, <1>3, <1>4, <1>15, <2>1 DEF DispatchEdge
    <2>3. CASE apu_rvalid_q
      <3>1. fpu = <<>> /\ ~apu_rvalid(c) /\ HoldResult(c) /\ apu_result_q.rd = addr_inflight
        BY <1>8, <1>9, <1>10, <1>12, <1>15, <2>1, <2>3 DEF ApuInv, InFlightIs
      <3>2. apu_rvalid_q' /\ apu_result_q' = Outdated(apu_result_q, NewDests(c))
        BY <3>1, <2>3, Memorized
      <3>3. fpu' = <<>>
        BY <3>1, <2>1, FpuNext
      <3>4. apu_result_q \in ResultType
        BY DEF TypeInv
      <3>5. /\ apu_result_q'.rd = addr_inflight
            /\ apu_result_q'.last <=> apu_result_q.last /\ addr_inflight \notin NewDests(c)
        BY <3>1, <3>2, <3>4, OutdatedResult
      <3> QED BY <3>2, <3>3, <3>5, <2>1, <2>2, <2>3, <1>3, <1>15, EmptySeq DEF Waits, ApuLast
    <2>4. CASE ~apu_rvalid_q
      <3>1. /\ fpu # <<>> /\ Head(fpu).rd = addr_inflight /\ Head(fpu).lat = 3
            /\ fpu \in Seq(Entry)
        BY <1>15, <2>1, <2>4 DEF ApuInv, InFlightIs, TypeInv
      <3>2. CASE HeadReturns(c)
        <4>1. HoldResult(c) /\ apu_rvalid(c) /\ apu_rvalid_q'
          BY <3>2, <1>6, <1>8, <1>9, <1>15, <2>1
        <4>2. fpu' = <<>>
          BY <3>2, <2>1, FpuNext
        <4>3. apu_result_q' = Outdated(FpuResult(c), NewDests(c)) /\ FpuResult(c) \in ResultType
          BY <4>1, <2>1, Memorized
        <4>4. FpuResult(c).rd = addr_inflight /\ FpuResult(c).last = Head(fpu).last
          BY <3>1, <3>2 DEF FpuResult, Result
        <4>5. /\ apu_result_q'.rd = addr_inflight
              /\ apu_result_q'.last <=> Head(fpu).last /\ addr_inflight \notin NewDests(c)
          BY <4>3, <4>4, OutdatedResult
        <4> QED BY <4>1, <4>2, <4>5, <2>1, <2>2, <2>4, <1>3, <1>15, EmptySeq DEF Waits, ApuLast
      <3>3. CASE ~HeadReturns(c)
        <4>1. ~apu_rvalid_q'
          BY <3>3, <1>6, <1>8, <2>1, <2>4
        <4>2. /\ fpu' \in Seq(Entry) /\ Len(fpu') = 1
              /\ Head(fpu').rd = Head(fpu).rd /\ Head(fpu').lat = Head(fpu).lat
              /\ Head(fpu').last <=> Head(fpu).last /\ Head(fpu).rd \notin NewDests(c)
              /\ ~Head(fpu').new
          BY <3>1, <3>3, <2>1, FpuNext
        <4> QED BY <4>1, <4>2, <3>1, <2>1, <2>2, <2>4, <1>3, <1>15 DEF Waits, ApuLast
      <3> QED BY <3>2, <3>3
    <2> QED BY <2>3, <2>4
  <1>16. apu_lat' \in 0 .. 3
    BY <1>3, <1>4
  <1> QED BY <1>13, <1>14, <1>15, <1>16

-----------------------------------------------------------------------------
(* What it means that EX is ready                                          *)

LEMMA ExReady ==
  ASSUME TypeInv, ExInv, ApuInv, NEW c \in Input
  PROVE  /\ EXReady(c) <=>
              \/ /\ ~apu_stall_disp(c) /\ UnitsReady /\ LsuReadyEX(c) /\ LsuReadyWB(c)
                 /\ ~wb_contention(c)
              \/ ex.op = "branch"
         /\ EXReady(c) /\ ~LsuReadyWB(c) => ex.op = "branch"
         /\ ex.op = "fpu" /\ EXReady(c) => req_accepted(c)
         /\ ex.op = "fpu" /\ valid_inflight /\ apu_lat = 3 => ~EXReady(c)
         /\ regfile_alu_we_ex => WritesAlu(ex) /\ ex.op # "branch" /\ ex.op # "fpu"
  <1>1. ex.op = "fpu" /\ ~apu_stall_disp(c) => req_accepted(c)
    BY ApuWires DEF apu_stall_disp, valid_req, req_accepted
  <1>2. ex.op = "fpu" /\ valid_inflight /\ apu_lat = 3 => stall_type
    BY DecodedFacts DEF TypeInv, stall_type, active
  <1>3. stall_type => apu_stall_disp(c)
    BY DEF apu_stall_disp
  <1>4. regfile_alu_we_ex => WritesAlu(ex) /\ ex.op # "branch" /\ ex.op # "fpu"
    BY DecodedFacts DEF TypeInv, ExInv
  <1> QED BY <1>1, <1>2, <1>3, <1>4 DEF EXReady

(* A data access leaves EX exactly when the LSU lets it. *)
LEMMA AccessLeaves ==
  ASSUME TypeInv, ExInv, ApuInv, NEW c \in Input, DataReqEX
  PROVE  EXReady(c) <=> LsuReadyEX(c) /\ LsuReadyWB(c)
  <1>1. ex.op # "fpu" /\ ex.op # "branch" /\ UnitsReady
    BY DEF DataReqEX, UnitsReady
  <1>2. ~apu_stall_disp(c)
    BY <1>1, ApuWires DEF stall_type
  <1>3. ~AtOnce(c)
    BY <1>1, ApuWires DEF AtOnce
  <1>4. LsuReadyEX(c) => TransValid \/ c.rvalid
    BY DEF LsuReadyEX, Accepted
  <1>5. ASSUME LsuReadyEX(c) PROVE ~wb_contention(c)
    <2>1. regfile_alu_we_ex => HoldResult(c)
      BY <1>4, <1>5 DEF HoldResult
    <2>2. regfile_alu_we_ex /\ apu_lat = 3 => ~apu_valid(c)
      BY <2>1 DEF apu_valid, apu_multicycle
    <2> QED BY <2>2, <1>3, ApuPorts DEF wb_contention
  <1> QED BY <1>1, <1>2, <1>5 DEF EXReady

(* The two things the data side of EX/WB can do in a cycle. *)
Answered(c) ==
  /\ DataReqEX /\ EXReady(c) /\ cnt_q' = 1
  /\ regfile_we_lsu' <=> WritesLsu(ex)
  /\ WritesLsu(ex) => wb'.rd = ex.rd /\ (wb'.last <=> ex.rd \notin NewDests(c))

Unanswered(c) ==
  /\ DataReqEX => ~EXReady(c)
  /\ regfile_we_lsu' <=> regfile_we_lsu /\ ~LsuReadyWB(c)
  /\ ~LsuReadyWB(c) => cnt_q' > 0
  /\ cnt_q' = 2 => DataReqEX
  /\ wb'.rd = wb.rd
  /\ wb'.last <=> wb.last /\ wb.rd \notin NewDests(c)

LEMMA LsuEdge ==
  ASSUME TypeInv, ExInv, WbInv, ApuInv, NEW c \in Input, Cycle(c)
  PROVE  /\ Answered(c) \/ Unanswered(c)
         /\ cnt_q' \in 0 .. 2 /\ regfile_we_lsu' \in BOOLEAN /\ wb' \in ResultType
  <1> DEFINE leaves == DataReqEX /\ LsuReadyEX(c) /\ LsuReadyWB(c)
             e == IF leaves /\ WritesLsu(ex) THEN Result(ex.rd, TRUE) ELSE wb
  <1>1. /\ cnt_q' = (cnt_q + (IF Accepted(c) THEN 1 ELSE 0)) - (IF c.rvalid THEN 1 ELSE 0)
        /\ regfile_we_lsu' = IF leaves THEN WritesLsu(ex) ELSE regfile_we_lsu /\ ~LsuReadyWB(c)
        /\ wb' = Outdated(e, NewDests(c))
    <2>1. WriteBackEdge(c, Wires(c)) /\ IssuedDests(Wires(c)) = NewDests(c)
      BY Edges, WiresAre
    <2> QED BY <2>1 DEF WriteBackEdge
  <1>2. /\ cnt_q \in 0 .. 2 /\ regfile_we_lsu \in BOOLEAN /\ wb \in ResultType
        /\ ex.rd \in Reg
    BY DecodedFacts DEF TypeInv
  <1>3. e \in ResultType
    BY <1>2 DEF ResultType, Result
  <1>4. /\ wb' \in ResultType /\ wb'.rd = e.rd
        /\ wb'.last <=> e.last /\ e.rd \notin NewDests(c)
    <2> HIDE DEF e
    <2> QED BY <1>1, <1>3, OutdatedResult
  <1>5. /\ Accepted(c) => cnt_q < 2 /\ DataReqEX
        /\ c.rvalid => cnt_q > 0
        /\ LsuReadyWB(c) <=> cnt_q = 0 \/ c.rvalid
    BY InputFacts DEF Accepted, TransValid, DEPTH, LsuReadyWB
  <1>6. DataReqEX => (EXReady(c) <=> LsuReadyEX(c) /\ LsuReadyWB(c))
    BY AccessLeaves
  <1>7. leaves => \/ cnt_q = 0 /\ Accepted(c) /\ ~c.rvalid
                  \/ cnt_q = 1 /\ c.rvalid /\ Accepted(c)
                  \/ cnt_q = 2 /\ c.rvalid /\ ~Accepted(c)
    BY <1>2, <1>5 DEF LsuReadyEX
  <1>8. WritesLsu(ex) => DataReqEX
    BY DEF WritesLsu, DataReqEX
  <1>9. WritesLsu(ex) \in BOOLEAN
    BY DEF WritesLsu
  <1>10. cnt_q' \in 0 .. 2
    BY <1>1, <1>2, <1>5
  <1>11. ASSUME leaves PROVE Answered(c)
    <2>1. cnt_q' = 1
      BY <1>1, <1>7, <1>11
    <2>2. WritesLsu(ex) => e = Result(ex.rd, TRUE)
      BY <1>11
    <2> QED BY <2>1, <2>2, <1>1, <1>4, <1>6, <1>9, <1>11 DEF Answered, Result
  <1>12. ASSUME ~leaves PROVE Unanswered(c)
    <2>1. e = wb
      BY <1>12
    <2>2. ~LsuReadyWB(c) => cnt_q' > 0
      BY <1>1, <1>2, <1>5
    <2>3. cnt_q' = 2 => DataReqEX
      BY <1>1, <1>2, <1>5 DEF WbInv
    <2> QED BY <2>1, <2>2, <2>3, <1>1, <1>2, <1>4, <1>6, <1>12 DEF Unanswered
  <1>13. regfile_we_lsu' \in BOOLEAN
    BY <1>1, <1>2, <1>9
  <1> QED BY <1>4, <1>10, <1>11, <1>12, <1>13

-----------------------------------------------------------------------------
(* The invariant, conjunct by conjunct                                     *)

LEMMA IdEdge ==
  ASSUME TypeInv, NEW c \in Input, Cycle(c)
  PROVE  id' \in Decoded /\ instr_valid_id' \in BOOLEAN
  <1>1. FetchEdge(c, Wires(c))
    BY Edges
  <1>2. \A i \in Instrs : (i.op = "fpu" => i.lat \in lats) => i \in Decoded
    BY DEF Decoded, TypeInv
  <1> QED BY <1>1, <1>2 DEF FetchEdge, TypeInv

LEMMA TypeStep ==
  ASSUME ExecInv, NEW c \in Input, Cycle(c)
  PROVE  TypeInv'
  <1>1. TypeInv /\ ExInv /\ WbInv /\ ApuInv
    BY DEF ExecInv
  <1>2. Stays(c) \/ Splits(c) \/ Leaves(c)
    BY <1>1, ExEdge
  <1>3. UNCHANGED <<COREV_PULP, lats>>
    BY Edges DEF build
  <1>4. id' \in Decoded /\ instr_valid_id' \in BOOLEAN /\ id \in Decoded /\ id.rd \in Reg
    BY <1>1, IdEdge, DecodedFacts DEF TypeInv
  <1>5. ex' \in Decoded
    BY <1>1, <1>2, <1>4, BubbleDecoded DEF Stays, Splits, Leaves, TypeInv
  <1>6. regfile_waddr_ex' \in Reg
    BY <1>1, <1>2, <1>4 DEF Stays, Splits, Leaves, TypeInv
  <1>7. regfile_alu_we_ex' \in BOOLEAN /\ data_misaligned_ex' \in BOOLEAN
    <2>1. IssueEdge(c, Wires(c))
      BY Edges
    <2>2. WritesAlu(id) \in BOOLEAN
      BY DecodedFacts, <1>4 DEF WritesAlu
    <2>3. regfile_alu_we_ex \in BOOLEAN /\ data_misaligned_ex \in BOOLEAN
      BY <1>1 DEF TypeInv
    <2>4. (Wires(c).issues /\ WritesAlu(id)) \in BOOLEAN
      OBVIOUS
    <2> QED BY <2>1, <2>3, <2>4 DEF IssueEdge
  <1>8. unit' \in {"IDLE", "STEP0", "STEP1", "STEP2", "DIVIDE", "FINISH"}
    <2>1. UnitEdge(c, Wires(c))
      BY Edges
    <2> QED BY <1>1, <2>1 DEF UnitEdge, TypeInv
  <1>9. cnt_q' \in 0 .. 2 /\ regfile_we_lsu' \in BOOLEAN /\ wb' \in ResultType
    BY <1>1, LsuEdge
  <1>10. /\ valid_inflight' \in BOOLEAN /\ addr_inflight' \in Reg /\ apu_lat' \in 0 .. 3
         /\ fpu' \in Seq(Entry)
    BY <1>1, ApuEdge
  <1>11. apu_rvalid_q' \in BOOLEAN /\ apu_result_q' \in ResultType
    BY <1>1, Memorized
  <1>12. rf_ok' \in [Reg -> BOOLEAN]
    <2>1. RegisterEdge(c, Wires(c))
      BY Edges
    <2> QED BY <2>1 DEF RegisterEdge
  <1>13. COREV_PULP' \in BOOLEAN /\ lats' \subseteq 1 .. 3
    BY <1>1, <1>3 DEF TypeInv
  <1> QED BY <1>4, <1>5, <1>6, <1>7, <1>8, <1>9, <1>10, <1>11, <1>12, <1>13 DEF TypeInv

LEMMA ExStep ==
  ASSUME ExecInv, NEW c \in Input, Cycle(c)
  PROVE  ExInv'
  <1>1. TypeInv /\ ExInv /\ ApuInv
    BY DEF ExecInv
  <1>2. acc_ok' /\ (Stays(c) \/ Splits(c) \/ Leaves(c))
    BY <1>1, ExEdge
  <1>3. UnitEdge(c, Wires(c)) /\ (Wires(c).ex_ready <=> EXReady(c))
    BY Edges, WiresAre
  <1>4. unit \in {"IDLE", "STEP0", "STEP1", "STEP2", "DIVIDE", "FINISH"}
    BY <1>1 DEF TypeInv
  <1>5. /\ unit \in {"STEP0", "STEP1", "STEP2"} => ex.op = "mulh"
        /\ unit = "DIVIDE" => ex.op = "div"
        /\ unit = "FINISH" => ex.op \in {"mulh", "div"}
    BY <1>1 DEF ExInv
  <1>6. CASE Stays(c)
    <2>1. ex' = ex /\ ~EXReady(c)
      BY <1>6 DEF Stays
    <2>2. /\ unit' \in {"STEP0", "STEP1", "STEP2"} => ex.op = "mulh"
          /\ unit' = "DIVIDE" => ex.op = "div"
          /\ unit' = "FINISH" => ex.op \in {"mulh", "div"}
      BY <2>1, <1>3, <1>4, <1>5 DEF UnitEdge
    <2> QED BY <2>1, <2>2, <1>1, <1>2, <1>6 DEF ExInv, Stays, WritesAlu, WritesLsu, DataReqEX
  <1>7. CASE Splits(c)
    <2>1. ex' = ex /\ DataReqEX /\ ex.mis
      BY <1>7 DEF Splits, Misaligned
    <2>2. unit' = "IDLE"
      BY <2>1, <1>3, <1>4, <1>5 DEF UnitEdge, DataReqEX
    <2> QED BY <2>1, <2>2, <1>1, <1>2, <1>7 DEF ExInv, Splits, WritesAlu, WritesLsu, DataReqEX
  <1>8. CASE Leaves(c)
    <2>1. EXReady(c)
      BY <1>8 DEF Leaves
    <2>2. ex.op \in {"mulh", "div"} => unit = "FINISH"
      BY <2>1 DEF EXReady, UnitsReady
    <2>3. unit' = "IDLE"
      BY <2>1, <2>2, <1>3, <1>4, <1>5 DEF UnitEdge
    <2>4. ~WritesLsu(Bubble)
      BY DEF Bubble, WritesLsu
    <2> QED BY <2>3, <2>4, <1>2, <1>8 DEF ExInv, Leaves, WritesAlu, WritesLsu, DataReqEX
  <1> QED BY <1>2, <1>6, <1>7, <1>8

-----------------------------------------------------------------------------
(* What the stalls keep from being issued                                  *)

LEMMA DestsAre ==
  ASSUME TypeInv, NEW c \in Input, NEW r \in Reg
  PROVE  r \in NewDests(c) <=> /\ Issues(c)
                               /\ \/ WritesAlu(id) /\ AluDest(id) = r
                                  \/ WritesLsu(id) /\ id.rd = r
                                  \/ id.op = "fpu" /\ id.rd = r
  BY DEF NewDests, Dests, WriteRegs

LEMMA NothingStalls ==
  ASSUME NEW c \in Input, Issues(c)
  PROVE  /\ EXReady(c) /\ ~Misaligned /\ IsDecoding(c) /\ Asserted(c)
         /\ ~load_stall(c) /\ ~jr_stall(c) /\ ~apu_stall(c) /\ ~csr_apu_stall
  BY DEF Issues, IdReady, Asserted

(* load_stall: only a load or FPU operation may overtake a load. *)
LEMMA BehindLoad ==
  ASSUME TypeInv, ExInv, WbInv, ApuInv, NEW c \in Input, Issues(c), NEW r \in Reg,
         r \in NewDests(c),
         \/ WritesLsu(ex) /\ ex.rd = r
         \/ regfile_we_lsu /\ ~LsuReadyWB(c) /\ wb.rd = r
  PROVE  id.op \in {"load", "fpu"} /\ id.rd = r
  <1>1. EXReady(c) /\ ~Misaligned /\ IsDecoding(c) /\ ~load_stall(c)
    BY NothingStalls
  <1>2. WritesLsu(ex) => regfile_waddr_ex = ex.rd
    BY DEF ExInv
  <1>3. ~LsuReadyWB(c) => ~WritesLsu(ex)
    BY <1>1, ExReady DEF WritesLsu
  <1>4. regfile_waddr_ex = r
    BY <1>2, <1>3 DEF WbInv
  <1>5. WritesLsu(ex) \/ (~LsuReadyWB(c) /\ WbPortWe(c))
    BY DEF WbPortWe
  <1>6. ~(WritesAlu(id) /\ AluDest(id) = r)
    BY <1>1, <1>4, <1>5 DEF load_stall
  <1> QED BY <1>6, DestsAre DEF WritesLsu

(* apu_stall: only an FPU operation may overtake one. *)
LEMMA BehindFpu ==
  ASSUME TypeInv, ExInv, ApuInv, NEW c \in Input, Issues(c), NEW r \in Reg,
         r \in NewDests(c),
         \/ valid_req /\ ~returned_req(c) /\ ex.rd = r
         \/ valid_inflight /\ ~apu_valid(c) /\ addr_inflight = r
  PROVE  id.op = "fpu" /\ id.rd = r
  <1>1. IsDecoding(c) /\ Asserted(c) /\ ~apu_stall(c)
    BY NothingStalls
  <1>2. returned_inflight(c) => apu_valid(c)
    BY ApuWires
  <1>3. r \in WriteRegs(id) => Dependent(c, WriteRegs(id))
    BY <1>2 DEF Dependent
  <1>4. r \in WriteRegs(id) => id.op = "fpu"
    BY <1>1, <1>3 DEF apu_stall
  <1>5. id \in Decoded
    BY DEF TypeInv
  <1>6. id.op = "fpu" => ~WritesAlu(id) /\ ~WritesLsu(id)
    BY <1>5, DecodedFacts
  <1>7. id.op # "fpu" => r \in WriteRegs(id)
    BY DEF NewDests, Dests
  <1> QED BY <1>4, <1>6, <1>7, DestsAre

LEMMA WbStep ==
  ASSUME ExecInv, NEW c \in Input, Cycle(c)
  PROVE  WbInv'
  <1>1. TypeInv /\ ExInv /\ WbInv /\ ApuInv
    BY DEF ExecInv
  <1>2. Stays(c) \/ Splits(c) \/ Leaves(c)
    BY <1>1, ExEdge
  <1>3. Answered(c) \/ Unanswered(c)
    BY <1>1, LsuEdge
  <1>4. Issues(c) => Leaves(c)
    BY <1>2 DEF Stays, Splits
  <1>5. WritesLsu(ex) => DataReqEX /\ regfile_waddr_ex = ex.rd
    BY <1>1 DEF WritesLsu, DataReqEX, ExInv
  <1>6. Splits(c) => DataReqEX /\ EXReady(c)
    BY DEF Splits, Misaligned
  <1>7. Unanswered(c) /\ regfile_we_lsu' => regfile_we_lsu /\ ~LsuReadyWB(c)
    BY DEF Unanswered
  <1>8. EXReady(c) /\ ~LsuReadyWB(c) => ex.op = "branch"
    BY <1>1, ExReady
  <1>9. WritesLsu(ex)' <=> ex'.op = "load"
    BY DEF WritesLsu
  <1>10. WritesLsu(ex) <=> ex.op = "load"
    BY DEF WritesLsu
  <1>11. regfile_we_lsu' => cnt_q' > 0
    BY <1>3, <1>7 DEF Answered, Unanswered
  <1>12. cnt_q' = 2 => DataReqEX'
    <2>1. cnt_q' = 2 => DataReqEX /\ ~EXReady(c)
      BY <1>3 DEF Answered, Unanswered
    <2>2. ~EXReady(c) => ex' = ex
      BY <1>2 DEF Stays, Splits, Leaves
    <2> QED BY <2>1, <2>2 DEF DataReqEX
  <1>13. ASSUME regfile_we_lsu', data_misaligned_ex'
         PROVE  WritesLsu(ex)' /\ wb'.rd = ex'.rd
    <2>1. CASE Stays(c)
      <3>1. DataReqEX /\ data_misaligned_ex /\ ex' = ex /\ ~EXReady(c)
        BY <2>1, <1>1, <1>13 DEF Stays, ExInv
      <3>2. regfile_we_lsu /\ wb'.rd = wb.rd
        BY <3>1, <1>3, <1>13 DEF Answered, Unanswered
      <3> QED BY <3>1, <3>2, <1>1, <1>9, <1>10 DEF WbInv
    <2>2. CASE Splits(c)
      <3>1. Answered(c) /\ ex' = ex
        BY <2>2, <1>3, <1>6 DEF Unanswered, Splits
      <3> QED BY <3>1, <1>9, <1>10, <1>13 DEF Answered
    <2> QED BY <2>1, <2>2, <1>2, <1>13 DEF Leaves
  <1>14. ASSUME regfile_we_lsu', ~WritesLsu(ex)'
         PROVE  regfile_waddr_ex' = wb'.rd
    <2>1. CASE Answered(c)
      <3>1. WritesLsu(ex) /\ EXReady(c) /\ wb'.rd = ex.rd
        BY <2>1, <1>14 DEF Answered
      <3>2. Leaves(c)
        BY <3>1, <1>2, <1>9, <1>10, <1>14 DEF Stays, Splits
      <3>3. regfile_waddr_ex' = regfile_waddr_ex
        BY <3>2, <1>9, <1>14 DEF Leaves, WritesLsu
      <3> QED BY <3>1, <3>3, <1>5
    <2>2. CASE Unanswered(c)
      <3>1. regfile_we_lsu /\ ~LsuReadyWB(c) /\ wb'.rd = wb.rd
        BY <2>2, <1>7, <1>14 DEF Unanswered
      <3>2. ~WritesLsu(ex) /\ ~Splits(c)
        BY <3>1, <2>2, <1>2, <1>6, <1>8, <1>9, <1>10, <1>14 DEF Stays, Splits, Leaves, Unanswered
      <3>3. regfile_waddr_ex = wb.rd
        BY <3>1, <3>2, <1>1 DEF WbInv
      <3>4. regfile_waddr_ex' = regfile_waddr_ex
        BY <3>2, <1>2, <1>9, <1>14 DEF Stays, Leaves, WritesLsu
      <3> QED BY <3>1, <3>3, <3>4
    <2> QED BY <2>1, <2>2, <1>3
  <1>15. ASSUME regfile_we_lsu', ~wb'.last
         PROVE  ex'.op \in {"load", "fpu"} /\ ex'.rd = wb'.rd
    <2>1. wb'.rd \in Reg
      <3>1. wb' \in ResultType
        BY <1>1, LsuEdge
      <3> QED BY <3>1 DEF ResultType
    <2>2. CASE Answered(c)
      <3>1. WritesLsu(ex) /\ wb'.rd = ex.rd /\ ex.rd \in NewDests(c)
        BY <2>2, <1>15 DEF Answered
      <3>2. Issues(c)
        BY <3>1 DEF NewDests
      <3>3. id.op \in {"load", "fpu"} /\ id.rd = wb'.rd
        BY <3>1, <3>2, <2>1, <1>1, BehindLoad
      <3> QED BY <3>2, <3>3, <1>4 DEF Leaves
    <2>3. CASE Unanswered(c)
      <3>1. /\ regfile_we_lsu /\ ~LsuReadyWB(c) /\ wb'.rd = wb.rd
            /\ ~wb.last \/ wb.rd \in NewDests(c)
        BY <2>3, <1>7, <1>15 DEF Unanswered
      <3>2. CASE wb.rd \in NewDests(c)
        <4>1. Issues(c)
          BY <3>2 DEF NewDests
        <4>2. id.op \in {"load", "fpu"} /\ id.rd = wb'.rd
          BY <3>1, <3>2, <4>1, <2>1, <1>1, BehindLoad
        <4> QED BY <4>1, <4>2, <1>4 DEF Leaves
      <3>3. CASE ~wb.last
        <4>1. ex.op \in {"load", "fpu"} /\ ex.rd = wb.rd
          BY <3>1, <3>3, <1>1 DEF WbInv
        <4>2. ~EXReady(c)
          BY <3>1, <4>1, <1>8
        <4>3. ex' = ex
          BY <4>2, <1>2 DEF Stays, Splits, Leaves
        <4> QED BY <3>1, <4>1, <4>3
      <3> QED BY <3>1, <3>2, <3>3
    <2> QED BY <2>2, <2>3, <1>3
  <1> QED BY <1>11, <1>12, <1>13, <1>14, <1>15 DEF WbInv

LEMMA ApuStep ==
  ASSUME ExecInv, NEW c \in Input, Cycle(c)
  PROVE  ApuInv'
  <1>1. TypeInv /\ ExInv /\ WbInv /\ ApuInv
    BY DEF ExecInv
  <1>2. Stays(c) \/ Splits(c) \/ Leaves(c)
    BY <1>1, ExEdge
  <1>3. Gone(c) \/ Starts(c) \/ Waits(c)
    BY <1>1, ApuEdge
  <1>4. ~valid_waiting' /\ valid_inflight' \in BOOLEAN
    BY <1>1, ApuEdge
  <1>5. Issues(c) => Leaves(c)
    BY <1>2 DEF Stays, Splits
  <1>6. ~EXReady(c) => ex' = ex
    BY <1>2 DEF Stays, Splits, Leaves
  <1>7. Issues(c) => ex' = id /\ ~csr_apu_stall
    BY <1>5, NothingStalls DEF Leaves
  <1>8. ~Issues(c) => ex' = ex \/ ex' = Bubble
    BY <1>2 DEF Stays, Splits, Leaves
  <1>9. CASE Gone(c)
    BY <1>9, <1>4 DEF Gone, ApuInv
  <1>10. CASE Starts(c)
    <2>1. /\ ex.op = "fpu" /\ ex.lat \in {2, 3} /\ apu_lat' = ex.lat /\ addr_inflight' = ex.rd
          /\ valid_inflight' /\ valid_req /\ ~apu_rvalid_q'
      BY <1>10, <1>1, ApuWires DEF Starts, Taken
    <2>2. ~returned_req(c)
      BY <2>1, <1>1, ApuWires DEF AtOnce
    <2>3. ApuLast' <=> ex.rd \notin NewDests(c)
      BY <1>10, <2>1 DEF Starts, ApuLast
    <2>4. ASSUME ~ApuLast' PROVE ex'.op = "fpu" /\ ex'.rd = addr_inflight'
      <3>1. Issues(c) /\ ex.rd \in NewDests(c)
        BY <2>3, <2>4 DEF NewDests
      <3>2. ex.rd \in Reg
        BY <1>1, DecodedFacts DEF TypeInv
      <3>3. id.op = "fpu" /\ id.rd = ex.rd
        BY <3>1, <3>2, <2>1, <2>2, <1>1, BehindFpu
      <3> QED BY <3>1, <3>3, <2>1, <1>7
    <2>5. ASSUME regfile_we_lsu' PROVE ex'.op = "fpu" /\ ex'.rd = addr_inflight'
      <3>1. ~DataReqEX
        BY <2>1 DEF DataReqEX
      <3>2. ~LsuReadyWB(c)
        BY <3>1, <2>5, <1>1, LsuEdge DEF Answered, Unanswered
      <3>3. ~EXReady(c)
        BY <3>2, <2>1, <1>1, ExReady
      <3> QED BY <3>3, <2>1, <1>6
    <2>6. ex'.op # "csr"
      BY <2>1, <1>7, <1>8 DEF csr_apu_stall, Bubble
    <2>7. InFlightIs'
      BY <2>1, <2>4, <2>5, <2>6, <1>10 DEF InFlightIs, Starts
    <2> QED BY <2>1, <2>7, <1>4 DEF ApuInv
  <1>11. CASE Waits(c)
    <2>1. /\ valid_inflight /\ ~apu_valid(c) /\ apu_lat = 3 /\ ~valid_req
          /\ valid_inflight' /\ addr_inflight' = addr_inflight /\ apu_lat' = 3
          /\ ApuLast' <=> ApuLast /\ addr_inflight \notin NewDests(c)
      BY <1>11 DEF Waits
    <2>2. ASSUME ~ApuLast' PROVE ex'.op = "fpu" /\ ex'.rd = addr_inflight'
      <3>1. CASE addr_inflight \in NewDests(c)
        <4>1. Issues(c) /\ addr_inflight \in Reg
          BY <3>1, <1>1 DEF NewDests, TypeInv
        <4>2. id.op = "fpu" /\ id.rd = addr_inflight
          BY <4>1, <3>1, <2>1, <1>1, BehindFpu
        <4> QED BY <4>1, <4>2, <2>1, <1>7
      <3>2. CASE ~ApuLast
        <4>1. ex.op = "fpu" /\ ex.rd = addr_inflight
          BY <3>2, <2>1, <1>1 DEF ApuInv, InFlightIs
        <4>2. ~EXReady(c)
          BY <4>1, <2>1, <1>1, ExReady
        <4> QED BY <4>1, <4>2, <2>1, <1>6
      <3> QED BY <3>1, <3>2, <2>1, <2>2
    <2>3. ex'.op # "csr"
      <3>1. ex.op # "csr"
        BY <2>1, <1>1 DEF ApuInv, InFlightIs
      <3>2. active
        BY <2>1 DEF active
      <3> QED BY <3>1, <3>2, <1>7, <1>8 DEF csr_apu_stall, Bubble
    <2>4. InFlightIs'
      BY <2>1, <2>2, <2>3, <1>11 DEF InFlightIs, Waits
    <2> QED BY <2>1, <2>4, <1>4 DEF ApuInv
  <1> QED BY <1>3, <1>9, <1>10, <1>11

-----------------------------------------------------------------------------
(* Nothing that is still to be written is lost                             *)

LEMMA LoadPersists ==
  ASSUME ExecInv, NEW c \in Input, Cycle(c), NEW r \in Reg, r \notin NewDests(c),
         WritesLsu(ex), ex.rd = r
  PROVE  ExPending(r)' \/ WbPending(r)'
  <1>1. TypeInv /\ ExInv /\ WbInv /\ ApuInv
    BY DEF ExecInv
  <1>2. Stays(c) \/ Splits(c) \/ Leaves(c)
    BY <1>1, ExEdge
  <1>3. CASE ex' = ex
    BY <1>3 DEF ExPending, WritesLsu
  <1>4. CASE Leaves(c)
    <2>1. DataReqEX /\ EXReady(c)
      BY <1>4 DEF Leaves, WritesLsu, DataReqEX
    <2>2. Answered(c)
      BY <2>1, <1>1, LsuEdge DEF Unanswered
    <2> QED BY <2>2 DEF Answered, WbPending
  <1> QED BY <1>2, <1>3, <1>4 DEF Stays, Splits

LEMMA FpuPersists ==
  ASSUME ExecInv, NEW c \in Input, Cycle(c), NEW r \in Reg, r \notin NewDests(c),
         ex.op = "fpu", ex.rd = r, ~AtOnce(c)
  PROVE  ExPending(r)' \/ ApuPending(r)'
  <1>1. TypeInv /\ ExInv /\ WbInv /\ ApuInv
    BY DEF ExecInv
  <1>2. Stays(c) \/ Splits(c) \/ Leaves(c)
    BY <1>1, ExEdge
  <1>3. CASE Taken(c)
    <2>1. Starts(c)
      BY <1>1, <1>3, ApuEdge, ApuWires DEF Gone, Waits, Taken
    <2>2. ApuLast'
      BY <2>1 DEF Starts, ApuLast
    <2> QED BY <2>1, <2>2 DEF Starts, ApuPending
  <1>4. CASE ~Taken(c)
    <2>1. ~EXReady(c)
      BY <1>1, <1>4, ExReady DEF Taken, AtOnce
    <2>2. ex' = ex
      BY <2>1, <1>2 DEF Stays, Splits, Leaves
    <2> QED BY <2>2 DEF ExPending
  <1> QED BY <1>3, <1>4

LEMMA WbPersists ==
  ASSUME ExecInv, NEW c \in Input, Cycle(c), NEW r \in Reg, r \notin NewDests(c),
         WbPending(r), ~LsuReadyWB(c)
  PROVE  WbPending(r)'
  <1>1. TypeInv /\ ExInv /\ WbInv /\ ApuInv
    BY DEF ExecInv
  <1>2. ~Answered(c)
    <2>1. DataReqEX => ex.op # "branch"
      BY DEF DataReqEX
    <2> QED BY <1>1, <2>1, ExReady DEF Answered
  <1>3. Unanswered(c)
    BY <1>1, <1>2, LsuEdge
  <1> QED BY <1>3 DEF Unanswered, WbPending

(* An increment or a result of the ALU that is not written stays in EX. *)
LEMMA AluPersists ==
  ASSUME ExecInv, NEW c \in Input, Cycle(c), NEW r \in Reg,
         regfile_alu_we_ex, AluDest(ex) = r,
         AluPortByApu(c) \/ ~UnitsReady \/ ~LsuReadyEX(c)
  PROVE  ExPending(r)'
  <1>1. TypeInv /\ ExInv /\ WbInv /\ ApuInv
    BY DEF ExecInv
  <1>2. WritesAlu(ex) /\ ex.op # "branch" /\ ex.op # "fpu"
    BY <1>1, ExReady
  <1>3. ~EXReady(c)
    BY <1>1, <1>2, ExReady DEF wb_contention
  <1>4. ex.op = "csr" => UnitsReady /\ LsuReadyEX(c)
    BY DEF UnitsReady, LsuReadyEX, DataReqEX
  <1>5. ex.op = "csr" => ~AluPortByApu(c)
    <2>1. ~AtOnce(c)
      BY <1>1, <1>2, ApuWires DEF AtOnce
    <2>2. ex.op = "csr" => ~valid_inflight
      BY <1>1 DEF ApuInv, InFlightIs
    <2> QED BY <2>1, <2>2, <1>1, ApuPorts
  <1>6. Stays(c)
    BY <1>1, <1>3, ExEdge DEF Splits, Leaves
  <1> QED BY <1>4, <1>5, <1>6 DEF Stays, ExPending, AluDest

LEMMA RegisterAre ==
  ASSUME NEW c \in Input, Cycle(c), NEW r \in Reg
  PROVE  LET byAlu == AluPortPower(c) /\ r = AluPortAddr(c)
             byWb  == WbPortPower(c) /\ r = WbPortAddr(c)
         IN  rf_ok'[r] <=> \/ r = 0
                           \/ /\ r \notin NewDests(c)
                              /\ byAlu => AluPortRight(c)
                              /\ byWb /\ ~byAlu => WbPortRight(c)
                              /\ byAlu \/ byWb \/ rf_ok[r]
  <1>1. RegisterEdge(c, Wires(c)) /\ IssuedDests(Wires(c)) = NewDests(c)
    BY Edges, WiresAre
  <1> QED BY <1>1 DEF RegisterEdge

LEMMA PendingStep ==
  ASSUME ExecInv, NEW c \in Input, Cycle(c)
  PROVE  Pending'
  <1>1. TypeInv /\ ExInv /\ WbInv /\ ApuInv /\ Pending
    BY DEF ExecInv
  <1>2. rf_ok'[0]
    BY RegisterAre
  <1> SUFFICES ASSUME NEW r \in Reg, ~rf_ok'[r]
               PROVE  ExPending(r)' \/ WbPending(r)' \/ ApuPending(r)'
    BY <1>2 DEF Pending
  <1> DEFINE byAlu == AluPortPower(c) /\ r = AluPortAddr(c)
             byWb  == WbPortPower(c) /\ r = WbPortAddr(c)
             Goal  == ExPending(r)' \/ WbPending(r)' \/ ApuPending(r)'
  <1>3. \/ r \in NewDests(c)
        \/ byAlu /\ ~AluPortRight(c)
        \/ byWb /\ ~byAlu /\ ~WbPortRight(c)
        \/ ~byAlu /\ ~byWb /\ ~rf_ok[r]
    BY RegisterAre
  <1>4. AtOnce(c) /\ ex.rd = r => byAlu
    BY <1>1, ApuPorts DEF AluPortPower, AluPortAddr
  <1>5. ASSUME r \in NewDests(c) PROVE Goal
    <2>1. Issues(c) /\ \/ WritesAlu(id) /\ AluDest(id) = r
                       \/ WritesLsu(id) /\ id.rd = r
                       \/ id.op = "fpu" /\ id.rd = r
      BY <1>1, <1>5, DestsAre
    <2>2. Leaves(c)
      BY <2>1, <1>1, ExEdge DEF Stays, Splits
    <2>3. ex' = id /\ (regfile_alu_we_ex' <=> WritesAlu(id))
      BY <2>1, <2>2 DEF Leaves
    <2> QED BY <2>1, <2>3 DEF ExPending, AluDest, WritesLsu
  <1>6. ASSUME r \notin NewDests(c), byAlu, ~AluPortRight(c) PROVE Goal
    <2>1. CASE AluPortByApu(c)
      <3>1. /\ r = apu_waddr(c) /\ ~Right(apu_result(c), apu_waddr(c))
        BY <1>6, <2>1 DEF AluPortAddr, AluPortRight
      <3>2. valid_inflight /\ apu_lat = 3 /\ apu_valid(c)
        BY <3>1, <2>1, <1>1, ApuPorts DEF Right
      <3>3. ~ApuLast /\ addr_inflight = r
        BY <3>1, <3>2, <1>1, ApuPorts DEF Right
      <3>4. ex.op = "fpu" /\ ex.rd = r
        BY <3>2, <3>3, <1>1 DEF ApuInv, InFlightIs
      <3>5. ~AtOnce(c)
        BY <3>2, <1>1, ApuWires
      <3> QED BY <3>4, <3>5, <1>6, FpuPersists
    <2>2. CASE ~AluPortByApu(c)
      <3>1. regfile_alu_we_ex /\ AluDest(ex) = r
        BY <1>6, <2>2 DEF AluPortAddr, AluPortPower
      <3>2. acc_ok /\ WritesAlu(ex)
        BY <3>1, <1>1 DEF ExInv
      <3>3. ~UnitsReady \/ (WritesLsu(ex) /\ ex.rd = ex.rs)
        BY <1>6, <2>2, <3>2 DEF AluPortRight
      <3>4. ASSUME WritesLsu(ex), ex.rd = ex.rs PROVE Goal
        <4>1. ex \in Decoded
          BY <1>1 DEF TypeInv
        <4>2. ex.inc
          BY <4>1, <3>2, <3>4, DecodedFacts
        <4>3. ex.rd = r
          BY <4>2, <3>1, <3>4 DEF AluDest
        <4> QED BY <4>3, <3>4, <1>6, LoadPersists
      <3>5. ASSUME ~UnitsReady PROVE Goal
        BY <3>1, <3>5, AluPersists
      <3> QED BY <3>3, <3>4, <3>5
    <2> QED BY <2>1, <2>2
  <1>7. ASSUME r \notin NewDests(c), byWb, ~byAlu, ~WbPortRight(c) PROVE Goal
    <2>1. CASE regfile_we_lsu
      <3>1. r = wb.rd /\ ~(c.rvalid /\ ~data_misaligned_ex /\ wb.last)
        BY <1>7, <2>1 DEF WbPortAddr, WbPortRight
      <3>2. ASSUME ~c.rvalid, wb.last PROVE Goal
        <4>1. ~LsuReadyWB(c)
          BY <3>2, <2>1, <1>1 DEF WbInv, LsuReadyWB, TypeInv
        <4> QED BY <4>1, <3>1, <3>2, <2>1, <1>7, WbPersists DEF WbPending
      <3>3. ASSUME data_misaligned_ex PROVE Goal
        <4>1. WritesLsu(ex) /\ ex.rd = r
          BY <3>1, <3>3, <2>1, <1>1 DEF WbInv
        <4> QED BY <4>1, <1>7, LoadPersists
      <3>4. ASSUME ~wb.last PROVE Goal
        <4>1. (WritesLsu(ex) \/ ex.op = "fpu") /\ ex.rd = r
          BY <3>1, <3>4, <2>1, <1>1 DEF WbInv, WritesLsu
        <4> QED BY <4>1, <1>4, <1>7, LoadPersists, FpuPersists
      <3> QED BY <3>1, <3>2, <3>3, <3>4
    <2>2. CASE ~regfile_we_lsu
      <3>1. LsuPortByApu(c) /\ r = apu_waddr(c) /\ ~Right(apu_result(c), apu_waddr(c))
        BY <1>7, <2>2 DEF WbPortPower, WbPortAddr, WbPortRight
      <3>2. valid_inflight /\ apu_valid(c)
        BY <3>1, <1>1, ApuPorts DEF LsuPortByApu
      <3>3. ~ApuLast /\ addr_inflight = r
        BY <3>1, <3>2, <1>1, ApuPorts DEF Right
      <3>4. ex.op = "fpu" /\ ex.rd = r
        BY <3>2, <3>3, <1>1 DEF ApuInv, InFlightIs
      <3> QED BY <3>4, <1>4, <1>7, FpuPersists
    <2> QED BY <2>1, <2>2
  <1>8. ASSUME r \notin NewDests(c), ~byAlu, ~byWb, ~rf_ok[r] PROVE Goal
    <2>1. ExPending(r) \/ WbPending(r) \/ ApuPending(r)
      BY <1>1, <1>8 DEF Pending
    <2>2. ASSUME regfile_alu_we_ex, AluDest(ex) = r PROVE Goal
      <3>1. AluPortByApu(c) \/ ~UnitsReady \/ ~LsuReadyEX(c)
        BY <2>2, <1>8 DEF AluPortPower, AluPortAddr
      <3> QED BY <2>2, <3>1, AluPersists
    <2>3. ASSUME WritesLsu(ex), ex.rd = r PROVE Goal
      BY <2>3, <1>8, LoadPersists
    <2>4. ASSUME ex.op = "fpu", ex.rd = r PROVE Goal
      BY <2>4, <1>4, <1>8, FpuPersists
    <2>5. ASSUME WbPending(r) PROVE Goal
      <3>1. regfile_we_lsu /\ wb.rd = r
        BY <2>5 DEF WbPending
      <3>2. data_misaligned_ex \/ ~LsuReadyWB(c)
        BY <3>1, <1>8 DEF WbPortPower, WbPortAddr
      <3>3. ASSUME data_misaligned_ex PROVE Goal
        <4>1. WritesLsu(ex) /\ ex.rd = r
          BY <3>1, <3>3, <1>1 DEF WbInv
        <4> QED BY <4>1, <1>8, LoadPersists
      <3> QED BY <3>2, <3>3, <2>5, <1>8, WbPersists
    <2>6. ASSUME ApuPending(r) PROVE Goal
      <3>1. valid_inflight /\ addr_inflight = r /\ ApuLast
        BY <2>6 DEF ApuPending
      <3>2. CASE ~apu_valid(c)
        <4>1. Waits(c)
          BY <3>1, <3>2, <1>1, ApuEdge DEF Gone, Starts
        <4> QED BY <4>1, <3>1, <1>8 DEF Waits, ApuPending
      <3>3. CASE apu_valid(c)
        <4>1. apu_waddr(c) = r /\ apu_lat \in {2, 3}
          BY <3>1, <3>3, <1>1, ApuPorts, ApuWires
        <4>2. ~AluPortByApu(c)
          BY <4>1, <1>8 DEF AluPortPower, AluPortAddr
        <4>3. apu_lat = 2 /\ LsuPortByApu(c)
          BY <4>1, <4>2, <3>1, <3>3, <1>1, ApuPorts
        <4>4. regfile_we_lsu
          BY <4>1, <4>3, <1>8 DEF WbPortPower, WbPortAddr
        <4>5. ex.op = "fpu" /\ ex.rd = r
          BY <4>3, <4>4, <3>1, <1>1 DEF ApuInv, InFlightIs
        <4> QED BY <4>5, <2>4
      <3> QED BY <3>2, <3>3
    <2> QED BY <2>1, <2>2, <2>3, <2>4, <2>5, <2>6 DEF ExPending
  <1> QED BY <1>3, <1>5, <1>6, <1>7, <1>8

-----------------------------------------------------------------------------
(* The operands                                                            *)

(* The four ways a register lacks its value: each is seen by a stall or by *)
(* a forwarding select.                                                    *)
LEMMA WhyPending ==
  ASSUME ExecInv, ~rf_ok[id.rs], UsesReg(id)
  PROVE  \/ regfile_alu_we_ex /\ IsSource(AluDest(ex))
         \/ WritesLsu(ex) /\ IsSource(regfile_waddr_ex)
         \/ ex.op = "fpu" /\ IsSource(ex.rd)
         \/ regfile_we_lsu /\ IsSource(wb.rd) /\ wb.last
         \/ valid_inflight /\ IsSource(addr_inflight) /\ ApuLast
  <1>1. id.rs \in Reg
    BY DecodedFacts DEF ExecInv, TypeInv
  <1>2. ExPending(id.rs) \/ WbPending(id.rs) \/ ApuPending(id.rs)
    BY <1>1 DEF ExecInv, Pending
  <1>3. WritesLsu(ex) => regfile_waddr_ex = ex.rd
    BY DEF ExecInv, ExInv
  <1> QED BY <1>2, <1>3 DEF ExPending, WbPending, ApuPending, IsSource

LEMMA CapturedRight ==
  ASSUME ExecInv, NEW c \in Input, Issues(c)
  PROVE  OperandRight(c)
  <1>1. TypeInv /\ ExInv /\ WbInv /\ ApuInv /\ Pending
    BY DEF ExecInv
  <1>2. EXReady(c) /\ IsDecoding(c) /\ ~load_stall(c) /\ ~apu_stall(c)
    BY NothingStalls
  <1> SUFFICES ASSUME UsesReg(id) PROVE OperandRight(c)
    BY DEF OperandRight
  <1> DEFINE byAlu == AluPortWe(c) /\ IsSource(AluPortAddr(c))
             byWb  == WbPortWe(c) /\ IsSource(WbPortAddr(c))
  <1>3. ~(WritesLsu(ex) /\ IsSource(regfile_waddr_ex))
    BY <1>2 DEF load_stall
  <1>4. WritesLsu(ex) => regfile_waddr_ex = ex.rd
    BY <1>1 DEF ExInv
  <1>5. ~Dependent(c, {id.rs})
    BY <1>2 DEF apu_stall
  (* An FPU operation in EX is on the ALU port, or stalls its reader. *)
  <1>6. ex.op = "fpu" /\ IsSource(ex.rd) => AtOnce(c) /\ byAlu
    <2> SUFFICES ASSUME ex.op = "fpu", IsSource(ex.rd) PROVE AtOnce(c) /\ byAlu
      OBVIOUS
    <2>1. valid_req
      BY <1>1, <1>2, ExReady, ApuWires
    <2>2. returned_req(c)
      BY <1>5, <2>1 DEF Dependent, IsSource
    <2>3. AtOnce(c)
      BY <1>1, <2>2, ApuWires
    <2> QED BY <1>1, <2>3, ApuPorts DEF AluPortWe, AluPortAddr
  <1>7. valid_inflight => ~AtOnce(c)
    BY <1>1, ApuWires
  (* A result that is not the last has its younger writer in EX. *)
  <1>8. valid_inflight /\ IsSource(addr_inflight) => ApuLast
    BY <1>1, <1>6, <1>7 DEF ApuInv, InFlightIs
  <1>9. ASSUME byAlu PROVE AluPortRight(c)
    <2>1. CASE AluPortByApu(c)
      <3>1. AtOnce(c) => Right(apu_result(c), apu_waddr(c))
        BY <1>1, ApuPorts DEF Right
      <3>2. valid_inflight /\ apu_valid(c) => Right(apu_result(c), apu_waddr(c))
        BY <1>1, <1>8, <1>9, <2>1, ApuPorts DEF Right, AluPortAddr
      <3> QED BY <1>1, <2>1, <3>1, <3>2, ApuPorts DEF AluPortRight
    <2>2. CASE ~AluPortByApu(c)
      <3>1. regfile_alu_we_ex /\ IsSource(AluDest(ex))
        BY <1>9, <2>2 DEF AluPortWe, AluPortAddr
      <3>2. WritesAlu(ex) /\ UnitsReady
        BY <1>1, <1>2, <3>1, ExReady
      <3>3. ~(WritesLsu(ex) /\ ex.rd = ex.rs)
        <4> SUFFICES ASSUME WritesLsu(ex), ex.rd = ex.rs PROVE FALSE
          OBVIOUS
        <4>1. ex.inc
          BY <1>1, <3>2, DecodedFacts DEF TypeInv
        <4> QED BY <4>1, <3>1, <1>3, <1>4 DEF AluDest
      <3>4. acc_ok
        BY <1>1 DEF ExInv
      <3> QED BY <2>2, <3>2, <3>3, <3>4 DEF AluPortRight
    <2> QED BY <2>1, <2>2
  <1>10. ASSUME ~byAlu, byWb PROVE WbPortRight(c)
    <2>1. CASE regfile_we_lsu
      <3>1. IsSource(wb.rd)
        BY <1>10, <2>1 DEF WbPortAddr
      <3>2. ~WritesLsu(ex) => regfile_waddr_ex = wb.rd
        BY <1>1, <2>1 DEF WbInv
      <3>3. LsuReadyWB(c)
        BY <1>1, <1>2, <1>10, <3>1, <3>2, ExReady DEF load_stall, WritesLsu
      <3>4. c.rvalid
        BY <1>1, <2>1, <3>3 DEF WbInv, LsuReadyWB, TypeInv
      <3>5. ~data_misaligned_ex
        BY <1>1, <1>3, <1>4, <2>1, <3>1 DEF WbInv
      <3>6. wb.last
        BY <1>1, <1>3, <1>4, <1>6, <1>10, <2>1, <3>1 DEF WbInv, WritesLsu
      <3> QED BY <2>1, <3>4, <3>5, <3>6 DEF WbPortRight
    <2>2. CASE ~regfile_we_lsu
      <3>1. LsuPortByApu(c) /\ IsSource(apu_waddr(c))
        BY <1>10, <2>2 DEF WbPortWe, WbPortAddr
      <3>2. valid_inflight /\ apu_valid(c)
        BY <1>1, <3>1, ApuPorts DEF LsuPortByApu
      <3>3. Right(apu_result(c), apu_waddr(c))
        BY <1>1, <1>8, <3>1, <3>2, ApuPorts DEF Right
      <3> QED BY <2>2, <3>3 DEF WbPortRight
    <2> QED BY <2>1, <2>2
  <1>11. ASSUME ~byAlu, ~byWb PROVE rf_ok[id.rs]
    <2> SUFFICES ASSUME ~rf_ok[id.rs] PROVE FALSE
      OBVIOUS
    <2>1. ~(regfile_alu_we_ex /\ IsSource(AluDest(ex)))
      BY <1>1, <1>2, <1>11, ExReady DEF wb_contention, AluPortWe, AluPortAddr
    <2>2. ~(regfile_we_lsu /\ IsSource(wb.rd))
      BY <1>11 DEF WbPortWe, WbPortAddr
    <2>3. ASSUME valid_inflight, IsSource(addr_inflight) PROVE FALSE
      <3>1. apu_valid(c)
        BY <1>1, <1>5, <2>3, ApuWires DEF Dependent, IsSource
      <3>2. IsSource(apu_waddr(c)) /\ apu_lat \in {2, 3}
        BY <1>1, <2>3, <3>1, ApuPorts, ApuWires
      <3>3. ~AluPortByApu(c)
        BY <1>11, <3>2 DEF AluPortWe, AluPortAddr
      <3>4. apu_lat = 2 /\ LsuPortByApu(c)
        BY <1>1, <2>3, <3>1, <3>2, <3>3, ApuPorts
      <3>5. regfile_we_lsu
        BY <1>11, <3>2, <3>4 DEF WbPortWe, WbPortAddr
      <3>6. ex.op = "fpu" /\ ex.rd = addr_inflight
        BY <1>1, <2>3, <3>4, <3>5 DEF ApuInv, InFlightIs
      <3> QED BY <1>6, <1>7, <2>3, <3>6
    <2> QED BY <1>3, <1>6, <1>11, <2>1, <2>2, <2>3, WhyPending
  <1> QED BY <1>9, <1>10, <1>11 DEF OperandRight

LEMMA JumpRight ==
  ASSUME ExecInv, NEW c \in Input, Jumps(c)
  PROVE  rf_ok[id.rs]
  <1>1. TypeInv /\ ExInv /\ WbInv /\ ApuInv /\ Pending
    BY DEF ExecInv
  <1>2. id.op = "jalr" /\ IsDecoding(c) /\ ~jr_stall(c)
    BY DEF Jumps
  <1> SUFFICES ASSUME ~rf_ok[id.rs] PROVE FALSE
    OBVIOUS
  <1>3. UsesReg(id)
    BY <1>1, <1>2 DEF Pending, UsesReg
  <1>4. ~ReadDepForJalr(c)
    BY <1>2 DEF jr_stall
  <1>5. ~(valid_inflight /\ IsSource(addr_inflight)) /\ ~(ex.op = "fpu" /\ IsSource(ex.rd))
    BY <1>2, <1>3, <1>4 DEF ReadDepForJalr, IsSource
  <1>6. ~(WritesLsu(ex) /\ IsSource(regfile_waddr_ex)) /\ ~(regfile_we_lsu /\ IsSource(wb.rd))
    BY <1>2 DEF jr_stall, WbPortWe, WbPortAddr
  <1>7. ASSUME regfile_alu_we_ex, IsSource(AluDest(ex)) PROVE FALSE
    <2>1. HoldResult(c)
      BY <1>2, <1>4, <1>7 DEF HoldResult
    <2>2. ~AtOnce(c)
      BY <1>1, <1>7, ExReady, ApuWires DEF AtOnce
    <2>3. ~AluPortByApu(c)
      BY <1>1, <2>1, <2>2, ApuPorts DEF apu_valid, apu_multicycle
    <2> QED BY <1>2, <1>7, <2>3 DEF jr_stall, AluPortWe, AluPortAddr
  <1> QED BY <1>3, <1>5, <1>6, <1>7, WhyPending

-----------------------------------------------------------------------------
(* The theorems                                                            *)

LEMMA ExecInit == Init => ExecInv
  <1> SUFFICES ASSUME Init PROVE ExecInv
    OBVIOUS
  <1> USE DEF Init
  <1>1. TypeInv
    BY BubbleDecoded, EmptySeq DEF TypeInv, ResultType, Result
  <1>2. ExInv /\ WbInv /\ ApuInv
    BY DEF ExInv, WbInv, ApuInv, Bubble, WritesLsu, DataReqEX
  <1>3. Pending
    BY DEF Pending
  <1> QED BY <1>1, <1>2, <1>3 DEF ExecInv

LEMMA ExecNext == ExecInv /\ [Next]_vars => ExecInv'
  <1> SUFFICES ASSUME ExecInv, [Next]_vars PROVE ExecInv'
    OBVIOUS
  <1>1. ASSUME NEW c \in Input, Cycle(c) PROVE ExecInv'
    BY <1>1, TypeStep, ExStep, WbStep, ApuStep, PendingStep DEF ExecInv
  <1>2. CASE UNCHANGED vars
    BY <1>2 DEF vars, build, idVars, exVars, wbVars, apuVars, history,
                ExecInv, TypeInv, ExInv, WbInv, ApuInv, InFlightIs, ApuLast, Pending,
                ExPending, WbPending, ApuPending, WritesLsu, WritesAlu, AluDest, DataReqEX
  <1> QED BY <1>1, <1>2 DEF Next

LEMMA ExecInvariant == Spec => []ExecInv
  BY ExecInit, ExecNext, PTL DEF Spec

(* load_stall, jr_stall and apu_stall let no instruction take an operand,  *)
(* and no jump a target, that is not the value of program order, and the   *)
(* forwarding selects never pick an older one (cv32e40p_controller.sv).    *)
THEOREM OperandsAreRight == Spec => []OperandsRight
  <1>1. Init => OperandsRight
    BY DEF Init, OperandsRight
  <1>2. ExecInv /\ OperandsRight /\ [Next]_vars => OperandsRight'
    <2> SUFFICES ASSUME ExecInv, OperandsRight, [Next]_vars PROVE OperandsRight'
      OBVIOUS
    <2>1. ASSUME NEW c \in Input, Cycle(c) PROVE OperandsRight'
      <3>1. HistoryEdge(c, Wires(c)) /\ (Wires(c).issues <=> Issues(c))
            /\ (Wires(c).jumps <=> Jumps(c))
        BY <2>1, Edges, WiresAre
      <3>2. operand_ok' = /\ Wires(c).issues /\ id.op # "jalr" => OperandRight(c)
                          /\ Wires(c).jumps => rf_ok[id.rs]
        BY <3>1 DEF HistoryEdge
      <3> QED BY <3>1, <3>2, CapturedRight, JumpRight DEF OperandsRight
    <2>2. CASE UNCHANGED vars
      BY <2>2 DEF vars, history, OperandsRight
    <2> QED BY <2>1, <2>2 DEF Next
  <1> QED BY <1>1, <1>2, ExecInvariant, PTL DEF Spec

(* EX and the LSU let a load or store go in the same cycle: result_on_hold *)
(* of the APU dispatcher (cv32e40p_ex_stage.sv) keeps an FPU result away   *)
(* from the write port of its increment.                                   *)
THEOREM ExAndLsuAgree == Spec => []LockStep
  <1>1. Init => LockStep
    BY DEF Init, LockStep
  <1>2. ExecInv /\ LockStep /\ [Next]_vars => LockStep'
    <2> SUFFICES ASSUME ExecInv, LockStep, [Next]_vars PROVE LockStep'
      OBVIOUS
    <2>1. ASSUME NEW c \in Input, Cycle(c) PROVE LockStep'
      <3>1. HistoryEdge(c, Wires(c)) /\ (Wires(c).ex_ready <=> EXReady(c))
        BY <2>1, Edges, WiresAre
      <3>2. lockstep_ok' = (DataReqEX => (Wires(c).ex_ready <=> LsuReadyEX(c) /\ LsuReadyWB(c)))
        BY <3>1 DEF HistoryEdge
      <3> QED BY <3>1, <3>2, <2>1, AccessLeaves DEF LockStep, ExecInv
    <2>2. CASE UNCHANGED vars
      BY <2>2 DEF vars, history, LockStep
    <2> QED BY <2>1, <2>2 DEF Next
  <1> QED BY <1>1, <1>2, ExecInvariant, PTL DEF Spec

(* When the pipeline has emptied, every register holds the result of its   *)
(* last writer in program order: no write is lost between the two ports    *)
(* and the memorised result, and no older one lands last.                  *)
THEOREM RegistersAreSettled == Spec => []RegistersSettle
  <1>1. ExecInv => RegistersSettle
    <2> SUFFICES ASSUME ExecInv, Idle, NEW r \in Reg PROVE rf_ok[r]
      BY DEF RegistersSettle
    <2>1. ~WritesAlu(Bubble) /\ ~WritesLsu(Bubble) /\ Bubble.op # "fpu"
      BY DEF Bubble, WritesAlu, WritesLsu
    <2>2. ex = Bubble /\ ~regfile_we_lsu /\ ~valid_inflight
      BY DEF Idle, active
    <2> QED BY <2>1, <2>2 DEF ExecInv, ExInv, Pending, ExPending, WbPending, ApuPending
  <1> QED BY <1>1, ExecInvariant, PTL

(* csr_apu_stall (cv32e40p_controller.sv) lets no CSR instruction into EX  *)
(* while an FPU operation before it has still to deliver its flags.        *)
THEOREM FlagsAreComplete == Spec => []FlagsComplete
  <1>1. ExecInv => FlagsComplete
    BY DEF ExecInv, ApuInv, InFlightIs, FlagsComplete
  <1> QED BY <1>1, ExecInvariant, PTL

-----------------------------------------------------------------------------
(* How long ID can be stalled                                              *)

(* The cycles left until EX and WB are empty and the FPU has returned, if  *)
(* the environment answers at once.  A result of the FPU that must wait    *)
(* waits for a step of EX, which is counted already; behind a mulh this is *)
(* so of all but its last cycle.                                           *)
UnitRank ==
  IF ex.op = "mulh"
  THEN IF unit = "IDLE" THEN 5 ELSE IF unit = "STEP0" THEN 4 ELSE IF unit = "STEP1" THEN 3
       ELSE IF unit = "STEP2" THEN 2 ELSE 1
  ELSE IF unit = "IDLE" THEN 3 ELSE IF unit = "DIVIDE" THEN 2 ELSE 1

AccessRank == (IF WritesLsu(ex) THEN 2 ELSE 1) + (IF Misaligned THEN 1 ELSE 0)

ExRank ==
  IF ex.op = "bubble" THEN IF regfile_we_lsu THEN 1 ELSE 0
  ELSE IF ex.op \in {"mulh", "div"} THEN UnitRank
  ELSE IF DataReqEX THEN AccessRank
  ELSE IF ex.op = "fpu" THEN ex.lat ELSE 1

ApuRank ==
  IF ~valid_inflight THEN 0
  ELSE IF apu_lat = 3 /\ ~apu_rvalid_q /\ Head(fpu).new /\ ex.op # "mulh" THEN 2 ELSE 1

Rank == ExRank + ApuRank

RankInRange == Rank \in 0 .. 6 /\ ExRank \in 0 .. 5 /\ ApuRank \in 0 .. 2

LEMMA RankBound == TypeInv => RankInRange
  <1> SUFFICES ASSUME TypeInv PROVE RankInRange
    OBVIOUS
  <1>1. ex.lat \in 0 .. 3
    BY DecodedFacts DEF TypeInv
  <1>2. ApuRank \in 0 .. 2 /\ (ex.op = "mulh" => ApuRank \in 0 .. 1)
    BY DEF ApuRank
  <1>3. ExRank \in 0 .. 5 /\ (ex.op # "mulh" => ExRank \in 0 .. 3)
    BY <1>1 DEF ExRank, UnitRank, AccessRank, DataReqEX
  <1> QED BY <1>2, <1>3 DEF Rank, RankInRange

LEMMA ApuFalls ==
  ASSUME TypeInv, ExInv, ApuInv, NEW c \in Input, Cycle(c)
  PROVE  /\ ~Taken(c) => ApuRank' <= ApuRank
         /\ ~Taken(c) /\ valid_inflight /\ apu_valid(c) => ApuRank' < ApuRank
         /\ ~Taken(c) /\ valid_inflight /\ Prompt(c) /\ ~HoldResult(c) /\ ex.op # "mulh" =>
              ApuRank' < ApuRank
         /\ Taken(c) => ApuRank' < ex.lat
  <1>1. Gone(c) \/ Starts(c) \/ Waits(c)
    BY ApuEdge
  <1>2. Gone(c) => ApuRank' = 0 /\ ~Taken(c)
    BY DEF Gone, ApuRank
  <1>3. Waits(c) => ApuRank' = 1 /\ valid_inflight /\ ~apu_valid(c) /\ ApuRank \in 1 .. 2
    BY DEF Waits, ApuRank
  <1>4. Starts(c) => ApuRank' < ex.lat /\ Taken(c)
    <2> SUFFICES ASSUME Starts(c) PROVE ApuRank' < ex.lat /\ Taken(c)
      OBVIOUS
    <2>1. apu_lat' = ex.lat /\ ex.lat \in {2, 3} /\ Taken(c)
      BY DEF Starts
    <2>2. apu_lat' # 3 => ApuRank' \in 0 .. 1
      BY DEF ApuRank
    <2>3. ApuRank' \in 0 .. 2
      BY DEF ApuRank
    <2> QED BY <2>1, <2>2, <2>3
  <1>5. Waits(c) => ~Taken(c)
    BY ApuWires DEF Waits, Taken
  <1>6. valid_inflight => ApuRank \in 1 .. 2
    BY DEF ApuRank
  <1>7. ApuRank \in 0 .. 2
    BY DEF ApuRank
  <1>8. ASSUME Waits(c), Prompt(c), ~HoldResult(c), ex.op # "mulh"
        PROVE  ApuRank = 2
    <2>1. valid_inflight /\ ~apu_valid(c) /\ apu_lat = 3
      BY <1>8 DEF Waits
    <2>2. ~apu_rvalid_q /\ ~HeadReturns(c)
      BY <1>8, <2>1 DEF apu_valid, apu_rvalid
    <2>3. Len(fpu) = 1 /\ Head(fpu).lat = 3
      BY <2>1, <2>2 DEF ApuInv, InFlightIs
    <2>4. fpu # <<>>
      BY <2>3
    <2>5. Head(fpu).new
      BY <1>8, <2>2, <2>3, <2>4 DEF Prompt, HeadReturns
    <2> QED BY <1>8, <2>1, <2>2, <2>5 DEF ApuRank
  <1> QED BY <1>1, <1>2, <1>3, <1>4, <1>5, <1>6, <1>7, <1>8

LEMMA PromptReady ==
  ASSUME TypeInv, NEW c \in Input, Prompt(c)
  PROVE  LsuReadyEX(c) /\ LsuReadyWB(c)
  <1>1. cnt_q \in 0 .. 2
    BY DEF TypeInv
  <1>2. DataReqEX /\ cnt_q < 2 => Accepted(c)
    BY DEF Prompt, Accepted, TransValid, DEPTH
  <1>3. cnt_q > 0 => c.rvalid
    BY DEF Prompt
  <1> QED BY <1>1, <1>2, <1>3 DEF LsuReadyEX, LsuReadyWB

(* What holds EX back. *)
LEMMA WhyStays ==
  ASSUME TypeInv, ExInv, ApuInv, NEW c \in Input, Prompt(c), ~EXReady(c)
  PROVE  \/ ex.op \in {"mulh", "div"} /\ unit # "FINISH"
         \/ ex.op \notin {"bubble", "fpu"} /\ valid_inflight /\ apu_valid(c)
         \/ ex.op = "fpu" /\ valid_inflight /\ ~valid_req
  <1>1. LsuReadyEX(c) /\ LsuReadyWB(c)
    BY PromptReady
  <1>2. apu_stall_disp(c) \/ ~UnitsReady \/ wb_contention(c)
    BY <1>1, ExReady
  <1>3. ~UnitsReady => ex.op \in {"mulh", "div"} /\ unit # "FINISH"
    BY DEF UnitsReady
  <1>4. ASSUME wb_contention(c)
        PROVE  ex.op \notin {"bubble", "fpu"} /\ valid_inflight /\ apu_valid(c)
    <2>1. AluPortByApu(c) /\ regfile_alu_we_ex
      BY <1>4 DEF wb_contention
    <2>2. ex.op \notin {"bubble", "fpu"}
      BY <2>1, DecodedFacts DEF ExInv, TypeInv
    <2>3. ~AtOnce(c)
      BY <2>2, ApuWires DEF AtOnce
    <2> QED BY <2>1, <2>2, <2>3, ApuPorts
  <1>5. apu_stall_disp(c) => ex.op = "fpu" /\ valid_inflight /\ ~valid_req
    <2>1. valid_req => c.gntF
      BY DEF Prompt
    <2>2. stall_type => ex.op = "fpu" /\ valid_inflight /\ ~valid_req
      BY ApuWires DEF stall_type, valid_req
    <2> QED BY <2>1, <2>2, ApuWires
  <1> QED BY <1>2, <1>3, <1>4, <1>5

(* An empty pipeline stalls nothing. *)
LEMMA WhyStalls ==
  ASSUME TypeInv, ExInv, ApuInv, NEW c \in Input, Prompt(c), ex.op = "bubble", ~IdReady(c)
  PROVE  regfile_we_lsu \/ valid_inflight
  <1> SUFFICES ASSUME ~regfile_we_lsu, ~valid_inflight PROVE FALSE
    OBVIOUS
  <1>1. ~WritesLsu(ex) /\ ~DataReqEX /\ ~regfile_alu_we_ex
    BY DecodedFacts DEF WritesLsu, DataReqEX, ExInv, TypeInv
  <1>2. ~valid_req /\ ~AtOnce(c)
    BY ApuWires DEF AtOnce
  <1>3. ~AluPortByApu(c) /\ ~LsuPortByApu(c)
    BY <1>2, ApuPorts
  <1>4. ~Misaligned /\ EXReady(c)
    BY <1>1, WhyStays DEF Misaligned
  <1>5. LsuReadyWB(c)
    BY PromptReady
  <1>6. ~valid_waiting /\ ~active
    BY ApuWires DEF active
  <1>7. ~jr_stall(c)
    BY <1>1, <1>3, <1>6 DEF jr_stall, WbPortWe, AluPortWe, ReadDepForJalr
  <1>8. ~load_stall(c)
    BY <1>1, <1>5 DEF load_stall
  <1>9. ~apu_stall(c)
    BY <1>2, <1>6 DEF apu_stall, Dependent
  <1>10. ~csr_apu_stall
    BY <1>6 DEF csr_apu_stall
  <1> QED BY <1>4, <1>7, <1>8, <1>9, <1>10 DEF IdReady

LEMMA RankFalls ==
  ASSUME ExecInv, NEW c \in Input, Cycle(c), Prompt(c), ~IdReady(c)
  PROVE  Rank' < Rank
  <1>1. TypeInv /\ ExInv /\ WbInv /\ ApuInv /\ TypeInv' /\ ExInv'
    BY TypeStep, ExStep DEF ExecInv
  <1>2. Stays(c) \/ Splits(c) \/ Leaves(c)
    BY <1>1, ExEdge
  <1>3. ~Issues(c)
    BY DEF Issues
  (* exRank and apuRank are the ranks after the cycle. *)
  <1>e. PICK exRank : exRank = ExRank'
    OBVIOUS
  <1>a. PICK apuRank : apuRank = ApuRank'
    OBVIOUS
  <1>4. /\ ExRank \in 0 .. 5 /\ ApuRank \in 0 .. 2
        /\ exRank \in 0 .. 5 /\ apuRank \in 0 .. 2
    <2>1. ExRank \in 0 .. 5 /\ ApuRank \in 0 .. 2
      BY <1>1, RankBound DEF RankInRange
    <2>2. TypeInv' => RankInRange'
      BY RankBound, PTL
    <2>3. ExRank' \in 0 .. 5 /\ ApuRank' \in 0 .. 2
      BY <1>1, <2>2 DEF RankInRange
    <2> QED BY <1>e, <1>a, <2>1, <2>3
  <1> SUFFICES exRank + apuRank < ExRank + ApuRank
    BY <1>e, <1>a DEF Rank
  <1>5. Taken(c) => ex.op = "fpu"
    BY <1>1, ApuWires DEF Taken
  <1>6. /\ ~Taken(c) => apuRank <= ApuRank
        /\ ~Taken(c) /\ valid_inflight /\ apu_valid(c) => apuRank < ApuRank
        /\ ~Taken(c) /\ valid_inflight /\ ~HoldResult(c) /\ ex.op # "mulh" => apuRank < ApuRank
        /\ Taken(c) => apuRank < ex.lat
    BY <1>1, <1>a, ApuFalls
  <1>7. Unanswered(c) => ~regfile_we_lsu'
    BY <1>1, PromptReady DEF Unanswered
  <1>8. Answered(c) \/ Unanswered(c)
    BY <1>1, LsuEdge
  <1>9. Answered(c) => DataReqEX /\ EXReady(c) /\ (regfile_we_lsu' <=> WritesLsu(ex))
    BY DEF Answered
  <1>10. CASE Stays(c)
    <2>1. ex' = ex /\ ~EXReady(c) /\ data_misaligned_ex' = data_misaligned_ex
      BY <1>10 DEF Stays
    <2>2. UnitEdge(c, Wires(c)) /\ (Wires(c).ex_ready <=> EXReady(c))
      BY Edges, WiresAre
    <2>3. unit \in {"IDLE", "STEP0", "STEP1", "STEP2", "DIVIDE", "FINISH"}
      BY <1>1 DEF TypeInv
    <2>4. CASE ex.op \in {"mulh", "div"} /\ unit # "FINISH"
      <3>1. UnitRank' < UnitRank
        <4>1. /\ unit = "DIVIDE" => c.doneD
              /\ unit \in {"STEP0", "STEP1", "STEP2"} => ex.op = "mulh"
              /\ unit = "DIVIDE" => ex.op = "div"
          BY <1>1 DEF Prompt, ExInv
        <4> QED BY <2>1, <2>2, <2>3, <2>4, <4>1 DEF UnitEdge, UnitRank
      <3>2. exRank < ExRank
        BY <2>1, <2>4, <3>1, <1>e DEF ExRank
      <3>3. apuRank <= ApuRank
        BY <2>4, <1>5, <1>6
      <3> QED BY <3>2, <3>3, <1>4
    <2>5. CASE ex.op \in {"mulh", "div"} /\ unit = "FINISH"
      <3>1. UnitRank' = UnitRank
        BY <2>1, <2>2, <2>5 DEF UnitEdge, UnitRank
      <3>2. exRank = ExRank
        BY <2>1, <2>5, <3>1, <1>e DEF ExRank
      <3>3. valid_inflight /\ apu_valid(c) /\ ~Taken(c)
        BY <2>1, <2>5, <1>1, <1>5, WhyStays
      <3> QED BY <3>2, <3>3, <1>4, <1>6
    <2>6. CASE ex.op \notin {"mulh", "div"}
      <3>1. ex.op # "bubble" /\ valid_inflight /\ (ex.op = "fpu" => ~valid_req)
            /\ (ex.op # "fpu" => apu_valid(c))
        BY <2>1, <2>6, <1>1, WhyStays
      <3>2. ~Taken(c)
        BY <3>1, <1>1, <1>5, ApuWires DEF Taken
      <3>3. apuRank < ApuRank
        BY <3>1, <3>2, <1>1, <1>6, FpuInEx
      <3>4. exRank = ExRank
        BY <2>1, <2>6, <3>1, <1>e DEF ExRank, AccessRank, DataReqEX, Misaligned, WritesLsu
      <3> QED BY <3>3, <3>4, <1>4
    <2> QED BY <2>4, <2>5, <2>6
  <1>11. CASE Splits(c)
    <2>1. ex' = ex /\ Misaligned /\ ~Misaligned' /\ DataReqEX
      BY <1>11 DEF Splits, Misaligned
    <2>2. exRank < ExRank
      BY <2>1, <1>e DEF ExRank, AccessRank, DataReqEX, WritesLsu
    <2>3. apuRank <= ApuRank
      BY <2>1, <1>5, <1>6 DEF DataReqEX
    <2> QED BY <2>2, <2>3, <1>4
  <1>12. CASE Leaves(c)
    <2>1. ex' = Bubble /\ EXReady(c) /\ ~Misaligned
      BY <1>3, <1>12 DEF Leaves
    <2>2. exRank = IF regfile_we_lsu' THEN 1 ELSE 0
      BY <2>1, <1>e DEF ExRank, Bubble
    <2>3. CASE ex.op = "bubble"
      <3>1. ~regfile_we_lsu'
        BY <2>3, <1>7, <1>8, <1>9 DEF DataReqEX
      <3>2. exRank = 0 /\ ExRank = IF regfile_we_lsu THEN 1 ELSE 0
        BY <2>2, <2>3, <3>1, <1>e DEF ExRank
      <3>3. ~Taken(c)
        BY <2>3, <1>5
      <3>4. regfile_we_lsu \/ valid_inflight
        BY <2>3, <1>1, WhyStalls
      <3>5. ASSUME ~regfile_we_lsu PROVE apuRank < ApuRank
        <4>1. ~HoldResult(c)
          <5>1. ~DataReqEX /\ ~regfile_alu_we_ex
            BY <2>3, <1>1, DecodedFacts DEF DataReqEX, ExInv, TypeInv
          <5> QED BY <2>1, <2>3, <5>1, <1>1 DEF HoldResult, ExInv, MulhActive
        <4> QED BY <2>3, <3>3, <3>4, <3>5, <4>1, <1>6
      <3> QED BY <3>2, <3>3, <3>5, <1>4, <1>6
    <2>4. CASE ex.op = "fpu"
      <3>1. ExRank = ex.lat /\ ex.lat \in 1 .. 3
        BY <2>4, <1>1, DecodedFacts DEF ExRank, DataReqEX, TypeInv
      <3>2. exRank = 0
        BY <2>2, <2>4, <1>7, <1>8, <1>9, <1>e DEF DataReqEX
      <3> QED BY <3>1, <3>2, <1>4, <1>6
    <2>5. CASE ex.op \notin {"bubble", "fpu"}
      <3>1. ExRank >= 1 /\ (WritesLsu(ex) => ExRank >= 2)
        BY <2>5 DEF ExRank, UnitRank, AccessRank, DataReqEX, WritesLsu
      <3>2. regfile_we_lsu' => WritesLsu(ex)
        BY <1>7, <1>8, <1>9
      <3>3. apuRank <= ApuRank
        BY <2>5, <1>5, <1>6
      <3> QED BY <2>2, <3>1, <3>2, <3>3, <1>4
    <2> QED BY <2>3, <2>4, <2>5
  <1> QED BY <1>2, <1>10, <1>11, <1>12

(* ID is never stalled for more than six cycles while memory, divider and  *)
(* FPU answer at once: EX, the write ports and the dispatcher never wait   *)
(* for each other.                                                         *)
THEOREM StallsAreShort ==
  ASSUME MaxStall >= 6
  PROVE  Spec => []StallsEnd
  <1> DEFINE Waiting6 == waited \in Nat /\ waited + Rank <= 6
  <1>1. Init => Waiting6
    <2> SUFFICES ASSUME Init PROVE Waiting6
      OBVIOUS
    <2>1. Rank = 0 /\ waited = 0
      BY DEF Init, Rank, ExRank, ApuRank, Bubble
    <2> QED BY <2>1
  <1>2. ExecInv /\ Waiting6 /\ [Next]_vars => Waiting6'
    <2> SUFFICES ASSUME ExecInv, Waiting6, [Next]_vars PROVE Waiting6'
      OBVIOUS
    <2>1. ASSUME NEW c \in Input, Cycle(c) PROVE Waiting6'
      <3>1. waited' = IF IdReady(c) \/ ~Prompt(c) THEN 0 ELSE waited + 1
        <4>1. HistoryEdge(c, Wires(c)) /\ (Wires(c).id_ready <=> IdReady(c))
          BY <2>1, Edges, WiresAre
        <4> QED BY <4>1 DEF HistoryEdge
      <3>2. Rank \in 0 .. 6
        BY RankBound DEF ExecInv, RankInRange
      <3>p. PICK rank : rank = Rank'
        OBVIOUS
      <3>3. rank \in 0 .. 6
        <4>1. TypeInv' => RankInRange'
          BY RankBound, PTL
        <4>2. RankInRange'
          BY <2>1, <4>1, TypeStep
        <4> QED BY <4>2, <3>p DEF RankInRange
      <3>4. CASE IdReady(c) \/ ~Prompt(c)
        <4>1. waited' \in Nat /\ waited' + rank <= 6
          BY <3>1, <3>3, <3>4
        <4> QED BY <4>1, <3>p
      <3>5. CASE ~IdReady(c) /\ Prompt(c)
        <4>1. rank < Rank /\ waited' = waited + 1
          BY <2>1, <3>1, <3>5, <3>p, RankFalls
        <4>2. waited' \in Nat /\ waited' + rank <= 6
          BY <4>1, <3>2, <3>3
        <4> QED BY <4>2, <3>p
      <3> QED BY <3>4, <3>5
    <2>2. CASE UNCHANGED vars
      BY <2>2 DEF vars, idVars, exVars, wbVars, apuVars, history, Rank, ExRank, ApuRank,
                  UnitRank, AccessRank, DataReqEX, Misaligned, WritesLsu
    <2> QED BY <2>1, <2>2 DEF Next
  <1>3. ExecInv /\ Waiting6 => StallsEnd
    <2> SUFFICES ASSUME ExecInv, Waiting6 PROVE StallsEnd
      OBVIOUS
    <2>1. Rank \in 0 .. 6 /\ MaxStall \in Nat
      BY RankBound DEF ExecInv, RankInRange
    <2> QED BY <2>1 DEF StallsEnd
  <1> QED BY <1>1, <1>2, <1>3, ExecInvariant, PTL DEF Spec
===============================================================================
