------------------------------- MODULE Execute -------------------------------
(***************************************************************************)
(* Issue, execution and write-back of CV32E40P: the hazard logic and the   *)
(* forwarding selects (end of rtl/cv32e40p_controller.sv), the ID/EX       *)
(* register (cv32e40p_id_stage.sv), the two write ports and the EX/WB      *)
(* register (cv32e40p_ex_stage.sv), the APU dispatcher                     *)
(* (cv32e40p_apu_disp.sv) and the register file.  The floating-point unit  *)
(* and the data memory are external.                                       *)
(*                                                                         *)
(* One step is one clock edge, c its inputs.  There are no data: what      *)
(* matters of a value is whether it is the one program order gives its     *)
(* register, that is, the finished result of the last instruction issued   *)
(* that writes the register.  A result on its way carries its register and *)
(* "last", which a younger writer of the register takes away.              *)
(*                                                                         *)
(* One source register stands for the three operands, whose comparators    *)
(* and multiplexers are the same.                                          *)
(***************************************************************************)
EXTENDS Integers, Sequences

CONSTANTS Reg,        \* registers, 0 is x0; integer and floating-point alike
          Instrs,     \* the instructions a program may contain
          MaxStall,   \* longest stall of ID by the pipeline itself
          LatSets     \* sets of FPU latency classes (1, 2, 3) a build may have

Ops == {"alu", "mulh", "div", "load", "store", "fpu", "jalr", "csr", "branch", "bubble"}

(* rs: source, base or jump register; rd: destination; inc: the base       *)
(* register is incremented; mis: the access is misaligned.                 *)
InstrType == [op : Ops, rs : Reg, rd : Reg, inc : BOOLEAN, mis : BOOLEAN, lat : 0 .. 3]

ASSUME ExecuteAssumption ==
  /\ Reg \subseteq Nat /\ 0 \in Reg
  /\ Instrs \subseteq InstrType /\ MaxStall \in Nat
  /\ \A i \in Instrs : i.inc => i.op \in {"load", "store"}
  /\ \A lats \in LatSets : lats \subseteq 1 .. 3

Bubble == [op |-> "bubble", rs |-> 0, rd |-> 0, inc |-> FALSE, mis |-> FALSE, lat |-> 0]

VARIABLES
  COREV_PULP, lats,           \* parameters of the build, never change
  id, instr_valid_id, jump_done_q,        \* IF/ID; its instruction outlives its validity
  ex, regfile_alu_we_ex,      \* ID/EX
  regfile_waddr_ex,           \* ID/EX: destination of the last load
  data_misaligned_ex,
  unit,                       \* state of mulh_CS (mult.sv) or State_SP (alu_div.sv)
  acc_ok,                     \* the partial sums of mulh in mult_operand_c_ex
  cnt_q,                      \* data accesses to be answered
  regfile_we_lsu, wb,         \* EX/WB: the load in WB, a result
  valid_inflight, addr_inflight, valid_waiting, addr_waiting, apu_lat,
  apu_rvalid_q, apu_result_q, \* APU result memorisation
  fpu,                        \* external: results not yet returned, oldest first
  rf_ok,                      \* register file: holds the value of program order
  operand_ok,                 \* history: the operand captured last was right
  waited,                     \* history: ID was ready
  lockstep_ok                 \* history: EX let the load or store go when the LSU did

build   == <<COREV_PULP, lats>>
idVars  == <<id, instr_valid_id, jump_done_q>>
exVars  == <<ex, regfile_alu_we_ex, regfile_waddr_ex, data_misaligned_ex, unit, acc_ok>>
wbVars  == <<cnt_q, regfile_we_lsu, wb>>
apuVars == <<valid_inflight, addr_inflight, valid_waiting, addr_waiting, apu_lat,
             apu_rvalid_q, apu_result_q, fpu>>
history == <<operand_ok, lockstep_ok, waited>>
vars    == <<build, idVars, exVars, wbVars, apuVars, rf_ok, history>>

Result(r, last) == [rd |-> r, last |-> last]

(* A younger instruction writes the registers in ds. *)
Outdated(result, ds) == [result EXCEPT !.last = @ /\ result.rd \notin ds]

-----------------------------------------------------------------------------
(* Decoder outputs, before deassert_we *)

UsesReg(i)  == i.op # "bubble" /\ i.rs # 0
WritesAlu(i) == i.op \in {"alu", "mulh", "div", "jalr", "csr"} \/ i.inc
AluDest(i)   == IF i.inc THEN i.rs ELSE i.rd
WritesLsu(i) == i.op = "load"
WriteRegs(i) == {r \in Reg : (WritesAlu(i) /\ r = AluDest(i)) \/ (WritesLsu(i) /\ r = i.rd)}

(* All registers an instruction writes; a result of the FPU has no write   *)
(* enable in ID/EX.                                                        *)
Dests(i) == WriteRegs(i) \cup (IF i.op = "fpu" THEN {i.rd} ELSE {})

BranchTaken(c) == ex.op = "branch" /\ c.taken
IsDecoding(c)  == instr_valid_id /\ ~BranchTaken(c) /\ ~c.halt

-----------------------------------------------------------------------------
(* Load/store unit: see LoadStoreUnit.tla *)

DEPTH == 2

DataReqEX == ex.op \in {"load", "store"}
Misaligned == DataReqEX /\ ex.mis /\ ~data_misaligned_ex
TransValid == DataReqEX /\ cnt_q < DEPTH
Accepted(c) == TransValid /\ c.gnt
LsuReadyWB(c) == cnt_q = 0 \/ c.rvalid
LsuReadyEX(c) ==
  \/ ~DataReqEX
  \/ cnt_q = 0 /\ Accepted(c)
  \/ cnt_q = 1 /\ c.rvalid /\ Accepted(c)
  \/ cnt_q = 2 /\ c.rvalid

-----------------------------------------------------------------------------
(* Multi-cycle units *)

MulhActive == ex.op = "mulh" /\ unit # "IDLE"
MulMulticycle == unit \in {"STEP0", "STEP1", "STEP2"}
UnitsReady == ex.op \in {"mulh", "div"} => unit = "FINISH"

-----------------------------------------------------------------------------
(* APU dispatcher *)

active == valid_inflight \/ valid_waiting
stall_full == valid_inflight /\ valid_waiting
stall_typeIdle == ex.op = "fpu" /\ (ex.lat = 1 \/ (ex.lat = 2 /\ apu_lat = 3) \/ ex.lat = 3)   \* mutant
stall_type == ex.op = "fpu" /\ active /\ (ex.lat = 1 \/ (ex.lat = 2 /\ apu_lat = 3) \/ ex.lat = 3)
valid_req == ex.op = "fpu" /\ ~(stall_full \/ stall_type)
req_accepted(c) == valid_req /\ c.gntF
apu_stall_disp(c) == stall_full \/ stall_type \/ (valid_req /\ ~c.gntF)
apu_multicycle == apu_lat = 3
apu_singlecycle == ~active

ReadDepForJalr(c) ==
  /\ IsDecoding(c) /\ UsesReg(id)
  /\ \/ ex.op = "fpu" /\ id.rs = ex.rd
     \/ valid_inflight /\ id.rs = addr_inflight
     \/ valid_waiting /\ id.rs = addr_waiting

(* Mutants: a result returned during a mulh, or under the address phase of *)
(* a load or store, is not held back.                                      *)
HoldResultNotMulh(c) ==
  \/ Misaligned \/ data_misaligned_ex
  \/ (TransValid \/ c.rvalid) /\ regfile_alu_we_ex
  \/ id.op = "jalr" /\ regfile_alu_we_ex /\ ~ReadDepForJalr(c)
HoldResultNotLsu(c) ==
  \/ Misaligned \/ data_misaligned_ex \/ MulhActive
  \/ id.op = "jalr" /\ regfile_alu_we_ex /\ ~ReadDepForJalr(c)

(* When the ALU port is needed for something else a result is held back. *)
HoldResult(c) ==
  \/ Misaligned \/ data_misaligned_ex
  \/ (TransValid \/ c.rvalid) /\ regfile_alu_we_ex
  \/ MulhActive
  \/ id.op = "jalr" /\ regfile_alu_we_ex /\ ~ReadDepForJalr(c)

(* External FPU: class 1 answers a request at once, 2 in the next cycle, 3 *)
(* after two cycles or more.                                               *)
HeadReturns(c) == fpu # <<>> /\ (Head(fpu).lat = 2 \/ (~Head(fpu).new /\ c.doneF))
AtOnce(c) == req_accepted(c) /\ ex.lat = 1
apu_rvalid(c) == HeadReturns(c) \/ AtOnce(c)
FpuResult(c) ==
  IF HeadReturns(c) THEN Result(Head(fpu).rd, Head(fpu).last) ELSE Result(ex.rd, TRUE)

apu_valid(c) == ~(apu_multicycle /\ HoldResult(c)) /\ (apu_rvalid(c) \/ apu_rvalid_q)
apu_result(c) == IF apu_rvalid_q THEN apu_result_q ELSE FpuResult(c)

returned_req(c) == valid_req /\ apu_valid(c) /\ ~valid_inflight /\ ~valid_waiting
returned_inflight(c) == valid_inflight /\ apu_valid(c) /\ ~valid_waiting
returned_waiting(c) == valid_waiting /\ apu_valid(c)

apu_waddr(c) ==
  IF returned_waiting(c) THEN addr_waiting
  ELSE IF returned_inflight(c) THEN addr_inflight
  ELSE IF returned_req(c) THEN ex.rd ELSE 0

(* An operation not returned in this cycle has one of the registers rs. *)
Dependent(c, rs) ==
  \/ valid_req /\ ~returned_req(c) /\ ex.rd \in rs
  \/ valid_inflight /\ ~returned_inflight(c) /\ addr_inflight \in rs
  \/ valid_waiting /\ ~returned_waiting(c) /\ addr_waiting \in rs

-----------------------------------------------------------------------------
(* Write ports.  A value is right if it is finished and the last one.      *)

Right(result, addr) == result.rd = addr /\ result.last

AluPortByApu(c) == apu_valid(c) /\ (apu_singlecycle \/ apu_multicycle)
wb_contention(c) == AluPortByApu(c) /\ regfile_alu_we_ex
AluPortWe(c) == AluPortByApu(c) \/ regfile_alu_we_ex
AluPortPower(c) ==
  \/ AluPortByApu(c)
  \/ regfile_alu_we_ex /\ (COREV_PULP => UnitsReady /\ LsuReadyEX(c))
AluPortAddr(c) == IF AluPortByApu(c) THEN apu_waddr(c) ELSE AluDest(ex)
AluPortRight(c) ==
  IF AluPortByApu(c) THEN Right(apu_result(c), apu_waddr(c))
  ELSE UnitsReady /\ (ex.op = "mulh" => acc_ok) /\ ~(WritesLsu(ex) /\ ex.rd = ex.rs)

LsuPortByApu(c) == apu_valid(c) /\ ~apu_singlecycle /\ ~apu_multicycle
WbPortWe(c) == regfile_we_lsu \/ LsuPortByApu(c)
WbPortPower(c) ==
  IF regfile_we_lsu THEN COREV_PULP => ~data_misaligned_ex /\ LsuReadyWB(c)
  ELSE LsuPortByApu(c)
WbPortAddr(c) == IF regfile_we_lsu \/ ~LsuPortByApu(c) THEN wb.rd ELSE apu_waddr(c)
WbPortRight(c) ==
  IF regfile_we_lsu THEN c.rvalid /\ ~data_misaligned_ex /\ wb.last
  ELSE Right(apu_result(c), apu_waddr(c))

EXReady(c) ==
  \/ /\ ~apu_stall_disp(c) /\ UnitsReady /\ LsuReadyEX(c) /\ LsuReadyWB(c) /\ ~wb_contention(c)
  \/ ex.op = "branch"

-----------------------------------------------------------------------------
(* Hazards *)

IsSource(addr) == UsesReg(id) /\ addr = id.rs

load_stallExOnly(c) ==        \* mutant: a load still waiting in WB is forgotten
  /\ WritesLsu(ex)
  /\ \/ IsSource(regfile_waddr_ex)
     \/ IsDecoding(c) /\ WritesAlu(id) /\ ~Misaligned /\ AluDest(id) = regfile_waddr_ex

load_stall(c) ==
  /\ \/ WritesLsu(ex)
     \/ ~LsuReadyWB(c) /\ WbPortWe(c)
  /\ \/ IsSource(regfile_waddr_ex)
     \/ IsDecoding(c) /\ WritesAlu(id) /\ ~Misaligned /\ AluDest(id) = regfile_waddr_ex

jr_stall(c) ==
  /\ id.op = "jalr"
  /\ \/ WbPortWe(c) /\ IsSource(WbPortAddr(c))
     \/ WritesLsu(ex) /\ IsSource(regfile_waddr_ex)
     \/ AluPortWe(c) /\ IsSource(AluPortAddr(c))
     \/ ReadDepForJalr(c)

Asserted(c) == IsDecoding(c) /\ ~load_stall(c) /\ ~jr_stall(c)      \* ~deassert_we

apu_stall(c) ==
  /\ IsDecoding(c)
  /\ \/ UsesReg(id) /\ Dependent(c, {id.rs})
     \/ Asserted(c) /\ id.op # "fpu" /\ Dependent(c, WriteRegs(id))

csr_apu_stallLong == id.op = "csr" /\ ((ex.op = "fpu" /\ ex.lat = 3) \/ active)      \* mutant

csr_apu_stall == id.op = "csr" /\ ((ex.op = "fpu" /\ ex.lat \in {2, 3}) \/ active)

IdReady(c) ==
  /\ ~Misaligned /\ ~jr_stall(c) /\ ~load_stall(c) /\ ~apu_stall(c) /\ ~csr_apu_stall
  /\ EXReady(c)

(* The forwarding multiplexers *)
OperandRight(c) ==
  UsesReg(id) =>
    IF AluPortWe(c) /\ IsSource(AluPortAddr(c)) THEN AluPortRight(c)
    ELSE IF WbPortWe(c) /\ IsSource(WbPortAddr(c)) THEN WbPortRight(c)
    ELSE rf_ok[id.rs]

(* A jalr jumps as soon as nothing stalls it, with the register file's     *)
(* value, whether or not it can be issued.                                 *)
Jumps(c) == IsDecoding(c) /\ id.op = "jalr" /\ ~jr_stall(c) /\ ~jump_done_q

-----------------------------------------------------------------------------
(* The inputs of one cycle: free where they matter, FALSE elsewhere *)

Free(condition) == IF condition THEN BOOLEAN ELSE {FALSE}

Input ==
  {c \in [fetch  : BOOLEAN,                      \* IF has an instruction
          halt   : Free(instr_valid_id),         \* the controller empties ID
          taken  : Free(ex.op = "branch"),
          gnt    : Free(TransValid),
          rvalid : Free(cnt_q > 0),
          gntF   : Free(valid_req),              \* apu_gnt_i
          doneF  : Free(fpu # <<>> /\ Head(fpu).lat = 3 /\ ~Head(fpu).new),
          doneD  : Free(unit = "DIVIDE")] :
     c.halt => ~c.fetch}

(* The environment answers at once. *)
Prompt(c) ==
  /\ TransValid => c.gnt
  /\ cnt_q > 0 => c.rvalid
  /\ valid_req => c.gntF
  /\ (fpu # <<>> /\ Head(fpu).lat = 3) => (c.doneF \/ Head(fpu).new)
  /\ unit = "DIVIDE" => c.doneD

-----------------------------------------------------------------------------
(* Register updates; w are the signals several of them depend on. *)

Wires(c) ==
  LET id_ready == IdReady(c) IN
  [id_ready |-> id_ready,
   ex_ready |-> EXReady(c),
   jumps    |-> Jumps(c),
   issues   |-> id_ready /\ ~c.halt /\ Asserted(c) /\ id.op # "bubble",
   hold     |-> HoldResult(c),
   by_apu   |-> AluPortByApu(c)]

FetchEdge(c, w) ==
  LET if_valid == c.fetch /\ ~c.halt /\ ~w.jumps /\ ~BranchTaken(c) /\ w.id_ready IN
  /\ jump_done_q' = ((w.jumps \/ jump_done_q) /\ ~w.id_ready)
  /\ \/ /\ if_valid /\ instr_valid_id' = TRUE
        /\ id' \in {i \in Instrs : (i.op = "fpu" => i.lat \in lats) /\ (i.inc => COREV_PULP)}
     \/ /\ ~if_valid
        /\ instr_valid_id' = (instr_valid_id /\ ~(w.id_ready \/ c.halt \/ BranchTaken(c)))
        /\ UNCHANGED id

UnitEdge(c, w) ==
  unit' = CASE unit = "IDLE"   -> IF ex.op = "mulh" THEN "STEP0"
                                  ELSE IF ex.op = "div" THEN "DIVIDE" ELSE "IDLE"
            [] unit = "STEP0"  -> "STEP1"
            [] unit = "STEP1"  -> "STEP2"
            [] unit = "STEP2"  -> "FINISH"
            [] unit = "DIVIDE" -> IF c.doneD THEN "FINISH" ELSE "DIVIDE"
            [] unit = "FINISH" -> IF w.ex_ready THEN "IDLE" ELSE "FINISH"

IssueEdge(c, w) ==
  CASE Misaligned ->
         /\ IF w.ex_ready THEN data_misaligned_ex' = TRUE /\ regfile_alu_we_ex' = FALSE
                          ELSE UNCHANGED <<data_misaligned_ex, regfile_alu_we_ex>>
         /\ UNCHANGED <<ex, regfile_waddr_ex, acc_ok>>
    [] MulMulticycle ->       \* partial sums come back over the ALU write port
         /\ acc_ok' = (acc_ok /\ ~w.by_apu)
         /\ UNCHANGED <<ex, regfile_alu_we_ex, regfile_waddr_ex, data_misaligned_ex>>
    [] OTHER ->
         /\ acc_ok' = TRUE
         /\ IF (w.id_ready /\ ~c.halt) \/ w.ex_ready
            THEN /\ ex' = IF w.issues THEN id ELSE Bubble
                 /\ regfile_alu_we_ex' = (w.issues /\ WritesAlu(id))
                 /\ regfile_waddr_ex' = IF w.issues /\ WritesLsu(id) THEN id.rd
                                        ELSE regfile_waddr_ex
                 /\ data_misaligned_ex' = FALSE
            ELSE /\ regfile_alu_we_ex' = (regfile_alu_we_ex /\ ex.op # "csr")
                 /\ UNCHANGED <<ex, regfile_waddr_ex, data_misaligned_ex>>

IssuedDests(w) == IF w.issues THEN Dests(id) ELSE {}

WriteBackEdge(c, w) ==
  LET leaves == DataReqEX /\ LsuReadyEX(c) /\ LsuReadyWB(c) IN    \* ex_valid_o
  /\ cnt_q' = (cnt_q + (IF Accepted(c) THEN 1 ELSE 0)) - (IF c.rvalid THEN 1 ELSE 0)
  /\ regfile_we_lsu' = IF leaves THEN WritesLsu(ex) ELSE regfile_we_lsu /\ ~LsuReadyWB(c)
  /\ wb' = Outdated(IF leaves /\ WritesLsu(ex) THEN Result(ex.rd, TRUE) ELSE wb, IssuedDests(w))

InFlight(v, a) == /\ valid_inflight' = v /\ addr_inflight' = IF v THEN a ELSE 0
Waiting(v, a)  == /\ valid_waiting' = v /\ addr_waiting' = IF v THEN a ELSE 0

DispatchEdge(c) ==
  /\ IF req_accepted(c) /\ ~returned_req(c)
     THEN /\ InFlight(TRUE, ex.rd)
          /\ IF (valid_inflight /\ ~returned_inflight(c)) \/ returned_waiting(c)
             THEN Waiting(TRUE, addr_inflight)
             ELSE UNCHANGED <<valid_waiting, addr_waiting>>
     ELSE IF returned_inflight(c) THEN InFlight(FALSE, 0) /\ Waiting(FALSE, 0)
     ELSE IF returned_waiting(c)
          THEN Waiting(FALSE, 0) /\ UNCHANGED <<valid_inflight, addr_inflight>>
     ELSE UNCHANGED <<valid_inflight, addr_inflight, valid_waiting, addr_waiting>>
  /\ apu_lat' = IF valid_req THEN ex.lat ELSE apu_lat

MemorizeEdge(c, w) ==
  /\ apu_rvalid_q' = IF apu_rvalid(c) /\ apu_multicycle /\ w.hold THEN TRUE
                     ELSE apu_rvalid_q /\ w.hold
  /\ apu_result_q' = Outdated(IF apu_rvalid(c) /\ apu_multicycle /\ w.hold
                              THEN FpuResult(c) ELSE apu_result_q, IssuedDests(w))

FpuEdge(c, w) ==
  LET left  == IF HeadReturns(c) THEN Tail(fpu) ELSE fpu
      old   == [i \in DOMAIN left |-> [left[i] EXCEPT !.new = FALSE]]
      taken == req_accepted(c) /\ ex.lat # 1
      new   == [rd |-> ex.rd, last |-> TRUE, lat |-> ex.lat, new |-> TRUE]
      all   == IF taken THEN Append(old, new) ELSE old
  IN  fpu' = [i \in DOMAIN all |-> Outdated(all[i], IssuedDests(w))]

(* Port B, the ALU's, has priority over port A; x0 is never written. *)
RegisterEdge(c, w) ==
  LET ByAlu == {r \in Reg : AluPortPower(c) /\ r = AluPortAddr(c)}
      ByWb  == {r \in Reg : WbPortPower(c) /\ r = WbPortAddr(c)} \ ByAlu
  IN  rf_ok' = [r \in Reg |-> \/ r = 0
                              \/ /\ r \notin IssuedDests(w)
                                 /\ r \in ByAlu => AluPortRight(c)
                                 /\ r \in ByWb => WbPortRight(c)
                                 /\ r \in ByAlu \cup ByWb \/ rf_ok[r]]

HistoryEdge(c, w) ==
  /\ operand_ok' = /\ w.issues /\ id.op # "jalr" => OperandRight(c)
                   /\ w.jumps => rf_ok[id.rs]
  /\ waited' = IF w.id_ready \/ ~Prompt(c) THEN 0 ELSE waited + 1
  /\ lockstep_ok' = (DataReqEX => (w.ex_ready <=> LsuReadyEX(c) /\ LsuReadyWB(c)))

Cycle(c) ==
  \E w \in {Wires(c)} :
  /\ FetchEdge(c, w) /\ UnitEdge(c, w) /\ IssueEdge(c, w) /\ WriteBackEdge(c, w)
  /\ DispatchEdge(c) /\ MemorizeEdge(c, w) /\ FpuEdge(c, w)
  /\ RegisterEdge(c, w) /\ HistoryEdge(c, w)
  /\ UNCHANGED build

Init ==
  /\ COREV_PULP \in BOOLEAN /\ lats \in LatSets
  /\ id = Bubble /\ instr_valid_id = FALSE /\ jump_done_q = FALSE
  /\ ex = Bubble /\ regfile_alu_we_ex = FALSE /\ regfile_waddr_ex = 0
  /\ data_misaligned_ex = FALSE /\ unit = "IDLE" /\ acc_ok = TRUE
  /\ cnt_q = 0 /\ regfile_we_lsu = FALSE /\ wb = Result(0, TRUE)
  /\ valid_inflight = FALSE /\ addr_inflight = 0
  /\ valid_waiting = FALSE /\ addr_waiting = 0 /\ apu_lat = 0
  /\ apu_rvalid_q = FALSE /\ apu_result_q = Result(0, TRUE)
  /\ fpu = <<>>
  /\ rf_ok = [r \in Reg |-> TRUE] /\ operand_ok = TRUE /\ lockstep_ok = TRUE /\ waited = 0

Next == \E c \in Input : Cycle(c)

Spec == Init /\ [][Next]_vars

-----------------------------------------------------------------------------
(* Every operand taken into EX, and every register-indirect jump target,   *)
(* is the value of program order, whether it comes from the ALU port, the  *)
(* write-back port or the register file: load_stall, jr_stall and          *)
(* apu_stall leave no use of a result that is not there yet and the        *)
(* forwarding selects never pick an older value of the register.           *)
OperandsRight == operand_ok

(* The LSU leaves a load or store exactly when EX does, so that one        *)
(* instruction is never issued to memory twice nor dropped: a write-port   *)
(* contention with the FPU, the one stall of EX the LSU does not see,      *)
(* never meets a load or store.                                            *)
LockStep == lockstep_ok

Idle ==
  /\ ex = Bubble /\ ~regfile_we_lsu
  /\ ~active /\ fpu = <<>> /\ ~apu_rvalid_q

(* Once the pipeline is empty every register holds the result of its last  *)
(* writer in program order: two write ports, a result memory and three FPU *)
(* latencies reorder write-backs, but no older result lands last and none  *)
(* is lost.                                                                *)
RegistersSettle == Idle => \A r \in Reg : rf_ok[r]

(* A CSR instruction is executed after every FPU operation before it has   *)
(* returned, so that fflags are those of program order.                    *)
FlagsComplete == ex.op = "csr" => fpu = <<>> /\ ~apu_rvalid_q

(* The stalls of ID, EX and the two write ports never wait for each other: *)
(* while memory, divider and FPU answer at once, ID is ready again within  *)
(* MaxStall cycles.  The longest wait is that of a jump on an FPU result   *)
(* held back behind a mulh.                                                *)
StallsEnd == waited <= MaxStall
=============================================================================
