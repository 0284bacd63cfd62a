----------------------------- MODULE Controller -----------------------------
(***************************************************************************)
(* The main controller of CV32E40P (rtl/cv32e40p_controller.sv) with the   *)
(* pipeline registers it steers (IF/ID of cv32e40p_if_stage.sv, ID/EX of   *)
(* cv32e40p_id_stage.sv), the trap and debug CSRs it saves to and restores *)
(* from (cv32e40p_cs_registers.sv, PULP_SECURE = 0) and the registered     *)
(* interrupt lines (cv32e40p_int_controller.sv).  COREV_PULP = 0: there    *)
(* are no hardware loops.                                                  *)
(*                                                                         *)
(* One step is one clock edge, c its inputs.  Each state of the            *)
(* controller's state machine is an action, and so is each of the cases of *)
(* DECODE.  An action names the outputs that differ from their defaults;   *)
(* Edge does what the rest of the pipeline does with them.                 *)
(*                                                                         *)
(* Data paths are left out: an instruction is its class and the one value  *)
(* the controller's work depends on.  Why ID or EX stall is left to the    *)
(* inputs.                                                                 *)
(***************************************************************************)
EXTENDS IsaDefs

CONSTANTS Fetchable,       \* the instructions that may be found at each address
          DebugReqs, Irqs, \* values debug_req_i and an enabled interrupt line take
          Clusters         \* values COREV_CLUSTER may have

ASSUME ControllerAssumption ==
  /\ Fetchable \in [PC -> SUBSET InstrType]
  /\ DebugReqs \subseteq BOOLEAN /\ Irqs \subseteq BOOLEAN
  /\ Clusters \subseteq BOOLEAN

NotTaken == NPC            \* a branch that falls through
NoPC     == NPC + 1        \* pc_set_o = 0

Bubble == [op |-> "bubble", arg |-> 0]

VARIABLES
  COREV_CLUSTER,             \* parameter of the build, never changes: cv.elw exists
                             \* and wfi does not sleep
  ctrl_fsm_cs, jump_done_q, illegal_insn_q,
  debug_mode_q, debug_req_q, debug_req_entry_q, debug_force_wakeup_q,
  debug_fsm_cs,
  pc_if,                            \* address of the next instruction to fetch
  instr_valid_id, pc_id, instr_id,  \* IF/ID
  ex,                               \* ID/EX: a CSR write, a branch or an event load
  effects,                          \* parity of ordinary instructions sent to EX
  mstatus_q, mepc_q, mie_q, dcsr_q, depc_q, tmatch_control_exec_q,
  irq_q

ctrlVars == <<ctrl_fsm_cs, jump_done_q, illegal_insn_q, debug_mode_q,
              debug_req_entry_q, debug_force_wakeup_q, debug_fsm_cs>>
pipeVars == <<pc_if, instr_valid_id, pc_id, instr_id, ex, effects>>
csrVars  == <<mstatus_q, mepc_q, mie_q, dcsr_q, depc_q, tmatch_control_exec_q>>
clocked  == <<ctrlVars, pipeVars, csrVars, irq_q>>     \* on the gated clock
vars     == <<COREV_CLUSTER, clocked, debug_req_q>>

CtrlStates == {"RESET", "BOOT_SET", "WAIT_SLEEP", "SLEEP", "FIRST_FETCH", "DECODE",
               "FLUSH_EX", "FLUSH_WB", "XRET_JUMP", "IRQ_FLUSH_ELW", "ELW_EXE",
               "DBG_TAKEN_ID", "DBG_TAKEN_IF", "DBG_FLUSH", "DBG_WAIT_BRANCH"}

TypeOK ==
  /\ COREV_CLUSTER \in Clusters
  /\ ctrl_fsm_cs \in CtrlStates
  /\ debug_fsm_cs \in {"HAVERESET", "RUNNING", "HALTED"}
  /\ {jump_done_q, illegal_insn_q, debug_mode_q, debug_req_q, debug_req_entry_q,
      debug_force_wakeup_q, instr_valid_id, effects, mie_q,
      tmatch_control_exec_q, irq_q} \subseteq BOOLEAN
  /\ {pc_if, pc_id, mepc_q, depc_q} \subseteq PC
  /\ instr_id \in InstrType \cup {Bubble}
  /\ ex \in InstrType \cup {Bubble, [op |-> "branch", arg |-> NotTaken]}
  /\ mstatus_q \in MStatus /\ dcsr_q \in DCsr

Init ==
  /\ COREV_CLUSTER \in Clusters
  /\ ctrl_fsm_cs = "RESET" /\ debug_fsm_cs = "HAVERESET"
  /\ jump_done_q = FALSE /\ illegal_insn_q = FALSE /\ debug_mode_q = FALSE /\ debug_req_q = FALSE
  /\ debug_req_entry_q = FALSE /\ debug_force_wakeup_q = FALSE
  /\ pc_if = 0 /\ instr_valid_id = FALSE /\ pc_id = 0 /\ instr_id = Bubble
  /\ ex = Bubble /\ effects = FALSE
  /\ mstatus_q = ResetMStatus /\ mepc_q = 0 /\ mie_q = FALSE
  /\ dcsr_q = ResetDCsr /\ depc_q = 0 /\ tmatch_control_exec_q = FALSE /\ irq_q = FALSE

-----------------------------------------------------------------------------
(* Inputs of a cycle *)

Op == instr_id.op          \* the decoder's outputs outlive instr_valid_id

Stall ==                   \* who keeps ID from handing over its instruction
  IF ex = Bubble THEN {"no", "ex"}
  ELSE IF ex.op = "branch" THEN {"no", "id"}     \* ex_ready is forced
  ELSE {"no", "ex", "id"}

Input ==
  [debug_req    : DebugReqs,
   irq          : Irqs,                      \* irq_i & IRQ_MASK
   fetch_enable : IF ctrl_fsm_cs = "RESET" THEN BOOLEAN ELSE {TRUE},
   fetch        : BOOLEAN,                   \* an aligned instruction is there
   stall        : Stall,
   jr_stall     : IF Op = "jump" THEN BOOLEAN ELSE {FALSE},
   ex_valid     : IF ctrl_fsm_cs = "FLUSH_EX" THEN BOOLEAN ELSE {FALSE}]

ExReady(c) == c.stall # "ex"
IdReady(c) == c.stall = "no" /\ ~c.jr_stall
BranchTaken == ex.op = "branch" /\ ex.arg # NotTaken

debug_req_pending(c) == c.debug_req \/ debug_req_q
trigger_match == tmatch_control_exec_q /\ pc_id = TriggerPC
ebrk_force    == dcsr_q.ebreakm
single_step   == dcsr_q.step
illegal_insn  == \/ Op = "illegal"
                 \/ Op \in DebugOnly /\ ~debug_mode_q
                 \/ Op = "elw" /\ ~COREV_CLUSTER
csr_statusNarrow == Op \in {"csr_mepc", "csr_dcsr", "csr_dpc"}   \* mutant: mstatus forgotten

csr_status    == Op \in {"csr_mstatus", "csr_mepc", "csr_dcsr", "csr_dpc"}
wfi_active(c) == Op = "wfi" /\ ~(debug_mode_q \/ debug_req_pending(c) \/ single_step
                                 \/ trigger_match \/ COREV_CLUSTER)

mie_bypass == IF ex.op = "csr_mie" THEN Bit(ex.arg, 0) ELSE mie_q
irq_req    == irq_q /\ mie_bypass /\ mstatus_q.mie /\ ~(dcsr_q.step /\ ~dcsr_q.stepie)
irq_wu(c)  == c.irq /\ mie_bypass
wake_from_sleep(c) == irq_wu(c) \/ debug_req_pending(c) \/ debug_mode_q

-----------------------------------------------------------------------------
(* Outputs of the controller, at their default values *)

Default ==
  [ns |-> ctrl_fsm_cs, set |-> NoPC, halt_if |-> FALSE, halt_id |-> FALSE,
   decoding |-> FALSE, jump_done |-> jump_done_q, illegal |-> illegal_insn_q,
   debug_mode |-> debug_mode_q, entry |-> debug_req_entry_q,
   wakeup |-> debug_force_wakeup_q,
   save |-> "no", epc |-> 0, cause |-> "ebreak", restore |-> FALSE]

(* ID/EX: what of the instruction is left to be done in EX *)
ExOf(i) == IF i.op \in {"csr_mstatus", "csr_mepc", "csr_mie", "csr_dcsr", "csr_dpc",
                        "csr_tdata1", "branch", "elw"}
           THEN i ELSE Bubble

FetchEdge(c, o) ==
  LET if_valid == ~o.halt_if /\ c.fetch /\ o.set = NoPC /\ IdReady(c) IN
  /\ pc_if' = IF o.set # NoPC THEN o.set ELSE IF if_valid THEN NextPC(pc_if) ELSE pc_if
  /\ \/ /\ if_valid
        /\ instr_valid_id' = TRUE /\ pc_id' = pc_if /\ instr_id' \in Fetchable[pc_if]
     \/ /\ ~if_valid
        /\ instr_valid_id' = (instr_valid_id /\ ~(IdReady(c) \/ o.halt_id \/ BranchTaken))
        /\ UNCHANGED <<pc_id, instr_id>>

IssueEdge(c, o) ==
  LET id_valid == ~o.halt_id /\ IdReady(c)
      we       == o.decoding /\ ~illegal_insn           \* ~deassert_we
  IN
  /\ effects' = IF id_valid /\ we /\ Op = "alu" THEN ~effects ELSE effects
  /\ \/ id_valid /\ we /\ Op # "branch" /\ ex' = ExOf(instr_id)
     \/ /\ id_valid /\ we /\ Op = "branch"
        /\ ex' \in {instr_id, [instr_id EXCEPT !.arg = NotTaken]}
     \/ id_valid /\ ~we /\ ex' = Bubble
     \/ ~id_valid /\ ex' = IF ExReady(c) THEN Bubble ELSE ex

DcsrWritten(o) ==
  LET written == IF ex.op = "csr_dcsr" THEN DCsrOf(ex.arg, dcsr_q.cause) ELSE dcsr_q IN
  IF o.save = "debug" THEN [written EXCEPT !.cause = o.cause] ELSE written

(* A CSR instruction writes in every cycle it is in EX; saves and restores *)
(* have priority over it.                                                  *)
CsrEdge(o) ==
  /\ mstatus_q' = IF o.save = "trap" THEN [mie |-> FALSE, mpie |-> mstatus_q.mie]
                  ELSE IF o.restore THEN [mie |-> mstatus_q.mpie, mpie |-> TRUE]
                  ELSE IF ex.op = "csr_mstatus" THEN MStatusOf(ex.arg) ELSE mstatus_q
  /\ mepc_q' = IF o.save = "trap" THEN o.epc
               ELSE IF ex.op = "csr_mepc" THEN ex.arg ELSE mepc_q
  /\ depc_q' = IF o.save = "debug" THEN o.epc
               ELSE IF ex.op = "csr_dpc" THEN ex.arg ELSE depc_q
  /\ dcsr_q' = DcsrWritten(o)
  /\ mie_q' = mie_bypass
  /\ tmatch_control_exec_q' = IF ex.op = "csr_tdata1" /\ debug_mode_q
                              THEN Bit(ex.arg, 0) ELSE tmatch_control_exec_q

DebugFsmEdgeStuck(o) ==    \* mutant: HALTED is never left
  debug_fsm_cs' = IF o.debug_mode THEN "HALTED"
                  ELSE IF o.ns = "FIRST_FETCH" THEN "RUNNING" ELSE debug_fsm_cs

DebugFsmEdge(o) ==
  debug_fsm_cs' = CASE debug_fsm_cs = "HAVERESET" ->
                         IF o.debug_mode THEN "HALTED"
                         ELSE IF o.ns = "FIRST_FETCH" THEN "RUNNING" ELSE "HAVERESET"
                    [] debug_fsm_cs = "RUNNING" -> IF o.debug_mode THEN "HALTED" ELSE "RUNNING"
                    [] debug_fsm_cs = "HALTED"  -> IF o.debug_mode THEN "HALTED" ELSE "RUNNING"

Edge(c, o) ==
  /\ ctrl_fsm_cs' = o.ns
  /\ jump_done_q' = (o.jump_done /\ ~IdReady(c))
  /\ illegal_insn_q' = o.illegal
  /\ debug_mode_q' = o.debug_mode
  /\ debug_req_entry_q' = o.entry
  /\ debug_force_wakeup_q' = o.wakeup
  /\ irq_q' = c.irq
  /\ DebugFsmEdge(o) /\ FetchEdge(c, o) /\ IssueEdge(c, o) /\ CsrEdge(o)

(* The debug request latch is on the free-running clock. *)
DebugReqEdge(c) ==
  debug_req_q' = (c.debug_req \/ (debug_req_q /\ ~debug_mode_q))

-----------------------------------------------------------------------------
(* The states of ctrl_fsm_cs *)

Reset(c) ==
  /\ ctrl_fsm_cs = "RESET"
  /\ Edge([c EXCEPT !.fetch = FALSE],
          [Default EXCEPT !.ns = IF c.fetch_enable THEN "BOOT_SET" ELSE "RESET"])

BootSetDeaf(c) ==    \* mutant: the request is left to be found in DECODE
  /\ ctrl_fsm_cs = "BOOT_SET"
  /\ Edge(c, [Default EXCEPT !.set = BootPC, !.ns = "FIRST_FETCH"])

BootSet(c) ==
  /\ ctrl_fsm_cs = "BOOT_SET"
  /\ Edge(c, [Default EXCEPT !.set = BootPC,
              !.ns = IF debug_req_pending(c) THEN "DBG_TAKEN_IF" ELSE "FIRST_FETCH",
              !.wakeup = debug_req_pending(c) \/ debug_force_wakeup_q])

WaitSleep(c) ==
  /\ ctrl_fsm_cs = "WAIT_SLEEP"
  /\ Edge(c, [Default EXCEPT !.ns = "SLEEP", !.halt_if = TRUE, !.halt_id = TRUE])

Sleep(c) ==
  /\ ctrl_fsm_cs = "SLEEP"
  /\ LET o == [Default EXCEPT !.halt_if = TRUE, !.halt_id = TRUE] IN
     \/ /\ ~wake_from_sleep(c)
        /\ Edge(c, o)
     \/ /\ wake_from_sleep(c) /\ debug_req_pending(c)
        /\ Edge(c, [o EXCEPT !.ns = "DBG_TAKEN_IF", !.wakeup = TRUE])
     \/ /\ wake_from_sleep(c) /\ ~debug_req_pending(c)
        /\ Edge(c, [o EXCEPT !.ns = "FIRST_FETCH"])

(* Taking an interrupt; epc is the instruction to return to. *)
Interrupted(epc) ==
  [Default EXCEPT !.ns = "DECODE", !.set = IrqPC, !.halt_if = TRUE, !.halt_id = TRUE,
                  !.save = "trap", !.epc = epc]

FirstFetch(c) ==
  /\ ctrl_fsm_cs = "FIRST_FETCH"
  /\ Edge(c, IF irq_req /\ ~(debug_req_pending(c) \/ debug_mode_q)
             THEN Interrupted(pc_if)
             ELSE [Default EXCEPT !.ns = "DECODE"])

DecodeBranchTakenDecoding(c) ==    \* mutant: ID is not told
  /\ ctrl_fsm_cs = "DECODE" /\ BranchTaken
  /\ Edge(c, [Default EXCEPT !.set = ex.arg, !.decoding = TRUE])

DecodeBranchTaken(c) ==
  /\ ctrl_fsm_cs = "DECODE" /\ BranchTaken
  /\ Edge(c, [Default EXCEPT !.set = ex.arg])

DecodeEmpty(c) ==
  /\ ctrl_fsm_cs = "DECODE" /\ ~BranchTaken /\ ~instr_valid_id
  /\ Edge(c, Default)

DecodeDebug(c) ==
  /\ ctrl_fsm_cs = "DECODE" /\ ~BranchTaken /\ instr_valid_id
  /\ (debug_req_pending(c) \/ trigger_match) /\ ~debug_mode_q
  /\ Edge(c, [Default EXCEPT !.ns = "DBG_FLUSH", !.halt_if = TRUE, !.halt_id = TRUE,
              !.decoding = TRUE, !.illegal = FALSE, !.entry = TRUE])

DecodeIrq(c) ==
  /\ ctrl_fsm_cs = "DECODE" /\ ~BranchTaken /\ instr_valid_id
  /\ ~(debug_req_pending(c) \/ trigger_match) /\ irq_req /\ ~debug_mode_q
  /\ Edge(c, [Interrupted(pc_id) EXCEPT !.illegal = FALSE])

(* What an instruction in ID asks for when nothing comes before it. *)
Decoding == [Default EXCEPT !.decoding = TRUE, !.illegal = FALSE]

(* The instruction leaves ID alone, with nothing fetched behind it. *)
Flushed(c, ns) ==
  [Decoding EXCEPT !.halt_if = TRUE, !.ns = IF IdReady(c) THEN ns ELSE "DECODE"]

DecodeOut(c) ==
  IF illegal_insn THEN [Flushed(c, "FLUSH_EX") EXCEPT !.illegal = TRUE]
  ELSE IF Op = "jump"
  THEN IF ~c.jr_stall /\ ~jump_done_q
       THEN [Decoding EXCEPT !.set = instr_id.arg, !.jump_done = TRUE]
       ELSE Decoding
  ELSE IF Op = "ebreak" /\ (debug_mode_q \/ ebrk_force)
  THEN [Decoding EXCEPT !.halt_if = TRUE, !.ns = "DBG_FLUSH"]
  ELSE IF wfi_active(c) \/ csr_status \/ Op \in {"ebreak", "ecall", "fencei", "mret", "dret"}
  THEN Flushed(c, "FLUSH_EX")
  ELSE IF Op = "elw" THEN Flushed(c, "ELW_EXE")
  ELSE Decoding

SingleStepOutNoMret(c, o) ==    \* mutant: mret is an ordinary instruction
  [o EXCEPT !.halt_if = TRUE,
     !.ns = IF ~IdReady(c) THEN o.ns
            ELSE IF illegal_insn \/ Op = "ecall" \/ (Op = "ebreak" /\ ~ebrk_force)
            THEN "FLUSH_EX"
            ELSE IF Op = "branch" THEN "DBG_WAIT_BRANCH" ELSE "DBG_FLUSH"]

(* Single stepping: the instruction in ID is the last one. *)
SingleStepOut(c, o) ==
  [o EXCEPT !.halt_if = TRUE,
     !.ns = IF ~IdReady(c) THEN o.ns
            ELSE IF illegal_insn \/ Op \in {"ecall", "mret"} \/ (Op = "ebreak" /\ ~ebrk_force)
            THEN "FLUSH_EX"
            ELSE IF Op = "branch" THEN "DBG_WAIT_BRANCH" ELSE "DBG_FLUSH"]

DecodeInstr(c) ==
  /\ ctrl_fsm_cs = "DECODE" /\ ~BranchTaken /\ instr_valid_id
  /\ debug_mode_q \/ ~(debug_req_pending(c) \/ trigger_match \/ irq_req)
  /\ Edge(c, IF single_step /\ ~debug_mode_q THEN SingleStepOut(c, DecodeOut(c))
             ELSE DecodeOut(c))

Halted == [Default EXCEPT !.halt_if = TRUE, !.halt_id = TRUE]

FlushEx(c) ==
  /\ ctrl_fsm_cs = "FLUSH_EX"
  /\ c.ex_valid => ExReady(c)
  /\ Edge(c, IF ~c.ex_valid THEN Halted
             ELSE LET o == [Halted EXCEPT !.ns = "FLUSH_WB"] IN
                  IF illegal_insn_q \/ Op = "ecall"
                  THEN [o EXCEPT !.save = IF debug_mode_q THEN "no" ELSE "trap", !.epc = pc_id]
                  ELSE IF Op = "ebreak" THEN [o EXCEPT !.save = "trap", !.epc = pc_id]
                  ELSE o)

FlushWb(c) ==
  LET ToHandler == [Halted EXCEPT
        !.set = IF debug_mode_q /\ (illegal_insn_q \/ Op = "ecall") THEN DbgExcPC ELSE ExcPC,
        !.ns  = IF single_step /\ ~debug_mode_q THEN "DBG_TAKEN_IF" ELSE "DECODE",
        !.illegal = FALSE]
  IN
  /\ ctrl_fsm_cs = "FLUSH_WB"
  /\ Edge(c,
       IF illegal_insn_q \/ Op \in {"ebreak", "ecall"} THEN ToHandler
       ELSE CASE Op = "mret" -> [Halted EXCEPT !.ns = "XRET_JUMP", !.restore = ~debug_mode_q]
              [] Op = "dret" -> [Halted EXCEPT !.ns = "XRET_JUMP"]
              [] Op = "wfi"  -> IF debug_req_pending(c)
                                THEN [Halted EXCEPT !.ns = "DBG_TAKEN_IF", !.wakeup = TRUE]
                                ELSE [Halted EXCEPT !.ns = "WAIT_SLEEP"]
              [] Op = "fencei" -> [Halted EXCEPT !.ns = "DECODE", !.set = NextPC(pc_id)]
              [] OTHER -> [Halted EXCEPT !.ns = "DECODE"])

XretJump(c) ==
  LET o == [Default EXCEPT !.ns = IF single_step /\ ~debug_mode_q THEN "DBG_TAKEN_IF"
                                  ELSE "DECODE"]
  IN
  /\ ctrl_fsm_cs = "XRET_JUMP"
  /\ \/ Op = "mret" /\ Edge(c, [o EXCEPT !.set = IF debug_mode_q THEN DbgExcPC ELSE mepc_q])
     \/ Op = "dret" /\ Edge(c, [o EXCEPT !.set = depc_q, !.debug_mode = FALSE])

DbgWaitBranch(c) ==
  /\ ctrl_fsm_cs = "DBG_WAIT_BRANCH"
  /\ Edge(c, [Default EXCEPT !.ns = "DBG_FLUSH", !.halt_if = TRUE,
                             !.set = IF BranchTaken THEN ex.arg ELSE NoPC])

DbgFlush(c) ==
  /\ ctrl_fsm_cs = "DBG_FLUSH"
  /\ Edge(c, [Halted EXCEPT
       !.ns = IF \/ debug_mode_q \/ trigger_match \/ (ebrk_force /\ Op = "ebreak")
                 \/ Op = "elw" \/ debug_req_entry_q
              THEN "DBG_TAKEN_ID" ELSE "DBG_TAKEN_IF"])

DbgTakenId(c) ==
  /\ ctrl_fsm_cs = "DBG_TAKEN_ID"
  /\ Edge(c, [Default EXCEPT
       !.ns = "DECODE", !.set = DbgPC, !.entry = FALSE, !.debug_mode = TRUE,
       !.save = IF debug_mode_q THEN "no" ELSE "debug", !.epc = pc_id,
       !.cause = IF trigger_match THEN "trigger"
                 ELSE IF ebrk_force /\ (Op = "ebreak") THEN "ebreak"
                 ELSE IF debug_req_entry_q THEN "haltreq" ELSE "ebreak"])

DbgTakenIf(c) ==
  /\ ctrl_fsm_cs = "DBG_TAKEN_IF"
  /\ Edge(c, [Default EXCEPT
       !.ns = "DECODE", !.set = DbgPC, !.wakeup = FALSE, !.debug_mode = TRUE,
       !.save = "debug", !.epc = pc_if,
       !.cause = IF debug_force_wakeup_q THEN "haltreq"
                 ELSE IF single_step THEN "step" ELSE "ebreak"])

ElwExeDeaf(c) ==    \* mutant: an interrupt does not end the wait
  /\ COREV_CLUSTER /\ ctrl_fsm_cs = "ELW_EXE"
  /\ Edge(c, [Halted EXCEPT !.ns = IF ~IdReady(c) \/ irq_req THEN "ELW_EXE" ELSE "IRQ_FLUSH_ELW"])

(* cv.elw is in EX; the core may sleep on it. *)
ElwExe(c) ==
  /\ COREV_CLUSTER /\ ctrl_fsm_cs = "ELW_EXE"
  /\ Edge(c, [Halted EXCEPT
       !.ns = IF ~IdReady(c) THEN "ELW_EXE"
              ELSE IF (debug_req_pending(c) \/ trigger_match) /\ ~debug_mode_q
              THEN "DBG_FLUSH" ELSE "IRQ_FLUSH_ELW"])

IrqFlushElwAfter(c) ==    \* mutant: returns to the instruction after cv.elw
  /\ COREV_CLUSTER /\ ctrl_fsm_cs = "IRQ_FLUSH_ELW"
  /\ Edge(c, IF irq_req /\ ~(debug_req_pending(c) \/ debug_mode_q)
             THEN Interrupted(pc_if)
             ELSE [Halted EXCEPT !.ns = "DECODE"])

IrqFlushElw(c) ==
  /\ COREV_CLUSTER /\ ctrl_fsm_cs = "IRQ_FLUSH_ELW"
  /\ Edge(c, IF irq_req /\ ~(debug_req_pending(c) \/ debug_mode_q)
             THEN Interrupted(pc_id)
             ELSE [Halted EXCEPT !.ns = "DECODE"])

Cycle(c) ==
  \/ Reset(c) \/ BootSet(c) \/ WaitSleep(c) \/ Sleep(c) \/ FirstFetch(c)
  \/ DecodeBranchTaken(c) \/ DecodeEmpty(c) \/ DecodeDebug(c) \/ DecodeIrq(c)
  \/ DecodeInstr(c)
  \/ FlushEx(c) \/ FlushWb(c) \/ XretJump(c)
  \/ DbgWaitBranch(c) \/ DbgFlush(c) \/ DbgTakenId(c) \/ DbgTakenIf(c)
  \/ ElwExe(c) \/ IrqFlushElw(c)

Next ==
  /\ \E c \in Input : Cycle(c) /\ DebugReqEdge(c)
  /\ UNCHANGED COREV_CLUSTER

Spec == Init /\ [][Next]_vars

(* Memory answers and operations finish: again and again there is a cycle  *)
(* in which nothing stalls.  Nobody owes the core a change of its          *)
(* interrupt lines.                                                        *)
Prompt(c) == /\ c.fetch /\ c.stall = "no" /\ ~c.jr_stall
             /\ ctrl_fsm_cs = "FLUSH_EX" => c.ex_valid

FairSpec ==
  Spec /\ WF_vars(\E c \in Input : /\ c.irq = irq_q /\ c.fetch_enable /\ Prompt(c)
                                   /\ Cycle(c) /\ DebugReqEdge(c)
                                   /\ UNCHANGED COREV_CLUSTER)

-----------------------------------------------------------------------------
(* The machine the software sees.  An instruction has executed when it     *)
(* enters EX, a trap or an mret when the controller leaves FLUSH_WB, a     *)
(* dret when it leaves XRET_JUMP.                                          *)

Trapping == illegal_insn_q \/ Op \in {"ecall", "ebreak"}

(* Debug Mode will be entered before the instruction in ID, not after it. *)
BeforeID == \/ ctrl_fsm_cs = "DBG_TAKEN_ID"
            \/ /\ ctrl_fsm_cs = "DBG_FLUSH"
               /\ \/ debug_mode_q \/ trigger_match \/ debug_req_entry_q
                  \/ (ebrk_force /\ Op = "ebreak") \/ Op = "elw"

(* The instruction to execute next *)
pc ==
  IF ctrl_fsm_cs \in {"RESET", "BOOT_SET"} THEN BootPC
  ELSE IF \/ BeforeID
          \/ ctrl_fsm_cs = "FLUSH_EX" /\ (Trapping \/ Op \in {"mret", "dret"})
          \/ ctrl_fsm_cs = "FLUSH_WB" /\ ~Trapping /\ Op \in {"mret", "dret"}
          \/ ctrl_fsm_cs = "XRET_JUMP" /\ Op = "dret"
          \/ ctrl_fsm_cs \in {"ELW_EXE", "IRQ_FLUSH_ELW"}
  THEN pc_id
  ELSE IF ctrl_fsm_cs = "FLUSH_WB" /\ Trapping THEN IF debug_mode_q THEN DbgExcPC ELSE ExcPC
  ELSE IF ctrl_fsm_cs = "XRET_JUMP" THEN IF debug_mode_q THEN DbgExcPC ELSE mepc_q
  ELSE IF BranchTaken THEN ex.arg ELSE IF instr_valid_id THEN pc_id ELSE pc_if

stepped ==
  /\ single_step /\ ~debug_mode_q
  /\ \/ ctrl_fsm_cs = "DBG_WAIT_BRANCH"
     \/ ctrl_fsm_cs = "DBG_TAKEN_IF" /\ ~debug_force_wakeup_q
     \/ ctrl_fsm_cs = "DBG_FLUSH" /\ ~BeforeID
     \/ ctrl_fsm_cs = "FLUSH_WB" /\ Trapping
     \/ ctrl_fsm_cs = "XRET_JUMP" /\ Op = "mret"

(* A CSR instruction in EX has executed. *)
mstatus == IF ex.op = "csr_mstatus" THEN MStatusOf(ex.arg) ELSE mstatus_q
mepc    == IF ex.op = "csr_mepc" THEN ex.arg ELSE mepc_q
mie     == mie_bypass
dcsr    == IF ex.op = "csr_dcsr" THEN DCsrOf(ex.arg, dcsr_q.cause) ELSE dcsr_q
dpc     == IF ex.op = "csr_dpc" THEN ex.arg ELSE depc_q
tdata1  == IF ex.op = "csr_tdata1" /\ debug_mode_q THEN Bit(ex.arg, 0)
           ELSE tmatch_control_exec_q
debug   == debug_mode_q
dreq    == debug_req_q
irq     == irq_q

Machine == INSTANCE Isa

-----------------------------------------------------------------------------
(* Properties *)

(* The pipeline behaves as the machine of Isa.tla: every instruction takes *)
(* effect once and in order, mepc and dpc hold the instruction to resume   *)
(* at, a single step is one instruction, a debug request or an enabled     *)
(* interrupt is served before the next instruction.                        *)
ImplementsIsa == Machine!Machine

(* A trap or a return never meets a write to the registers it saves to or  *)
(* returns through (a_irq_csr and a_xret_csr in id_stage.sv): the CSR      *)
(* instruction has always been flushed before.                             *)
NoCsrWriteInFlight ==
  \/ ctrl_fsm_cs \in {"FLUSH_WB", "XRET_JUMP"}
  \/ irq_req /\ ~debug_mode_q /\ instr_valid_id /\ ctrl_fsm_cs = "DECODE"
  => ex.op \notin {"csr_mstatus", "csr_mepc", "csr_dcsr", "csr_dpc"}

(* The status pins tell the debug module the truth: halted exactly in      *)
(* Debug Mode (a_debug_halted_equals_debug_mode), reset only before the    *)
(* first instruction.                                                      *)
DebugStatus ==
  /\ debug_fsm_cs = "HALTED" <=> debug_mode_q
  /\ debug_fsm_cs = "HAVERESET" => ~instr_valid_id /\ ~mstatus_q.mie

(* docs/source/debug.rst:151: a debug request made before the core runs    *)
(* takes it from reset straight to halted.                                 *)
HaltFromReset ==
  [][debug_fsm_cs = "HAVERESET" /\ debug_req_q => debug_fsm_cs' # "RUNNING"]_vars

(* Behind a taken branch EX gets a bubble, so two taken branches are never *)
(* back to back (assertion at controller.sv:1554, a_branch_taken_ex).      *)
TakenBranchFlushed ==
  [][BranchTaken => ex' = Bubble /\ effects' = effects]_vars

(* An enabled interrupt is taken, unless it goes away or Debug Mode, which *)
(* masks it, is entered.                                                   *)
IrqServed == irq_req ~> ~irq_req \/ debug_mode_q

(* docs/source/debug.rst:115: outside Debug Mode writes to trigger         *)
(* registers are ignored.  So none may be on its way in EX when Debug Mode *)
(* is entered.                                                             *)
TriggerWritesIgnored ==
  [][ex.op = "csr_tdata1" /\ ~debug_mode_q /\ debug_mode_q' => ex' = Bubble]_vars
=============================================================================
