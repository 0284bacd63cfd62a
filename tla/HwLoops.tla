------------------------------- MODULE HwLoops -------------------------------
(***************************************************************************)
(* The hardware loops of CV32E40P (COREV_PULP = 1): the loop registers     *)
(* (rtl/cv32e40p_hwloop_regs.sv) and the states DECODE and DECODE_HWLOOP   *)
(* of the controller, which decide while an instruction is in ID whether   *)
(* the fetch has to go back to a loop start.  One step is one clock cycle. *)
(*                                                                         *)
(* The programs are those of example_tb/core/hwlp_test: an address is the  *)
(* position of an instruction in the program.  Interrupts and stalls come  *)
(* in any cycle; a handler is one state, as it leaves the loops alone.     *)
(***************************************************************************)
EXTENDS Integers, Sequences, FiniteSets

CONSTANTS Programs,       \* the programs: sequences of instructions
          COUNTER_BITS,   \* width of a loop counter: 32
          MaxIrqs         \* bound: interrupts during a program

Loops == {0, 1}        \* 0 is the inner loop

None == -1

(* The next n instructions are the body: the assembler counts from there. *)
setup(l, count, n) == [op |-> "setup", loop |-> l, arg |-> count, len |-> n]
starti(l, n)       == [op |-> "starti", loop |-> l, arg |-> n, len |-> 0]
endi(l, n)         == [op |-> "endi", loop |-> l, arg |-> n, len |-> 0]
counti(l, count)   == [op |-> "counti", loop |-> l, arg |-> count, len |-> 0]
other(op)          == [op |-> op, loop |-> 0, arg |-> 0, len |-> 0]

plain   == other("plain")       \* arithmetic, loads and stores
csr     == other("csr")         \* an access that flushes the pipeline
illegal == other("illegal")     \* dret outside Debug Mode
ecall   == other("ecall")       \* ebreak is treated alike
fencei  == other("fencei")

Regs == [start : Nat, end : Nat, count : Nat]

NoRegs == [start |-> 0, end |-> 0, count |-> 0]

Instr == [op : {"setup", "starti", "endi", "counti", "plain",
                "csr", "illegal", "ecall", "fencei"},
          loop : Loops, arg : Nat, len : Nat]

ASSUME HwLoopsAssumption ==
  /\ COUNTER_BITS \in Nat /\ 2^COUNTER_BITS \in Nat \ {0} /\ MaxIrqs \in Nat
  /\ \A p \in Programs :
       /\ p \in Seq(Instr)
       /\ \A k \in DOMAIN p : p[k].op \in {"setup", "counti"} => p[k].arg < 2^COUNTER_BITS

VARIABLES
  prog,                        \* the program; never changes
  ctrl_fsm_cs,                 \* "HANDLER": somewhere in a handler
  pc_id, instr_valid,          \* IF/ID register
  pc_if, hwlp_addr_q,          \* aligner: next address, where to go after it (or None)
  hwloop,                      \* the loop registers
  jump_done_q, hwlp_end_4_id_q, illegal_insn_q,
  mepc,
  irqs,                        \* interrupts taken
  ref                          \* history: program order, [pc, hwloop]

vars == <<prog, ctrl_fsm_cs, pc_id, instr_valid, pc_if, hwlp_addr_q, hwloop,
          jump_done_q, hwlp_end_4_id_q, illegal_insn_q, mepc, irqs, ref>>

Op == prog[pc_id].op

(* In this cycle: an interrupt is pending, ID can go on, IF has an         *)
(* instruction, EX is done.                                                *)
Input == [irq : BOOLEAN, id_ready : BOOLEAN, fetch : BOOLEAN, ex_valid : BOOLEAN]

-----------------------------------------------------------------------------
(* Program order.                                                          *)

(* What a loop instruction at pc writes to its registers. *)
Written(i, pc, r) ==
  CASE i.op = "setup"  -> [start |-> pc + 1, end |-> pc + 1 + i.len, count |-> i.arg]
    [] i.op = "starti" -> [r EXCEPT !.start = pc + i.arg]
    [] i.op = "endi"   -> [r EXCEPT !.end = pc + i.arg]
    [] i.op = "counti" -> [r EXCEPT !.count = i.arg]

WritesLoop(i) == i.op \in {"setup", "starti", "endi", "counti"}

IsLast(m, l) == m.hwloop[l].end = m.pc + 1 /\ m.hwloop[l].count > 0

(* The machine of the manual, executing program p: after the last          *)
(* instruction of a body whose count is not used up, the next one is its   *)
(* first.  A trap skips the instruction: its handler adds 4 to mepc.       *)
Step(p, m) ==
  LET i     == p[m.pc]
      again == {l \in Loops : IsLast(m, l) /\ m.hwloop[l].count > 1}
  IN  IF m.pc > Len(p) THEN m
      ELSE IF i.op \in {"illegal", "ecall"} THEN [m EXCEPT !.pc = @ + 1]
      ELSE [pc |-> IF again = {} THEN m.pc + 1
                   ELSE m.hwloop[CHOOSE l \in again : TRUE].start,
            hwloop |-> [l \in Loops |->
              IF WritesLoop(i) /\ i.loop = l THEN Written(i, m.pc, m.hwloop[l])
              ELSE IF IsLast(m, l) THEN [m.hwloop[l] EXCEPT !.count = @ - 1]
              ELSE m.hwloop[l]]]

Start == [pc |-> 1, hwloop |-> [l \in Loops |-> NoRegs]]

(* The rules of docs/source/corev_hw_loop.rst for programs, in a state m   *)
(* of that machine.                                                        *)
InBody(m, l)  == m.hwloop[l].start <= m.pc /\ m.pc < m.hwloop[l].end
Enabled(m, l) == m.hwloop[l].count > 0

(* At least 3 instructions in a body that is still to be executed.         *)
SizeRule(m) ==
  \A l \in Loops : Enabled(m, l) /\ m.pc < m.hwloop[l].end =>
    m.hwloop[l].end >= m.hwloop[l].start + 3

(* Two loops end at least two instructions apart, ...                      *)
EndsRule(m) ==
  \A l \in Loops : Enabled(m, l) /\ InBody(m, l) =>
    m.hwloop[1 - l].end \notin m.hwloop[l].end - 1 .. m.hwloop[l].end + 1

(* ... loop 0 first.                                                       *)
NestRule(m) ==
  (\A l \in Loops : InBody(m, l)) /\ (\E l \in Loops : Enabled(m, l)) =>
    m.hwloop[0].end < m.hwloop[1].end

(* The registers of a loop are not written in its body.                    *)
WriteRule(p, m) ==
  WritesLoop(p[m.pc]) => ~InBody(m, p[m.pc].loop)

(* A body is entered from its start.                                       *)
EntryRule(p, m) ==
  LET n == Step(p, m)
  IN  \A l \in Loops : Enabled(n, l) /\ InBody(n, l) =>
        InBody(m, l) \/ n.pc = n.hwloop[l].start

FenceRule(p, m) ==
  p[m.pc].op = "fencei" => \A l \in Loops : ~(Enabled(m, l) /\ InBody(m, l))

(* No rule of the manual, but of the code (see EnabledByProgram): a CSR    *)
(* access does not end the body of a loop that is not enabled.             *)
CsrRule(p, m) ==
  p[m.pc].op = "csr" => \A l \in Loops : m.hwloop[l].end = m.pc + 1 => Enabled(m, l)

Rules(p, m) ==
  /\ m.pc >= 1
  /\ m.pc <= Len(p) =>
       /\ SizeRule(m) /\ EndsRule(m) /\ NestRule(m) /\ WriteRule(p, m)
       /\ EntryRule(p, m) /\ FenceRule(p, m) /\ CsrRule(p, m)

RulesObeyed == Rules(prog, ref)

(* S holds the states of the machine executing p, and all are within the   *)
(* rules.                                                                  *)
Obeys(p, S) == Start \in S /\ \A m \in S : Rules(p, m) /\ Step(p, m) \in S

-----------------------------------------------------------------------------
(* Combinational wires of the controller.                                  *)

hwlp_end_eq_pc(l)       == hwloop[l].end = pc_id + 1
hwlp_end_eq_pc_plus4(l) == hwloop[l].end = pc_id + 2
in_range(l)             == hwloop[l].start <= pc_id /\ hwloop[l].end >= pc_id + 1
counter_gt_1(l)         == hwloop[l].count > 1
is_hwlp_body            == \E l \in Loops : in_range(l) /\ counter_gt_1(l)

hwlp_targ_addr == IF in_range(1) /\ ~in_range(0) THEN hwloop[1].start ELSE hwloop[0].start

(* The outputs of the state machine; pc is the target of pc_set or of the  *)
(* loop jump.                                                              *)
Default ==
  [ns |-> ctrl_fsm_cs, halt_if |-> FALSE, halt_id |-> FALSE,
   pc_set |-> FALSE, pc |-> hwlp_targ_addr, jump_done |-> jump_done_q,
   dec_cnt |-> {}, end_4_id |-> FALSE,
   illegal |-> illegal_insn_q /\ ~(ctrl_fsm_cs = "DECODE" /\ instr_valid),
   irq |-> FALSE, save |-> FALSE]

(* The instruction waits in ID, with the fetch halted, until it can go on  *)
(* to EX; then the pipeline is flushed.                                    *)
Flush(c) ==
  [Default EXCEPT !.halt_if = TRUE,
                  !.ns = IF c.id_ready THEN "FLUSH_EX" ELSE ctrl_fsm_cs]

TakeIrq ==
  [Default EXCEPT !.halt_if = TRUE, !.halt_id = TRUE, !.pc_set = TRUE,
                  !.ns = "HANDLER", !.irq = TRUE]

CsrStatus(c) ==
  [Flush(c) EXCEPT !.dec_cnt = IF c.id_ready THEN {l \in Loops : hwlp_end_eq_pc(l)} ELSE {}]

NextInBodyAlways == "DECODE_HWLOOP"    \* wrong: HWLP_END is reached without a jump

NextInBody ==
  IF \E l \in Loops : hwlp_end_eq_pc_plus4(l) THEN "DECODE" ELSE "DECODE_HWLOOP"

(* Returned to HWLP_END in the middle of a loop: a jump like any other.    *)
LateJump ==
  {l \in Loops : is_hwlp_body /\ hwlp_end_eq_pc(l) /\ counter_gt_1(l) /\ ~jump_done_q}

DecodeAny ==
  [Default EXCEPT
     !.ns        = IF is_hwlp_body THEN NextInBody ELSE "DECODE",
     !.pc_set    = LateJump # {},
     !.jump_done = @ \/ LateJump # {},
     !.dec_cnt   = LateJump \cup {l \in Loops : hwlp_end_eq_pc(l) /\ hwloop[l].count = 1}]

Decode(c) ==
  IF c.irq THEN TakeIrq ELSE
  CASE Op = "illegal"    -> [Flush(c) EXCEPT !.illegal = TRUE]
    [] Op \in {"ecall", "fencei"} -> Flush(c)
    [] Op = "csr"        -> CsrStatus(c)
    [] OTHER             -> DecodeAny

(* The end of loop 0 comes last and wins. *)
NearEnd == {l \in Loops : hwlp_end_eq_pc_plus4(l)}

DecodeHwloopAny ==
  LET l == IF 0 \in NearEnd THEN 0 ELSE 1
  IN  [Default EXCEPT
         !.ns = IF NearEnd = {} \/ counter_gt_1(l) \/ is_hwlp_body
                THEN "DECODE_HWLOOP" ELSE "DECODE",
         !.end_4_id = \E k \in NearEnd : counter_gt_1(k),
         !.pc = IF 0 \in NearEnd /\ counter_gt_1(0) THEN hwloop[0].start
                ELSE IF 1 \in NearEnd /\ counter_gt_1(1) THEN hwloop[1].start ELSE @,
         !.dec_cnt = {k \in Loops : hwlp_end_eq_pc(k) /\ hwloop[k].count # 0}]

DecodeHwloop(c) ==
  IF c.irq THEN TakeIrq ELSE
  CASE Op = "illegal"    -> [Default EXCEPT !.halt_if = TRUE, !.halt_id = TRUE,
                                            !.ns = "FLUSH_EX", !.illegal = TRUE]
    [] Op = "ecall"      -> Flush(c)
    [] Op = "csr"        -> CsrStatus(c)
    [] OTHER             -> DecodeHwloopAny

FlushEx(c) ==
  [Default EXCEPT !.halt_if = TRUE, !.halt_id = TRUE,
     !.ns = IF c.ex_valid THEN "FLUSH_WB" ELSE "FLUSH_EX",
     !.save = c.ex_valid /\ (illegal_insn_q \/ Op = "ecall")]

CsrJumpsAlways == \E l \in Loops : hwlp_end_eq_pc(l)    \* wrong: also after the last time

CsrJumps == \E l \in Loops : hwlp_end_eq_pc(l) /\ hwloop[l].count # 0

FlushWb ==
  LET flushed == [Default EXCEPT !.halt_if = TRUE, !.halt_id = TRUE, !.ns = "DECODE"]
  IN  CASE illegal_insn_q \/ Op = "ecall" ->
             [flushed EXCEPT !.pc_set = TRUE, !.illegal = FALSE, !.ns = "HANDLER"]
        [] ~illegal_insn_q /\ Op = "csr" -> [flushed EXCEPT !.pc_set = CsrJumps]
        [] ~illegal_insn_q /\ Op = "fencei" ->
             [flushed EXCEPT !.pc_set = TRUE, !.pc = pc_id + 1]

Out(c) ==
  CASE ctrl_fsm_cs \in {"DECODE", "DECODE_HWLOOP"} /\ ~instr_valid -> Default
    [] ctrl_fsm_cs = "DECODE" /\ instr_valid        -> Decode(c)
    [] ctrl_fsm_cs = "DECODE_HWLOOP" /\ instr_valid -> DecodeHwloop(c)
    [] ctrl_fsm_cs = "FLUSH_EX"                     -> FlushEx(c)
    [] ctrl_fsm_cs = "FLUSH_WB"                     -> FlushWb

-----------------------------------------------------------------------------
(* Register updates.                                                       *)

ClearInstrValid(c, o) == c.id_ready \/ o.halt_id

IfValid(c, o) ==
  c.fetch /\ c.id_ready /\ ~o.halt_if /\ ~o.pc_set /\ pc_if <= Len(prog)

FetchEdge(c, o) ==
  IF IfValid(c, o) THEN pc_id' = pc_if /\ instr_valid' = TRUE
  ELSE pc_id' = pc_id /\ instr_valid' = (instr_valid /\ ~ClearInstrValid(c, o))

hwlp_jumpLevel(o) == o.end_4_id    \* wrong: again in each cycle of a stall

hwlp_jump(o) == o.end_4_id /\ ~hwlp_end_4_id_q

(* The aligner goes on at the loop start after the instruction it is about *)
(* to hand over, in this cycle or later.                                   *)
AlignerEdge(c, o) ==
  LET after == IF hwlp_jump(o) THEN o.pc ELSE hwlp_addr_q
  IN  IF o.pc_set THEN pc_if' = o.pc /\ hwlp_addr_q' = None
      ELSE IF IfValid(c, o)
      THEN pc_if' = (IF after = None THEN pc_if + 1 ELSE after) /\ hwlp_addr_q' = None
      ELSE UNCHANGED pc_if /\ hwlp_addr_q' = after

(* hwlp_we is masked while an interrupt is taken.                          *)
HwloopEdge(c, o) ==
  LET we(l)  == /\ instr_valid /\ WritesLoop(prog[pc_id]) /\ prog[pc_id].loop = l
                /\ c.id_ready /\ ~o.irq
      dec(l) == l \in o.dec_cnt /\ instr_valid /\ ClearInstrValid(c, o)
  IN  hwloop' = [l \in Loops |->
                   IF we(l) THEN Written(prog[pc_id], pc_id, hwloop[l])
                   ELSE IF dec(l) THEN [hwloop[l] EXCEPT !.count = (@ - 1) % 2^COUNTER_BITS]
                   ELSE hwloop[l]]

Deciding == ctrl_fsm_cs \in {"DECODE", "DECODE_HWLOOP"} /\ instr_valid

(* The instruction in ID leaves for EX, or to be trapped.                  *)
Leaves(c, o) ==
  /\ Deciding /\ ~o.irq
  /\ c.id_ready \/ o.ns = "FLUSH_EX"

Cycle(c) ==
  /\ ctrl_fsm_cs # "HANDLER"
  /\ c.irq => irqs < MaxIrqs /\ Deciding
  /\ ctrl_fsm_cs # "FLUSH_EX" => c.ex_valid      \* looked at nowhere else
  /\ \E o \in {Out(c)} :
      /\ ctrl_fsm_cs' = o.ns
      /\ FetchEdge(c, o) /\ AlignerEdge(c, o) /\ HwloopEdge(c, o)
      /\ jump_done_q' = (o.jump_done /\ ~c.id_ready)
      /\ hwlp_end_4_id_q' = o.end_4_id
      /\ illegal_insn_q' = o.illegal
      \* the handler of a trap adds 4 (custom/vectors.S:134)
      /\ mepc' = IF o.irq THEN pc_id ELSE IF o.save THEN pc_id + 1 ELSE mepc
      /\ irqs' = IF o.irq THEN irqs + 1 ELSE irqs
      /\ ref' = IF Leaves(c, o) THEN Step(prog, ref) ELSE ref
      /\ UNCHANGED prog

(* mret: to the interrupted instruction, or past the one that trapped.     *)
Return ==
  /\ ctrl_fsm_cs = "HANDLER"
  /\ ctrl_fsm_cs' = "DECODE" /\ pc_if' = mepc
  /\ UNCHANGED <<prog, pc_id, instr_valid, hwlp_addr_q, hwloop, jump_done_q,
                 hwlp_end_4_id_q, illegal_insn_q, mepc, irqs, ref>>

Init ==
  /\ prog \in Programs
  /\ ctrl_fsm_cs = "DECODE" /\ pc_id = 1 /\ instr_valid = FALSE
  /\ pc_if = 1 /\ hwlp_addr_q = None
  /\ hwloop = [l \in Loops |-> NoRegs]
  /\ jump_done_q = FALSE /\ hwlp_end_4_id_q = FALSE /\ illegal_insn_q = FALSE
  /\ mepc = 1 /\ irqs = 0
  /\ ref = Start

Next == (\E c \in Input : Cycle(c)) \/ Return

(* Again and again there is a cycle without stall, and handlers return.    *)
Undisturbed == [irq |-> FALSE, id_ready |-> TRUE, fetch |-> TRUE, ex_valid |-> TRUE]

Spec == Init /\ [][Next]_vars /\ WF_vars(Cycle(Undisturbed)) /\ WF_vars(Return)

-----------------------------------------------------------------------------
(* Whatever is interrupted, flushed or stalled: the instruction in ID is   *)
(* the next one in program order, and the loop registers are what the      *)
(* instructions before it made of them.                                    *)
ProgramOrder ==
  /\ instr_valid => pc_id = ref.pc
  /\ hwloop = ref.hwloop

(* What prefetcher and aligner rely on: a loop jump comes when HWLP_END is *)
(* the next instruction of the fetch stage, and only once.                 *)
LoopJumpLegal ==
  ctrl_fsm_cs = "DECODE_HWLOOP" /\ instr_valid =>
    \A c \in Input : hwlp_jump(Out(c)) => hwlp_addr_q = None /\ pc_if = pc_id + 1

(* docs/source/corev_hw_loop.rst:134: a loop is enabled as soon as its     *)
(* count is greater than 0.  So a count of 0 stays until a loop            *)
(* instruction writes it, whatever is executed at the end of the body.     *)
EnabledByProgram ==
  [][\A l \in Loops :
       hwloop[l].count = 0 /\ hwloop'[l].count # 0 =>
         WritesLoop(prog[pc_id]) /\ prog[pc_id].loop = l]_vars

(* Every loop comes to its end, and the program with it.                   *)
Finishes == <>[](pc_if > Len(prog) /\ ~instr_valid)
=============================================================================
