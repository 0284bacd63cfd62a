---------------------------- MODULE HwLoopsProofs ----------------------------
(***************************************************************************)
(* Theorems about HwLoops, for every program that obeys the rules of       *)
(* docs/source/corev_hw_loop.rst (RulesObeyed), any width of the counters  *)
(* and any number of interrupts, in every timing of stalls and fetches.    *)
(***************************************************************************)
EXTENDS HwLoops, TLAPS

-----------------------------------------------------------------------------
(* The reference machine                                                   *)

State == [pc : Nat, hwloop : [Loops -> Regs]]

(* The loop jump that follows the instruction at m, or the one behind it.  *)
JumpsAt(m, l)    == m.hwloop[l].end = m.pc + 1 /\ m.hwloop[l].count > 1
JumpsAfter(m, l) == m.hwloop[l].end = m.pc + 2 /\ m.hwloop[l].count > 1

Traps(i) == i.op \in {"illegal", "ecall"}

LEMMA StateType ==
  ASSUME NEW m \in State, NEW l \in Loops
  PROVE  /\ m.pc \in Nat /\ m.hwloop[l] \in Regs
         /\ m.hwloop[l].start \in Nat /\ m.hwloop[l].end \in Nat /\ m.hwloop[l].count \in Nat
  BY DEF State, Regs

LEMMA InstrAt ==
  ASSUME NEW p \in Programs, NEW k \in 1 .. Len(p)
  PROVE  /\ p[k] \in Instr /\ p[k].loop \in Loops
         /\ p[k].op \in {"setup", "counti"} => p[k].arg < 2^COUNTER_BITS
  <1>1. /\ p \in Seq(Instr)
        /\ \A j \in DOMAIN p : p[j].op \in {"setup", "counti"} => p[j].arg < 2^COUNTER_BITS
    BY HwLoopsAssumption
  <1>2. k \in DOMAIN p
    BY <1>1
  <1>3. p[k] \in Instr
    BY <1>1
  <1> QED BY <1>1, <1>2, <1>3 DEF Instr

LEMMA WrittenType ==
  ASSUME NEW i \in Instr, WritesLoop(i), NEW pc \in Nat, NEW r \in Regs
  PROVE  Written(i, pc, r) \in Regs
  <1>1. CASE i.op = "setup"
    BY <1>1 DEF Instr, Written, Regs
  <1>2. CASE i.op = "starti"
    BY <1>2 DEF Instr, Written, Regs
  <1>3. CASE i.op = "endi"
    BY <1>3 DEF Instr, Written, Regs
  <1>4. CASE i.op = "counti"
    BY <1>4 DEF Instr, Written, Regs
  <1> QED BY <1>1, <1>2, <1>3, <1>4 DEF WritesLoop

LEMMA WrittenCount ==
  ASSUME NEW i \in Instr, WritesLoop(i), NEW pc \in Nat, NEW r \in Regs
  PROVE  Written(i, pc, r).count =
           IF i.op \in {"setup", "counti"} THEN i.arg ELSE r.count
  BY DEF Instr, WritesLoop, Written, Regs

(* What a step does, as facts about its parts.                             *)
LEMMA StepTrap ==
  ASSUME NEW p \in Programs, NEW m \in State, m.pc \in 1 .. Len(p), Traps(p[m.pc])
  PROVE  Step(p, m).pc = m.pc + 1 /\ Step(p, m).hwloop = m.hwloop
  BY DEF Step, Traps, State

LEMMA StepRegs ==
  ASSUME NEW p \in Programs, NEW m \in State, m.pc \in 1 .. Len(p), ~Traps(p[m.pc]),
         NEW l \in Loops
  PROVE  Step(p, m).hwloop[l] =
           IF WritesLoop(p[m.pc]) /\ p[m.pc].loop = l
           THEN Written(p[m.pc], m.pc, m.hwloop[l])
           ELSE IF IsLast(m, l) THEN [m.hwloop[l] EXCEPT !.count = @ - 1]
           ELSE m.hwloop[l]
  BY DEF Step, Traps, State

LEMMA StepPc ==
  ASSUME NEW p \in Programs, NEW m \in State, m.pc \in 1 .. Len(p), ~Traps(p[m.pc])
  PROVE  /\ (\A l \in Loops : ~JumpsAt(m, l)) => Step(p, m).pc = m.pc + 1
         /\ Step(p, m).pc # m.pc + 1 =>
              \E l \in Loops : JumpsAt(m, l) /\ Step(p, m).pc = m.hwloop[l].start
  <1> DEFINE again == {l \in Loops : IsLast(m, l) /\ m.hwloop[l].count > 1}
  <1>1. Step(p, m).pc = IF again = {} THEN m.pc + 1
                        ELSE m.hwloop[CHOOSE l \in again : TRUE].start
    BY DEF Step, Traps, State
  <1>2. \A l \in Loops : JumpsAt(m, l) <=> l \in again
    BY StateType DEF JumpsAt, IsLast
  <1>3. again # {} => (CHOOSE l \in again : TRUE) \in again
    OBVIOUS
  <1>4. again \subseteq Loops
    OBVIOUS
  <1> HIDE DEF again
  <1> QED BY <1>1, <1>2, <1>3, <1>4

LEMMA StepType ==
  ASSUME NEW p \in Programs, NEW m \in State, m.pc \in 1 .. Len(p)
  PROVE  Step(p, m) \in State
  <1>1. CASE Traps(p[m.pc])
    BY <1>1 DEF Step, Traps, State
  <1>2. CASE ~Traps(p[m.pc])
    <2>1. \A l \in Loops : Step(p, m).hwloop[l] \in Regs
      <3> SUFFICES ASSUME NEW l \in Loops PROVE Step(p, m).hwloop[l] \in Regs
        OBVIOUS
      <3>1. p[m.pc] \in Instr
        BY InstrAt
      <3>2. WritesLoop(p[m.pc]) => Written(p[m.pc], m.pc, m.hwloop[l]) \in Regs
        BY <3>1, StateType, WrittenType
      <3>3. IsLast(m, l) => [m.hwloop[l] EXCEPT !.count = @ - 1] \in Regs
        <4> SUFFICES ASSUME m.hwloop[l].count > 0
                     PROVE  [m.hwloop[l] EXCEPT !.count = @ - 1] \in Regs
          BY DEF IsLast
        <4> DEFINE r == m.hwloop[l]
        <4>1. r \in Regs /\ r.count > 0
          BY StateType
        <4> HIDE DEF r
        <4>2. [r EXCEPT !.count = @ - 1] \in Regs
          BY <4>1 DEF Regs
        <4> QED BY <4>2 DEF r
      <3> QED BY <1>2, <3>2, <3>3, StepRegs, StateType
    <2>2. Step(p, m).pc \in Nat
      BY <1>2, StepPc, StateType
    <2>3. /\ Step(p, m).hwloop = [l \in Loops |-> Step(p, m).hwloop[l]]
          /\ Step(p, m) = [pc |-> Step(p, m).pc, hwloop |-> Step(p, m).hwloop]
      BY <1>2 DEF Step, Traps, State
    <2> QED BY <2>1, <2>2, <2>3 DEF State
  <1> QED BY <1>1, <1>2

-----------------------------------------------------------------------------
(* What the rules give                                                     *)

(* A jump at the end of a body, or one instruction before: the body is     *)
(* around the instruction, and no other loop ends near it.                 *)
LEMMA NearEndOfBody ==
  ASSUME NEW m \in State, SizeRule(m), NEW l \in Loops,
         JumpsAt(m, l) \/ JumpsAfter(m, l)
  PROVE  Enabled(m, l) /\ InBody(m, l) /\ m.hwloop[l].start + 3 <= m.hwloop[l].end
  BY StateType DEF SizeRule, JumpsAt, JumpsAfter, Enabled, InBody

LEMMA OthersEndElsewhere ==
  ASSUME NEW m \in State, SizeRule(m), EndsRule(m), NEW l \in Loops, NEW k \in Loops, k # l
  PROVE  /\ JumpsAt(m, l)    => m.hwloop[k].end \notin {m.pc, m.pc + 1, m.pc + 2}
         /\ JumpsAfter(m, l) => m.hwloop[k].end \notin {m.pc + 1, m.pc + 2, m.pc + 3}
  <1>1. k = 1 - l
    BY DEF Loops
  <1>2. m.hwloop[k].end \in Nat /\ m.pc \in Nat
    BY StateType
  <1>3. JumpsAt(m, l) \/ JumpsAfter(m, l) =>
          m.hwloop[k].end \notin m.hwloop[l].end - 1 .. m.hwloop[l].end + 1
    BY <1>1, NearEndOfBody DEF EndsRule
  <1> DEFINE e == m.hwloop[l].end
             f == m.hwloop[k].end
  <1>4. e \in Nat /\ f \in Nat /\ m.pc \in Nat
    BY StateType
  <1>5. JumpsAt(m, l) => e = m.pc + 1 /\ f \notin e - 1 .. e + 1
    BY <1>3 DEF JumpsAt
  <1>6. JumpsAfter(m, l) => e = m.pc + 2 /\ f \notin e - 1 .. e + 1
    BY <1>3 DEF JumpsAfter
  <1> HIDE DEF e, f
  <1>7. /\ JumpsAt(m, l) => f \notin {m.pc, m.pc + 1, m.pc + 2}
        /\ JumpsAfter(m, l) => f \notin {m.pc + 1, m.pc + 2, m.pc + 3}
    BY <1>4, <1>5, <1>6
  <1> QED BY <1>7 DEF f

(* The step to the last instruction of a body is the one behind the        *)
(* instruction before it, and the registers stay as that one saw them.     *)
LEMMA JumpAhead ==
  ASSUME NEW p \in Programs, NEW m \in State, m.pc \in 1 .. Len(p), Rules(p, m),
         NEW l \in Loops, JumpsAfter(m, l)
  PROVE  /\ Step(p, m).pc = m.pc + 1 /\ Step(p, m).hwloop[l] = m.hwloop[l]
         /\ JumpsAt(Step(p, m), l)
  <1>1. SizeRule(m) /\ EndsRule(m) /\ WriteRule(p, m)
    BY DEF Rules
  <1>2. \A k \in Loops : ~JumpsAt(m, k)
    BY <1>1, OthersEndElsewhere, StateType DEF JumpsAt, JumpsAfter
  <1>3. ~(WritesLoop(p[m.pc]) /\ p[m.pc].loop = l) /\ ~IsLast(m, l)
    BY <1>1, NearEndOfBody, StateType DEF WriteRule, IsLast, JumpsAfter
  <1>4. Step(p, m).pc = m.pc + 1 /\ Step(p, m).hwloop[l] = m.hwloop[l]
    BY <1>2, <1>3, StepTrap, StepRegs, StepPc
  <1> QED BY <1>4, StateType DEF JumpsAt, JumpsAfter

LEMMA JumpBehind ==
  ASSUME NEW p \in Programs, NEW m \in State, m.pc \in 1 .. Len(p), Rules(p, m),
         NEW n, n = Step(p, m), n.pc <= Len(p), Rules(p, n),
         NEW l \in Loops, JumpsAt(n, l)
  PROVE  JumpsAfter(m, l)
  <1>1. /\ SizeRule(m) /\ EndsRule(m) /\ WriteRule(p, m) /\ EntryRule(p, m)
        /\ SizeRule(n) /\ n \in State /\ m.pc \in Nat
    BY StepType DEF Rules, State
  <1>2. /\ InBody(n, l) /\ Enabled(n, l) /\ n.pc # n.hwloop[l].start
    BY <1>1, NearEndOfBody, StateType DEF JumpsAt
  <1>3. InBody(m, l)
    BY <1>1, <1>2 DEF EntryRule
  <1>4. ~(WritesLoop(p[m.pc]) /\ p[m.pc].loop = l)
    BY <1>1, <1>3 DEF WriteRule
  <1>5. CASE Traps(p[m.pc])
    BY <1>5, StepTrap, StateType DEF JumpsAt, JumpsAfter
  <1>6. CASE ~Traps(p[m.pc])
    <2>1. n.hwloop[l] = IF IsLast(m, l) THEN [m.hwloop[l] EXCEPT !.count = @ - 1]
                        ELSE m.hwloop[l]
      BY <1>4, <1>6, StepRegs
    <2>2. /\ n.hwloop[l].end = m.hwloop[l].end /\ n.hwloop[l].start = m.hwloop[l].start
          /\ n.hwloop[l].count = IF IsLast(m, l) THEN m.hwloop[l].count - 1
                                 ELSE m.hwloop[l].count
      BY <2>1, StateType DEF Regs
    <2>3. CASE n.pc = m.pc + 1
      <3>1. ~IsLast(m, l)
        BY <1>1, <2>2, <2>3, StateType DEF IsLast, JumpsAt
      <3> QED BY <1>1, <2>2, <2>3, <3>1, StateType DEF JumpsAt, JumpsAfter
    <2>4. CASE n.pc # m.pc + 1
      <3>1. PICK k \in Loops : JumpsAt(m, k) /\ n.pc = m.hwloop[k].start
        BY <1>6, <2>4, StepPc
      <3>2. k # l
        BY <1>2, <2>2, <3>1
      <3>3. InBody(m, k) /\ m.hwloop[k].start + 3 <= m.hwloop[k].end
        BY <1>1, <3>1, NearEndOfBody
      <3>4. /\ m.hwloop[k].end = m.pc + 1 /\ m.pc < m.hwloop[l].end
            /\ m.hwloop[l].end = m.hwloop[k].start + 1
            /\ m.hwloop[k].start \in Nat /\ m.hwloop[l].end \in Nat
        BY <1>3, <2>2, <3>1, StateType DEF JumpsAt, InBody
      <3> QED BY <1>1, <3>3, <3>4
    <2> QED BY <2>3, <2>4
  <1> QED BY <1>5, <1>6

(* A step that jumps goes to the start of its loop.                        *)
LEMMA JumpNow ==
  ASSUME NEW p \in Programs, NEW m \in State, m.pc \in 1 .. Len(p), Rules(p, m),
         ~Traps(p[m.pc]), NEW l \in Loops, JumpsAt(m, l)
  PROVE  Step(p, m).pc = m.hwloop[l].start
  <1>1. SizeRule(m) /\ EndsRule(m)
    BY DEF Rules
  <1>2. \A k \in Loops : JumpsAt(m, k) => k = l
    BY <1>1, OthersEndElsewhere DEF JumpsAt
  <1>3. m.hwloop[l].start # m.pc + 1
    BY <1>1, NearEndOfBody, StateType DEF JumpsAt
  <1> DEFINE again == {k \in Loops : IsLast(m, k) /\ m.hwloop[k].count > 1}
  <1>4. Step(p, m).pc = IF again = {} THEN m.pc + 1
                        ELSE m.hwloop[CHOOSE k \in again : TRUE].start
    BY DEF Step, Traps, State
  <1>5. \A k : k \in again <=> k = l
    BY <1>2, StateType DEF JumpsAt, IsLast
  <1>6. again = {l}
    BY <1>5
  <1>7. (CHOOSE k \in {l} : TRUE) = l
    OBVIOUS
  <1> HIDE DEF again
  <1> QED BY <1>4, <1>6, <1>7

(* A step keeps the counts within the width of the counters.               *)
LEMMA StepCounts ==
  ASSUME NEW p \in Programs, NEW m \in State, m.pc \in 1 .. Len(p),
         \A l \in Loops : m.hwloop[l].count < 2^COUNTER_BITS
  PROVE  \A l \in Loops : Step(p, m).hwloop[l].count < 2^COUNTER_BITS
  <1> SUFFICES ASSUME NEW l \in Loops PROVE Step(p, m).hwloop[l].count < 2^COUNTER_BITS
    OBVIOUS
  <1>1. CASE Traps(p[m.pc])
    BY <1>1, StepTrap
  <1>2. CASE ~Traps(p[m.pc])
    <2>1. /\ p[m.pc] \in Instr /\ m.hwloop[l] \in Regs /\ m.hwloop[l].count \in Nat
          /\ m.pc \in Nat
          /\ p[m.pc].op \in {"setup", "counti"} => p[m.pc].arg < 2^COUNTER_BITS
      BY InstrAt, StateType
    <2>2. WritesLoop(p[m.pc]) => Written(p[m.pc], m.pc, m.hwloop[l]).count < 2^COUNTER_BITS
      BY <2>1, WrittenCount
    <2>3. [m.hwloop[l] EXCEPT !.count = @ - 1].count < 2^COUNTER_BITS
      <3> DEFINE b == 2^COUNTER_BITS
                 r == m.hwloop[l]
      <3>1. b \in Nat /\ r.count < b /\ r \in Regs
        BY <2>1, HwLoopsAssumption
      <3> HIDE DEF b, r
      <3>2. [r EXCEPT !.count = @ - 1].count < b
        BY <3>1 DEF Regs
      <3> QED BY <3>2 DEF b, r
    <2> QED BY <1>2, <2>2, <2>3, StepRegs
  <1> QED BY <1>1, <1>2

-----------------------------------------------------------------------------
(* The invariant                                                           *)

Decides == ctrl_fsm_cs \in {"DECODE", "DECODE_HWLOOP"}

Flushes == ctrl_fsm_cs \in {"FLUSH_EX", "FLUSH_WB"}

FlushOps == {"illegal", "ecall", "csr", "fencei"}

TypeInv ==
  /\ prog \in Programs
  /\ ctrl_fsm_cs \in {"DECODE", "DECODE_HWLOOP", "FLUSH_EX", "FLUSH_WB", "HANDLER"}
  /\ pc_id \in Nat /\ pc_if \in Nat /\ mepc \in Nat
  /\ hwlp_addr_q \in Nat \cup {None}
  /\ instr_valid \in BOOLEAN /\ jump_done_q \in BOOLEAN
  /\ ref \in State
  /\ \A l \in Loops : ref.hwloop[l].count < 2^COUNTER_BITS

(* The instruction in ID, or else the one the fetch is at, is the next one *)
(* in program order.                                                       *)
OrderInv ==
  /\ hwloop = ref.hwloop
  /\ instr_valid => Decides /\ pc_id = ref.pc /\ pc_id <= Len(prog)
  /\ Decides /\ ~instr_valid => pc_if = ref.pc
  /\ ctrl_fsm_cs = "HANDLER" => mepc = ref.pc /\ hwlp_addr_q = None

(* In DECODE nothing is prepared: a jump behind ID is still to be made.    *)
DecodeInv ==
  ctrl_fsm_cs = "DECODE" =>
    /\ hwlp_addr_q = None
    /\ instr_valid => pc_if = pc_id + 1 /\ ~jump_done_q

(* In DECODE_HWLOOP the fetch knows of the jump behind the last            *)
(* instruction of a body as soon as the one before it has been seen in ID. *)
HwloopInv ==
  ctrl_fsm_cs = "DECODE_HWLOOP" =>
    IF instr_valid
    THEN /\ \A l \in Loops : JumpsAt(ref, l) =>
              pc_if = hwloop[l].start /\ hwlp_addr_q = None
         /\ \A l \in Loops : JumpsAfter(ref, l) =>
              /\ pc_if = pc_id + 1
              /\ hwlp_addr_q = IF hwlp_end_4_id_q THEN hwloop[l].start ELSE None
              /\ hwlp_end_4_id_q => Op \notin {"illegal", "ecall", "csr"}
         /\ (\A l \in Loops : ~JumpsAt(ref, l) /\ ~JumpsAfter(ref, l)) =>
              pc_if = pc_id + 1 /\ hwlp_addr_q = None
         /\ jump_done_q => \E l \in Loops : JumpsAt(ref, l)
    ELSE pc_if <= Len(prog) =>
         /\ \A l \in Loops : JumpsAt(ref, l) => hwlp_addr_q = hwloop[l].start
         /\ (\A l \in Loops : ~JumpsAt(ref, l)) => hwlp_addr_q = None

(* While the pipeline is flushed, where to go on afterwards.               *)
FlushInv ==
  /\ Flushes =>
       /\ hwlp_addr_q = None /\ pc_id \in 1 .. Len(prog)
       /\ Op \in FlushOps /\ (illegal_insn_q <=> Op = "illegal")
       /\ Op # "csr" => ref.pc = pc_id + 1
       /\ Op \in {"illegal", "ecall"} /\ ctrl_fsm_cs = "FLUSH_WB" => mepc = pc_id + 1
       /\ Op = "csr" => IF CsrJumps THEN ref.pc = hwlp_targ_addr
                        ELSE pc_if = pc_id + 1 /\ ref.pc = pc_id + 1
  /\ illegal_insn_q => Flushes \/ (ctrl_fsm_cs = "DECODE" /\ instr_valid)

HwLoopsInv == TypeInv /\ OrderInv /\ DecodeInv /\ HwloopInv /\ FlushInv

LEMMA InitInv == Init => HwLoopsInv
  <1> SUFFICES ASSUME Init PROVE HwLoopsInv
    OBVIOUS
  <1>1. hwloop \in [Loops -> Regs] /\ \A l \in Loops : hwloop[l].count = 0
    BY DEF Init, NoRegs, Regs
  <1>2. ref \in State /\ ref.hwloop = hwloop /\ ref.pc = 1
    BY <1>1 DEF Init, Start, State
  <1>3. 0 < 2^COUNTER_BITS
    BY HwLoopsAssumption
  <1>4. TypeInv
    BY <1>1, <1>2, <1>3 DEF Init, TypeInv
  <1>5. OrderInv /\ DecodeInv /\ HwloopInv /\ FlushInv
    BY <1>2 DEF Init, OrderInv, DecodeInv, HwloopInv, FlushInv, Decides, Flushes
  <1> QED BY <1>4, <1>5 DEF HwLoopsInv

-----------------------------------------------------------------------------
(* The registers in a cycle, given the outputs o of the state machine      *)

LEMMA CtrlEdge ==
  ASSUME NEW c \in Input, Cycle(c), NEW o, o = Out(c)
  PROVE  /\ ctrl_fsm_cs' = o.ns /\ prog' = prog
         /\ jump_done_q' = (o.jump_done /\ ~c.id_ready)
         /\ hwlp_end_4_id_q' = o.end_4_id /\ illegal_insn_q' = o.illegal
         /\ mepc' = IF o.irq THEN pc_id ELSE IF o.save THEN pc_id + 1 ELSE mepc
         /\ ref' = IF Leaves(c, o) THEN Step(prog, ref) ELSE ref
  BY DEF Cycle

LEMMA PcEdge ==
  ASSUME NEW c \in Input, Cycle(c), NEW o, o = Out(c)
  PROVE  /\ IfValid(c, o) => pc_id' = pc_if /\ instr_valid' = TRUE
         /\ ~IfValid(c, o) => /\ pc_id' = pc_id
                              /\ instr_valid' = (instr_valid /\ ~(c.id_ready \/ o.halt_id))
         /\ o.pc_set => ~IfValid(c, o) /\ pc_if' = o.pc /\ hwlp_addr_q' = None
         /\ ~o.pc_set /\ ~hwlp_jump(o) =>
              IF IfValid(c, o)
              THEN /\ pc_if' = IF hwlp_addr_q = None THEN pc_if + 1 ELSE hwlp_addr_q
                   /\ hwlp_addr_q' = None
              ELSE pc_if' = pc_if /\ hwlp_addr_q' = hwlp_addr_q
         /\ ~o.pc_set /\ hwlp_jump(o) /\ o.pc # None =>
              IF IfValid(c, o) THEN pc_if' = o.pc /\ hwlp_addr_q' = None
              ELSE pc_if' = pc_if /\ hwlp_addr_q' = o.pc
  <1>1. FetchEdge(c, o) /\ AlignerEdge(c, o)
    BY DEF Cycle
  <1>2. o.pc_set => ~IfValid(c, o)
    BY DEF IfValid
  <1> QED BY <1>1, <1>2 DEF FetchEdge, AlignerEdge, ClearInstrValid

(* Nothing is counted while the instruction stays, or is a trap or         *)
(* interrupted.                                                            *)
LEMMA RegsStay ==
  ASSUME TypeInv, OrderInv, NEW c \in Input, Cycle(c), NEW o, o = Out(c),
         \/ ~instr_valid
         \/ o.dec_cnt = {} /\ ~(c.id_ready /\ ~o.irq /\ WritesLoop(prog[pc_id]))
         \/ ~c.id_ready /\ ~o.halt_id
  PROVE  hwloop' = hwloop
  <1>1. hwloop \in [Loops -> Regs]
    BY DEF TypeInv, OrderInv, State
  <1>2. HwloopEdge(c, o)
    BY DEF Cycle
  <1>3. hwloop' = [l \in Loops |-> hwloop[l]]
    BY <1>2 DEF HwloopEdge, ClearInstrValid
  <1> QED BY <1>1, <1>3

(* An instruction that goes on to EX does to them what it has to.          *)
LEMMA RegsFollow ==
  ASSUME TypeInv, OrderInv, NEW c \in Input, Cycle(c), NEW o, o = Out(c),
         instr_valid, ~o.irq, c.id_ready, pc_id \in 1 .. Len(prog), ~Traps(prog[pc_id]),
         \A l \in Loops : ~(WritesLoop(prog[pc_id]) /\ prog[pc_id].loop = l) =>
           (l \in o.dec_cnt <=> IsLast(ref, l))
  PROVE  hwloop' = Step(prog, ref).hwloop
  <1>1. /\ prog \in Programs /\ ref \in State /\ ref.pc = pc_id /\ hwloop = ref.hwloop
        /\ ref.pc \in 1 .. Len(prog)
    BY DEF TypeInv, OrderInv
  <1>2. HwloopEdge(c, o)
    BY DEF Cycle
  <1> DEFINE next(l) ==
        IF WritesLoop(prog[pc_id]) /\ prog[pc_id].loop = l THEN Written(prog[pc_id], pc_id, hwloop[l])
        ELSE IF l \in o.dec_cnt THEN [hwloop[l] EXCEPT !.count = (@ - 1) % 2^COUNTER_BITS]
        ELSE hwloop[l]
  <1>3. hwloop' = [l \in Loops |-> next(l)]
    BY <1>2 DEF HwloopEdge, ClearInstrValid
  <1>4. ASSUME NEW l \in Loops PROVE next(l) = Step(prog, ref).hwloop[l]
    <2>1. Step(prog, ref).hwloop[l] =
           IF WritesLoop(prog[pc_id]) /\ prog[pc_id].loop = l
           THEN Written(prog[pc_id], pc_id, hwloop[l])
           ELSE IF IsLast(ref, l) THEN [hwloop[l] EXCEPT !.count = @ - 1]
           ELSE hwloop[l]
      BY <1>1, StepRegs
    <2>2. IsLast(ref, l) => (hwloop[l].count - 1) % 2^COUNTER_BITS = hwloop[l].count - 1
      <3>1. \A b \in Nat \ {0} : \A x \in Nat : x > 0 /\ x < b => (x - 1) % b = x - 1
        OBVIOUS
      <3>2. hwloop[l].count \in Nat /\ hwloop[l].count < 2^COUNTER_BITS
        BY <1>1, StateType DEF TypeInv
      <3> QED BY <1>1, <3>1, <3>2, HwLoopsAssumption DEF IsLast
    <2>3. CASE WritesLoop(prog[pc_id]) /\ prog[pc_id].loop = l
      BY <2>1, <2>3
    <2>4. CASE ~(WritesLoop(prog[pc_id]) /\ prog[pc_id].loop = l)
      BY <2>1, <2>2, <2>4
    <2> QED BY <2>3, <2>4
  <1>5. Step(prog, ref).hwloop = [l \in Loops |-> Step(prog, ref).hwloop[l]]
    BY <1>1, StepType DEF State
  <1> HIDE DEF next
  <1> QED BY <1>3, <1>4, <1>5

-----------------------------------------------------------------------------
(* The outputs                                                             *)

LEMMA TargetType ==
  ASSUME TypeInv, OrderInv
  PROVE  /\ hwlp_targ_addr \in Nat /\ \A l \in Loops : hwloop[l].start \in Nat
         /\ 0 \in Loops /\ 1 \in Loops
  BY StateType DEF TypeInv, OrderInv, hwlp_targ_addr, Loops

(* An instruction in ID is not taken apart further than this.              *)
LEMMA Here ==
  ASSUME HwLoopsInv, RulesObeyed, instr_valid
  PROVE  /\ prog \in Programs /\ ref \in State /\ hwloop = ref.hwloop
         /\ ref.pc = pc_id /\ pc_id \in 1 .. Len(prog) /\ Op = prog[ref.pc].op
         /\ Decides /\ Rules(prog, ref)
         /\ SizeRule(ref) /\ EndsRule(ref) /\ NestRule(ref)
         /\ FenceRule(prog, ref) /\ CsrRule(prog, ref)
  <1>1. ref.pc = pc_id /\ ref.pc >= 1 /\ pc_id <= Len(prog) /\ pc_id \in Nat
    BY DEF HwLoopsInv, TypeInv, OrderInv, RulesObeyed, Rules
  <1>2. pc_id \in 1 .. Len(prog)
    BY <1>1
  <1> QED BY <1>1, <1>2 DEF HwLoopsInv, TypeInv, OrderInv, RulesObeyed, Rules, Op

LEMMA IdleOut ==
  ASSUME HwLoopsInv, NEW c \in Input, Cycle(c), Decides, ~instr_valid, NEW o, o = Out(c)
  PROVE  /\ o.ns = ctrl_fsm_cs /\ ~o.halt_if /\ ~o.halt_id /\ ~o.pc_set
         /\ (o.jump_done <=> jump_done_q) /\ ~o.end_4_id /\ ~o.illegal
         /\ ~o.irq /\ ~o.save
  <1>1. o = Default
    BY DEF Out, Decides
  <1>2. ~illegal_insn_q
    BY DEF HwLoopsInv, FlushInv, Flushes, Decides
  <1>3. ~Default.illegal
    BY <1>2 DEF Default
  <1>4. Default.jump_done <=> jump_done_q
    BY DEF Default
  <1>5. /\ Default.ns = ctrl_fsm_cs /\ ~Default.halt_if /\ ~Default.halt_id /\ ~Default.pc_set
        /\ ~Default.end_4_id /\ ~Default.irq /\ ~Default.save
    BY DEF Default
  <1> QED BY <1>1, <1>3, <1>4, <1>5

LEMMA IrqOut ==
  ASSUME HwLoopsInv, NEW c \in Input, Decides, instr_valid, c.irq, NEW o, o = Out(c)
  PROVE  /\ o.ns = "HANDLER" /\ o.halt_if /\ o.halt_id /\ o.pc_set /\ o.pc = hwlp_targ_addr
         /\ o.jump_done = jump_done_q /\ ~o.end_4_id /\ ~o.illegal
         /\ o.irq /\ ~o.save /\ o.dec_cnt = {}
  <1>1. o = TakeIrq
    BY DEF Out, Decides, Decode, DecodeHwloop
  <1>2. illegal_insn_q => ctrl_fsm_cs = "DECODE"
    BY DEF HwLoopsInv, FlushInv, Flushes, Decides
  <1> QED BY <1>1, <1>2 DEF TakeIrq, Default

(* An instruction that flushes the pipeline, where it does.                *)
FlushesHere == Op \in {"illegal", "ecall", "csr"} \/ (Op = "fencei" /\ ctrl_fsm_cs = "DECODE")

LEMMA FlushOut ==
  ASSUME HwLoopsInv, NEW c \in Input, Decides, instr_valid, ~c.irq, FlushesHere,
         NEW o, o = Out(c)
  PROVE  /\ o.halt_if /\ ~o.pc_set /\ o.jump_done = jump_done_q /\ ~o.end_4_id
         /\ ~o.irq /\ ~o.save /\ (o.illegal <=> Op = "illegal")
         /\ IF c.id_ready THEN o.ns = "FLUSH_EX"
            ELSE \/ o.ns = ctrl_fsm_cs /\ ~o.halt_id /\ (Op = "illegal" => ctrl_fsm_cs = "DECODE")
                 \/ o.ns = "FLUSH_EX" /\ o.halt_id /\ Op = "illegal"
         /\ o.dec_cnt = IF Op = "csr" /\ c.id_ready
                        THEN {l \in Loops : hwlp_end_eq_pc(l)} ELSE {}
  <1>1. illegal_insn_q => ctrl_fsm_cs = "DECODE"
    BY DEF HwLoopsInv, FlushInv, Flushes, Decides
  <1>2. CASE ctrl_fsm_cs = "DECODE"
    <2>1. o = Decode(c)
      BY <1>2 DEF Out
    <2>2. CASE Op = "illegal"
      BY <1>2, <2>1, <2>2 DEF Decode, Flush, Default
    <2>3. CASE Op \in {"ecall", "fencei"}
      BY <1>2, <2>1, <2>3 DEF Decode, Flush, Default
    <2>4. CASE Op = "csr"
      BY <1>2, <2>1, <2>4 DEF Decode, CsrStatus, Flush, Default
    <2> QED BY <2>2, <2>3, <2>4 DEF FlushesHere
  <1>3. CASE ctrl_fsm_cs = "DECODE_HWLOOP"
    <2>1. o = DecodeHwloop(c) /\ ~illegal_insn_q
      BY <1>1, <1>3 DEF Out
    <2>2. CASE Op = "illegal"
      BY <1>3, <2>1, <2>2 DEF DecodeHwloop, Default
    <2>3. CASE Op = "ecall"
      BY <1>3, <2>1, <2>3 DEF DecodeHwloop, Flush, Default
    <2>4. CASE Op = "csr"
      BY <1>3, <2>1, <2>4 DEF DecodeHwloop, CsrStatus, Flush, Default
    <2> QED BY <1>3, <2>2, <2>3, <2>4 DEF FlushesHere
  <1> QED BY <1>2, <1>3 DEF Decides

LEMMA DecodeOut ==
  ASSUME HwLoopsInv, NEW c \in Input, ctrl_fsm_cs = "DECODE", instr_valid, ~c.irq,
         ~FlushesHere, NEW o, o = Out(c)
  PROVE  /\ ~o.halt_if /\ ~o.halt_id /\ ~o.end_4_id /\ ~o.irq /\ ~o.save /\ ~o.illegal
         /\ o.ns = (IF is_hwlp_body THEN NextInBody ELSE "DECODE")
         /\ (o.pc_set <=> LateJump # {}) /\ o.pc = hwlp_targ_addr
         /\ (o.jump_done <=> jump_done_q \/ LateJump # {})
         /\ o.dec_cnt = LateJump \cup {l \in Loops : hwlp_end_eq_pc(l) /\ hwloop[l].count = 1}
  <1>1. o = DecodeAny
    BY DEF Out, Decode, FlushesHere
  <1> QED BY <1>1 DEF DecodeAny, Default

LEMMA HwloopOut ==
  ASSUME HwLoopsInv, NEW c \in Input, ctrl_fsm_cs = "DECODE_HWLOOP", instr_valid, ~c.irq,
         ~FlushesHere, NEW o, o = Out(c)
  PROVE  /\ ~o.halt_if /\ ~o.halt_id /\ ~o.irq /\ ~o.save /\ ~o.illegal /\ ~o.pc_set
         /\ o.jump_done = jump_done_q
         /\ (o.end_4_id <=> \E l \in Loops : hwlp_end_eq_pc_plus4(l) /\ counter_gt_1(l))
         /\ o.ns \in {"DECODE", "DECODE_HWLOOP"}
         /\ NearEnd = {} \/ is_hwlp_body => o.ns = "DECODE_HWLOOP"
         /\ o.pc = IF 0 \in NearEnd /\ counter_gt_1(0) THEN hwloop[0].start
                   ELSE IF 1 \in NearEnd /\ counter_gt_1(1) THEN hwloop[1].start
                   ELSE hwlp_targ_addr
         /\ o.dec_cnt = {l \in Loops : hwlp_end_eq_pc(l) /\ hwloop[l].count # 0}
  <1>1. o = DecodeHwloopAny /\ ~illegal_insn_q
    BY DEF Out, DecodeHwloop, FlushesHere, HwLoopsInv, FlushInv, Flushes
  <1> QED BY <1>1 DEF DecodeHwloopAny, Default, NearEnd

LEMMA FlushExOut ==
  ASSUME HwLoopsInv, NEW c \in Input, ctrl_fsm_cs = "FLUSH_EX", NEW o, o = Out(c)
  PROVE  /\ o.halt_if /\ ~o.pc_set /\ ~o.irq /\ ~o.end_4_id /\ o.jump_done = jump_done_q
         /\ (o.illegal <=> illegal_insn_q)
         /\ o.ns = (IF c.ex_valid THEN "FLUSH_WB" ELSE "FLUSH_EX")
         /\ (o.save <=> c.ex_valid /\ Op \in {"illegal", "ecall"})
  <1>1. o = FlushEx(c)
    BY DEF Out
  <1>2. illegal_insn_q <=> Op = "illegal"
    BY DEF HwLoopsInv, FlushInv, Flushes
  <1> QED BY <1>1, <1>2 DEF FlushEx, Default

LEMMA FlushWbOut ==
  ASSUME HwLoopsInv, NEW c \in Input, ctrl_fsm_cs = "FLUSH_WB", NEW o, o = Out(c)
  PROVE  /\ o.halt_if /\ ~o.irq /\ ~o.end_4_id /\ ~o.illegal /\ ~o.save
         /\ o.jump_done = jump_done_q
         /\ o.ns = (IF Op \in {"illegal", "ecall"} THEN "HANDLER" ELSE "DECODE")
         /\ Op \in {"illegal", "ecall"} => o.pc_set /\ o.pc = hwlp_targ_addr
         /\ Op = "csr" => (o.pc_set <=> CsrJumps) /\ o.pc = hwlp_targ_addr
         /\ Op = "fencei" => o.pc_set /\ o.pc = pc_id + 1
  <1>1. o = FlushWb
    BY DEF Out
  <1>2. (illegal_insn_q <=> Op = "illegal") /\ Op \in FlushOps
    BY DEF HwLoopsInv, FlushInv, Flushes
  <1>3. CASE Op \in {"illegal", "ecall"}
    BY <1>1, <1>2, <1>3 DEF FlushWb, Default
  <1>4. CASE Op = "csr"
    BY <1>1, <1>2, <1>4 DEF FlushWb, Default
  <1>5. CASE Op = "fencei"
    BY <1>1, <1>2, <1>5 DEF FlushWb, Default
  <1> QED BY <1>2, <1>3, <1>4, <1>5 DEF FlushOps

-----------------------------------------------------------------------------
(* Every kind of cycle keeps the invariant                                 *)

LEMMA IdleKeeps ==
  ASSUME HwLoopsInv, RulesObeyed, NEW c \in Input, Cycle(c), Decides, ~instr_valid
  PROVE  HwLoopsInv'
  <1> DEFINE o == Out(c)
  <1>1. /\ o.ns = ctrl_fsm_cs /\ ~o.halt_if /\ ~o.halt_id /\ ~o.pc_set
        /\ (o.jump_done <=> jump_done_q) /\ ~o.end_4_id /\ ~o.illegal
        /\ ~o.irq /\ ~o.save
    BY IdleOut
  <1>2. /\ ctrl_fsm_cs' = ctrl_fsm_cs /\ prog' = prog /\ ~hwlp_end_4_id_q' /\ ~illegal_insn_q'
        /\ mepc' = mepc /\ ref' = ref /\ jump_done_q' \in BOOLEAN
        /\ (jump_done_q' => ~c.id_ready)
    BY <1>1, CtrlEdge DEF Leaves, Deciding
  <1>3. hwloop' = hwloop
    BY RegsStay DEF HwLoopsInv
  <1>4. /\ prog \in Programs /\ pc_if = ref.pc /\ ref \in State /\ hwloop = ref.hwloop
        /\ pc_if \in Nat /\ pc_if >= 1 /\ hwlp_addr_q \in Nat \cup {None} /\ None \notin Nat
        /\ SizeRule(ref) \/ pc_if > Len(prog)
        /\ EndsRule(ref) \/ pc_if > Len(prog)
        /\ Len(prog) \in Nat
    <2>1. prog \in Programs /\ Len(prog) \in Nat
      BY HwLoopsAssumption DEF HwLoopsInv, TypeInv
    <2> QED BY <2>1 DEF HwLoopsInv, TypeInv, OrderInv, RulesObeyed, Rules, None
  <1>5. CASE IfValid(c, o)
    <2>1. /\ pc_id' = pc_if /\ instr_valid' = TRUE /\ hwlp_addr_q' = None /\ c.id_ready
          /\ pc_if' = IF hwlp_addr_q = None THEN pc_if + 1 ELSE hwlp_addr_q
          /\ pc_if <= Len(prog)
      BY <1>1, <1>5, PcEdge DEF hwlp_jump, IfValid
    <2>2. ~jump_done_q'
      BY <1>2, <2>1
    <2>3. TypeInv'
      BY <1>2, <1>4, <2>1 DEF HwLoopsInv, TypeInv
    <2>4. OrderInv'
      BY <1>2, <1>3, <1>4, <2>1 DEF HwLoopsInv, OrderInv, Decides
    <2>5. DecodeInv'
      BY <1>2, <2>1, <2>2 DEF HwLoopsInv, DecodeInv
    <2>6. HwloopInv'
      <3> SUFFICES ASSUME ctrl_fsm_cs = "DECODE_HWLOOP" PROVE HwloopInv'
        BY <1>2 DEF HwloopInv
      <3>1. /\ \A l \in Loops : JumpsAt(ref, l) => hwlp_addr_q = hwloop[l].start
            /\ (\A l \in Loops : ~JumpsAt(ref, l)) => hwlp_addr_q = None
        BY <2>1 DEF HwLoopsInv, HwloopInv
      <3>2. \A l \in Loops : JumpsAt(ref, l) => hwloop[l].start # None
        BY <1>4, StateType
      <3>3. \A l, k \in Loops : JumpsAfter(ref, l) => ~JumpsAt(ref, k)
        BY <1>4, <2>1, OthersEndElsewhere, StateType DEF JumpsAt, JumpsAfter
      <3> QED BY <1>2, <1>3, <2>1, <2>2, <3>1, <3>2, <3>3
              DEF HwloopInv, JumpsAt, JumpsAfter
    <2>7. FlushInv'
      BY <1>2 DEF FlushInv, Flushes, Decides
    <2> QED BY <2>3, <2>4, <2>5, <2>6, <2>7 DEF HwLoopsInv
  <1>6. CASE ~IfValid(c, o)
    <2>1. /\ pc_id' = pc_id /\ instr_valid' = FALSE /\ hwlp_addr_q' = hwlp_addr_q
          /\ pc_if' = pc_if
      BY <1>1, <1>6, PcEdge DEF hwlp_jump
    <2>2. TypeInv'
      BY <1>2, <2>1 DEF HwLoopsInv, TypeInv
    <2>3. OrderInv' /\ DecodeInv'
      BY <1>2, <1>3, <2>1 DEF HwLoopsInv, OrderInv, DecodeInv, Decides
    <2>4. HwloopInv'
      BY <1>2, <1>3, <2>1 DEF HwLoopsInv, HwloopInv, JumpsAt, JumpsAfter
    <2>5. FlushInv'
      BY <1>2 DEF FlushInv, Flushes, Decides
    <2> QED BY <2>2, <2>3, <2>4, <2>5 DEF HwLoopsInv
  <1> QED BY <1>5, <1>6

LEMMA IrqKeeps ==
  ASSUME HwLoopsInv, RulesObeyed, NEW c \in Input, Cycle(c), instr_valid, c.irq
  PROVE  HwLoopsInv'
  <1> DEFINE o == Out(c)
  <1>1. /\ o.ns = "HANDLER" /\ o.halt_if /\ o.halt_id /\ o.pc_set /\ o.pc = hwlp_targ_addr
        /\ o.jump_done = jump_done_q /\ ~o.end_4_id /\ ~o.illegal
        /\ o.irq /\ ~o.save /\ o.dec_cnt = {}
    BY Here, IrqOut
  <1>2. /\ ctrl_fsm_cs' = "HANDLER" /\ prog' = prog /\ ~illegal_insn_q'
        /\ mepc' = pc_id /\ ref' = ref /\ jump_done_q' \in BOOLEAN
    BY <1>1, CtrlEdge DEF Leaves
  <1>3. /\ pc_id' = pc_id /\ instr_valid' = FALSE /\ pc_if' = hwlp_targ_addr
        /\ hwlp_addr_q' = None
    BY <1>1, PcEdge
  <1>4. hwloop' = hwloop
    BY <1>1, RegsStay DEF HwLoopsInv
  <1>5. hwlp_targ_addr \in Nat /\ pc_id = ref.pc
    BY TargetType, Here DEF HwLoopsInv
  <1>6. TypeInv'
    BY <1>2, <1>3, <1>5 DEF HwLoopsInv, TypeInv
  <1>7. OrderInv' /\ DecodeInv' /\ HwloopInv' /\ FlushInv'
    BY <1>2, <1>3, <1>4, <1>5
       DEF HwLoopsInv, OrderInv, DecodeInv, HwloopInv, FlushInv, Decides, Flushes
  <1> QED BY <1>6, <1>7 DEF HwLoopsInv

(* ref goes on with the instruction in ID, and so do the loop registers.   *)
LEMMA Goes ==
  ASSUME HwLoopsInv, RulesObeyed, RulesObeyed', NEW c \in Input, Cycle(c), instr_valid,
         NEW o, o = Out(c), ~o.irq, c.id_ready \/ o.ns = "FLUSH_EX"
  PROVE  /\ ref' = Step(prog, ref) /\ ref' \in State
         /\ \A l \in Loops : ref'.hwloop[l].count < 2^COUNTER_BITS
         /\ \A l \in Loops : ref'.pc <= Len(prog) /\ JumpsAt(ref', l) => JumpsAfter(ref, l)
         /\ \A l \in Loops : JumpsAfter(ref, l) => JumpsAt(ref', l) /\ ref'.pc = pc_id + 1
  <1>1. ref' = Step(prog, ref) /\ prog' = prog
    BY Here, CtrlEdge DEF Leaves, Deciding, Decides
  <1>2. /\ prog \in Programs /\ ref \in State /\ ref.pc \in 1 .. Len(prog) /\ Rules(prog, ref)
        /\ ref.pc = pc_id
    BY Here
  <1>3. Rules(prog, ref')
    BY <1>1 DEF RulesObeyed
  <1>4. \A l \in Loops : ref'.hwloop[l].count < 2^COUNTER_BITS
    BY <1>1, <1>2, StepCounts DEF HwLoopsInv, TypeInv
  <1>5. \A l \in Loops : ref'.pc <= Len(prog) /\ JumpsAt(ref', l) => JumpsAfter(ref, l)
    BY <1>1, <1>2, <1>3, JumpBehind
  <1>6. \A l \in Loops : JumpsAfter(ref, l) => JumpsAt(ref', l) /\ ref'.pc = pc_id + 1
    BY <1>1, <1>2, JumpAhead
  <1> QED BY <1>1, <1>2, <1>4, <1>5, <1>6, StepType

(* A jump goes where the code takes it to: to the start of its loop.       *)
LEMMA TargetOfJump ==
  ASSUME HwLoopsInv, RulesObeyed, instr_valid, NEW l \in Loops, JumpsAt(ref, l)
  PROVE  hwlp_targ_addr = hwloop[l].start
  <1>1. InBody(ref, l) /\ Enabled(ref, l)
    BY Here, NearEndOfBody
  <1>2. \A k \in Loops : in_range(k) <=> InBody(ref, k)
    BY Here, StateType DEF in_range, InBody
  <1>3. CASE l = 0
    BY <1>1, <1>2, <1>3 DEF hwlp_targ_addr
  <1>4. CASE l = 1
    <2>1. ASSUME InBody(ref, 0) PROVE FALSE
      <3>1. ref.hwloop[0].end < ref.hwloop[1].end
        BY <1>1, <1>4, <2>1, Here DEF NestRule, Loops
      <3>2. 0 \in Loops /\ 1 \in Loops
        BY DEF Loops
      <3> QED BY <1>4, <2>1, <3>1, <3>2, Here, StateType DEF JumpsAt, InBody
    <2> QED BY <1>1, <1>2, <1>4, <2>1, Here DEF hwlp_targ_addr, Loops
  <1> QED BY <1>3, <1>4 DEF Loops

(* An instruction that flushes finds the fetch prepared for nothing, and   *)
(* right behind itself unless a loop jump follows.                         *)
LEMMA BeforeFlush ==
  ASSUME HwLoopsInv, RulesObeyed, instr_valid, FlushesHere
  PROVE  /\ hwlp_addr_q = None
         /\ (\A l \in Loops : ~JumpsAt(ref, l)) => pc_if = pc_id + 1
  <1>1. CASE ctrl_fsm_cs = "DECODE"
    BY <1>1 DEF HwLoopsInv, DecodeInv
  <1>2. CASE ctrl_fsm_cs = "DECODE_HWLOOP"
    <2>1. Op \in {"illegal", "ecall", "csr"}
      BY <1>2 DEF FlushesHere
    <2> QED BY <1>2, <2>1 DEF HwLoopsInv, HwloopInv
  <1> QED BY <1>1, <1>2, Here DEF Decides

LEMMA FlushWaits ==
  ASSUME HwLoopsInv, RulesObeyed, NEW c \in Input, Cycle(c), instr_valid, ~c.irq,
         FlushesHere, ~c.id_ready, Out(c).ns # "FLUSH_EX"
  PROVE  HwLoopsInv'
  <1> DEFINE o == Out(c)
  <1>1. /\ o.halt_if /\ ~o.pc_set /\ o.jump_done = jump_done_q /\ ~o.end_4_id
        /\ ~o.irq /\ ~o.save /\ (o.illegal <=> Op = "illegal")
        /\ o.ns = ctrl_fsm_cs /\ ~o.halt_id /\ (Op = "illegal" => ctrl_fsm_cs = "DECODE")
    BY Here, FlushOut
  <1>2. /\ ctrl_fsm_cs' = ctrl_fsm_cs /\ prog' = prog /\ jump_done_q' = jump_done_q
        /\ ~hwlp_end_4_id_q' /\ (illegal_insn_q' => ctrl_fsm_cs = "DECODE")
        /\ mepc' = mepc /\ ref' = ref
    <2>1. jump_done_q' = (o.jump_done /\ ~c.id_ready) /\ jump_done_q \in BOOLEAN
      BY CtrlEdge DEF HwLoopsInv, TypeInv
    <2>2. jump_done_q' = jump_done_q
      BY <1>1, <2>1
    <2> QED BY <1>1, <2>2, CtrlEdge DEF Leaves
  <1>3. /\ pc_id' = pc_id /\ instr_valid' = TRUE /\ pc_if' = pc_if
        /\ hwlp_addr_q' = hwlp_addr_q
    BY <1>1, PcEdge DEF hwlp_jump, IfValid
  <1>4. hwloop' = hwloop
    BY <1>1, RegsStay DEF HwLoopsInv
  <1>5. hwlp_addr_q = None
    BY BeforeFlush
  <1>6. TypeInv'
    BY <1>2, <1>3 DEF HwLoopsInv, TypeInv
  <1>7. OrderInv' /\ DecodeInv'
    BY <1>2, <1>3, <1>4 DEF HwLoopsInv, OrderInv, DecodeInv, Decides
  <1>8. HwloopInv'
    BY <1>2, <1>3, <1>4, <1>5 DEF HwLoopsInv, HwloopInv, JumpsAt, JumpsAfter
  <1>9. FlushInv'
    BY <1>2, <1>3, Here DEF FlushInv, Flushes, Decides
  <1> QED BY <1>6, <1>7, <1>8, <1>9 DEF HwLoopsInv

(* A CSR access at the end of a body counts like another instruction, and  *)
(* FLUSH_WB then jumps exactly if the body is to be repeated.              *)
LEMMA CsrLeaves ==
  ASSUME HwLoopsInv, RulesObeyed, RulesObeyed', NEW c \in Input, Cycle(c), instr_valid,
         ~c.irq, Op = "csr", c.id_ready
  PROVE  /\ hwloop' = ref'.hwloop
         /\ pc_id' = pc_id =>
              IF CsrJumps' THEN ref'.pc = hwlp_targ_addr'
              ELSE (\A l \in Loops : ~JumpsAt(ref, l)) /\ ref'.pc = pc_id + 1
  <1> DEFINE o == Out(c)
  <1>1. /\ prog \in Programs /\ ref \in State /\ hwloop = ref.hwloop
        /\ ref.pc = pc_id /\ pc_id \in 1 .. Len(prog) /\ Op = prog[ref.pc].op
        /\ Rules(prog, ref) /\ CsrRule(prog, ref)
    BY Here
  <1>2. ~Traps(prog[ref.pc]) /\ ~WritesLoop(prog[ref.pc])
    BY <1>1 DEF Traps, WritesLoop
  <1>3. \A l \in Loops : hwlp_end_eq_pc(l) <=> IsLast(ref, l)
    BY <1>1, StateType DEF CsrRule, hwlp_end_eq_pc, IsLast, Enabled
  <1>4. ~o.irq /\ o.ns = "FLUSH_EX" /\ o.dec_cnt = {l \in Loops : hwlp_end_eq_pc(l)}
    BY Here, FlushOut DEF FlushesHere
  <1>5. ref' = Step(prog, ref)
    BY <1>4, Goes
  <1>6. hwloop' = ref'.hwloop
    <2>1. \A l \in Loops : l \in o.dec_cnt <=> IsLast(ref, l)
      BY <1>3, <1>4
    <2> QED BY <1>1, <1>2, <1>4, <1>5, <2>1, RegsFollow DEF HwLoopsInv
  <1>7. \A l \in Loops :
          /\ hwloop'[l].start = hwloop[l].start /\ hwloop'[l].end = hwloop[l].end
          /\ hwloop'[l].count = IF IsLast(ref, l) THEN hwloop[l].count - 1 ELSE hwloop[l].count
    <2> SUFFICES ASSUME NEW l \in Loops
                 PROVE  /\ hwloop'[l].start = hwloop[l].start /\ hwloop'[l].end = hwloop[l].end
                        /\ hwloop'[l].count = IF IsLast(ref, l) THEN hwloop[l].count - 1
                                              ELSE hwloop[l].count
      OBVIOUS
    <2>1. hwloop'[l] = IF IsLast(ref, l) THEN [hwloop[l] EXCEPT !.count = @ - 1] ELSE hwloop[l]
      BY <1>1, <1>2, <1>5, <1>6, StepRegs
    <2>2. hwloop[l] \in Regs
      BY <1>1, StateType
    <2> QED BY <2>1, <2>2 DEF Regs
  <1> SUFFICES ASSUME pc_id' = pc_id
               PROVE  IF CsrJumps' THEN ref'.pc = hwlp_targ_addr'
                      ELSE (\A l \in Loops : ~JumpsAt(ref, l)) /\ ref'.pc = pc_id + 1
    BY <1>6
  <1>8. CsrJumps' <=> \E l \in Loops : JumpsAt(ref, l)
    <2>1. ASSUME NEW l \in Loops
          PROVE  hwloop'[l].end = pc_id + 1 /\ hwloop'[l].count # 0 <=> JumpsAt(ref, l)
      BY <1>1, <1>3, <1>7, StateType DEF hwlp_end_eq_pc, IsLast, JumpsAt
    <2> QED BY <2>1 DEF CsrJumps, hwlp_end_eq_pc
  <1>9. hwlp_targ_addr' = hwlp_targ_addr
    BY <1>7 DEF hwlp_targ_addr, in_range, Loops
  <1>10. \A l \in Loops : JumpsAt(ref, l) => ref'.pc = hwlp_targ_addr
    BY <1>1, <1>2, <1>5, JumpNow, TargetOfJump
  <1>11. (\A l \in Loops : ~JumpsAt(ref, l)) => ref'.pc = pc_id + 1
    BY <1>1, <1>2, <1>5, StepPc
  <1> QED BY <1>8, <1>9, <1>10, <1>11

(* FENCE.I is in no body, and the next instruction is the one behind it.   *)
LEMMA FenceLeaves ==
  ASSUME HwLoopsInv, RulesObeyed, RulesObeyed', NEW c \in Input, Cycle(c), instr_valid,
         ~c.irq, Op = "fencei", ctrl_fsm_cs = "DECODE", c.id_ready
  PROVE  hwloop' = ref'.hwloop /\ ref'.pc = pc_id + 1
  <1> DEFINE o == Out(c)
  <1>1. /\ prog \in Programs /\ ref \in State /\ hwloop = ref.hwloop
        /\ ref.pc = pc_id /\ pc_id \in 1 .. Len(prog) /\ Op = prog[ref.pc].op
        /\ SizeRule(ref) /\ FenceRule(prog, ref)
    BY Here
  <1>2. ~Traps(prog[ref.pc]) /\ ~WritesLoop(prog[ref.pc])
    BY <1>1 DEF Traps, WritesLoop
  <1>3. ~o.irq /\ o.ns = "FLUSH_EX" /\ o.dec_cnt = {}
    BY Here, FlushOut DEF FlushesHere
  <1>4. ref' = Step(prog, ref)
    BY <1>3, Goes
  <1>5. \A l \in Loops : ~IsLast(ref, l) /\ ~JumpsAt(ref, l)
    <2>1. ASSUME NEW l \in Loops, IsLast(ref, l) PROVE FALSE
      <3>1. Enabled(ref, l) /\ ref.pc < ref.hwloop[l].end /\ ref.hwloop[l].end = ref.pc + 1
        BY <1>1, <2>1, StateType DEF IsLast, Enabled
      <3>2. ref.hwloop[l].end >= ref.hwloop[l].start + 3
        BY <1>1, <3>1 DEF SizeRule
      <3>3. InBody(ref, l)
        BY <1>1, <3>1, <3>2, StateType DEF InBody
      <3> QED BY <1>1, <3>1, <3>3 DEF FenceRule
    <2> QED BY <1>1, <2>1, StateType DEF IsLast, JumpsAt
  <1>6. hwloop' = ref'.hwloop
    BY <1>1, <1>2, <1>3, <1>4, <1>5, RegsFollow DEF HwLoopsInv
  <1>7. ref'.pc = pc_id + 1
    BY <1>1, <1>2, <1>4, <1>5, StepPc
  <1> QED BY <1>6, <1>7

LEMMA TrapLeaves ==
  ASSUME HwLoopsInv, RulesObeyed, RulesObeyed', NEW c \in Input, Cycle(c), instr_valid,
         ~c.irq, Op \in {"illegal", "ecall"}, c.id_ready \/ Out(c).ns = "FLUSH_EX"
  PROVE  hwloop' = ref'.hwloop /\ ref'.pc = pc_id + 1
  <1> DEFINE o == Out(c)
  <1>1. /\ prog \in Programs /\ ref \in State /\ hwloop = ref.hwloop
        /\ ref.pc = pc_id /\ pc_id \in 1 .. Len(prog) /\ Op = prog[ref.pc].op
    BY Here
  <1>2. Traps(prog[ref.pc]) /\ ~WritesLoop(prog[ref.pc])
    BY <1>1 DEF Traps, WritesLoop
  <1>3. ~o.irq /\ o.dec_cnt = {}
    BY Here, FlushOut DEF FlushesHere
  <1>4. ref' = Step(prog, ref)
    BY <1>3, Goes
  <1>5. hwloop' = hwloop
    BY <1>1, <1>2, <1>3, RegsStay DEF HwLoopsInv
  <1> QED BY <1>1, <1>2, <1>4, <1>5, StepTrap

LEMMA FlushLeaves ==
  ASSUME HwLoopsInv, RulesObeyed, RulesObeyed', NEW c \in Input, Cycle(c), instr_valid,
         ~c.irq, FlushesHere, c.id_ready \/ Out(c).ns = "FLUSH_EX"
  PROVE  HwLoopsInv'
  <1> DEFINE o == Out(c)
  <1>1. /\ o.halt_if /\ ~o.pc_set /\ o.jump_done = jump_done_q /\ ~o.end_4_id
        /\ ~o.irq /\ ~o.save /\ (o.illegal <=> Op = "illegal") /\ o.ns = "FLUSH_EX"
        /\ (c.id_ready \/ o.halt_id) /\ (Op # "illegal" => c.id_ready)
    <2>1. o.ns = ctrl_fsm_cs => ctrl_fsm_cs # "FLUSH_EX"
      BY Here DEF Decides
    <2> QED BY <2>1, Here, FlushOut
  <1>2. /\ ctrl_fsm_cs' = "FLUSH_EX" /\ prog' = prog /\ jump_done_q' \in BOOLEAN
        /\ (illegal_insn_q' <=> Op = "illegal") /\ mepc' = mepc
    BY <1>1, CtrlEdge
  <1>3. /\ pc_id' = pc_id /\ instr_valid' = FALSE /\ pc_if' = pc_if
        /\ hwlp_addr_q' = hwlp_addr_q
    BY <1>1, PcEdge DEF hwlp_jump, IfValid
  <1>4. /\ hwlp_addr_q = None
        /\ (\A l \in Loops : ~JumpsAt(ref, l)) => pc_if = pc_id + 1
    BY BeforeFlush
  <1>5. /\ hwloop' = ref'.hwloop
        /\ Op # "csr" => ref'.pc = pc_id + 1
        /\ Op = "csr" => IF CsrJumps' THEN ref'.pc = hwlp_targ_addr'
                         ELSE pc_if = pc_id + 1 /\ ref'.pc = pc_id + 1
    <2>1. CASE Op = "csr"
      BY <1>1, <1>3, <1>4, <2>1, CsrLeaves
    <2>2. CASE Op = "fencei"
      BY <1>1, <2>2, FenceLeaves DEF FlushesHere
    <2>3. CASE Op \in {"illegal", "ecall"}
      BY <2>3, TrapLeaves
    <2> QED BY <2>1, <2>2, <2>3 DEF FlushesHere
  <1>6. TypeInv'
    BY <1>1, <1>2, <1>3, Goes DEF HwLoopsInv, TypeInv
  <1>7. OrderInv' /\ DecodeInv' /\ HwloopInv'
    BY <1>2, <1>3, <1>5 DEF OrderInv, DecodeInv, HwloopInv, Decides
  <1>8. FlushInv'
    <2>1. Op' = Op
      BY <1>2, <1>3 DEF Op
    <2>2. Op \in FlushOps /\ pc_id \in 1 .. Len(prog)
      BY Here DEF FlushesHere, FlushOps
    <2> QED BY <1>2, <1>3, <1>4, <1>5, <2>1, <2>2 DEF FlushInv, Flushes
  <1> QED BY <1>6, <1>7, <1>8 DEF HwLoopsInv

(* An instruction that does not flush counts at the end of a body; jumps   *)
(* are those of program order.                                             *)
LEMMA Counts ==
  ASSUME HwLoopsInv, RulesObeyed, NEW c \in Input, Cycle(c), instr_valid, ~c.irq,
         ~FlushesHere
  PROVE  /\ ~Traps(prog[ref.pc])
         /\ \A l \in Loops : l \in Out(c).dec_cnt <=> IsLast(ref, l)
         /\ ctrl_fsm_cs = "DECODE" => LateJump = {l \in Loops : JumpsAt(ref, l)}
  <1> DEFINE o == Out(c)
  <1>1. /\ ref \in State /\ hwloop = ref.hwloop /\ ref.pc = pc_id
        /\ Op = prog[ref.pc].op /\ SizeRule(ref)
    BY Here
  <1>2. ~Traps(prog[ref.pc])
    BY <1>1 DEF Traps, FlushesHere
  <1>3. \A l \in Loops : /\ hwlp_end_eq_pc(l) /\ counter_gt_1(l) <=> JumpsAt(ref, l)
                         /\ JumpsAt(ref, l) => IsLast(ref, l)
                         /\ IsLast(ref, l) => hwlp_end_eq_pc(l) /\ hwloop[l].count # 0
                         /\ hwlp_end_eq_pc(l) /\ hwloop[l].count # 0 => IsLast(ref, l)
                         /\ IsLast(ref, l) => JumpsAt(ref, l) \/ hwloop[l].count = 1
    BY <1>1, StateType DEF hwlp_end_eq_pc, counter_gt_1, JumpsAt, IsLast
  <1>4. CASE ctrl_fsm_cs = "DECODE"
    <2>1. ~jump_done_q
      BY <1>4 DEF HwLoopsInv, DecodeInv
    <2>2. \A l \in Loops : JumpsAt(ref, l) => is_hwlp_body
      BY <1>1, NearEndOfBody, StateType
         DEF is_hwlp_body, in_range, counter_gt_1, JumpsAt, InBody
    <2>3. LateJump = {l \in Loops : JumpsAt(ref, l)}
      BY <1>3, <2>1, <2>2 DEF LateJump
    <2>4. o.dec_cnt = LateJump \cup {l \in Loops : hwlp_end_eq_pc(l) /\ hwloop[l].count = 1}
      BY <1>4, DecodeOut
    <2>5. \A l \in Loops : l \in o.dec_cnt <=> IsLast(ref, l)
      BY <1>3, <2>3, <2>4
    <2> QED BY <1>2, <2>3, <2>5
  <1>5. CASE ctrl_fsm_cs = "DECODE_HWLOOP"
    <2>1. o.dec_cnt = {l \in Loops : hwlp_end_eq_pc(l) /\ hwloop[l].count # 0}
      BY <1>5, HwloopOut
    <2> QED BY <1>2, <1>3, <1>5, <2>1
  <1> QED BY <1>4, <1>5, Here DEF Decides

(* What the outputs of an instruction that does not flush have in common.  *)
LEMMA GoesOn ==
  ASSUME HwLoopsInv, RulesObeyed, RulesObeyed', NEW c \in Input, Cycle(c), instr_valid,
         ~c.irq, ~FlushesHere, NEW o, o = Out(c)
  PROVE  /\ ~o.halt_if /\ ~o.halt_id /\ ~o.irq /\ o.ns \in {"DECODE", "DECODE_HWLOOP"}
         /\ ctrl_fsm_cs' = o.ns /\ prog' = prog /\ ~illegal_insn_q' /\ mepc' = mepc
         /\ jump_done_q' \in BOOLEAN /\ (jump_done_q' <=> o.jump_done /\ ~c.id_ready)
         /\ hwlp_end_4_id_q' = o.end_4_id
         /\ hwloop' = ref'.hwloop /\ ref' \in State
         /\ \A l \in Loops : ref'.hwloop[l].count < 2^COUNTER_BITS
         /\ ref' = IF c.id_ready THEN Step(prog, ref) ELSE ref
  <1>1. /\ ~o.halt_if /\ ~o.halt_id /\ ~o.irq /\ ~o.save /\ ~o.illegal
        /\ o.ns \in {"DECODE", "DECODE_HWLOOP"}
        /\ (o.jump_done <=> jump_done_q \/ (ctrl_fsm_cs = "DECODE" /\ LateJump # {}))
    <2>1. CASE ctrl_fsm_cs = "DECODE"
      BY <2>1, DecodeOut DEF NextInBody
    <2>2. CASE ctrl_fsm_cs = "DECODE_HWLOOP"
      BY <2>2, HwloopOut
    <2> QED BY <2>1, <2>2, Here DEF Decides
  <1>2. /\ ctrl_fsm_cs' = o.ns /\ prog' = prog /\ ~illegal_insn_q' /\ mepc' = mepc
        /\ hwlp_end_4_id_q' = o.end_4_id
        /\ ref' = IF c.id_ready THEN Step(prog, ref) ELSE ref
    <2>1. Leaves(c, o) <=> c.id_ready
      BY <1>1, Here DEF Leaves, Deciding, Decides
    <2> QED BY <1>1, <2>1, CtrlEdge
  <1>3. jump_done_q' \in BOOLEAN /\ (jump_done_q' <=> o.jump_done /\ ~c.id_ready)
    BY CtrlEdge
  <1>4. CASE c.id_ready
    <2>1. hwloop' = Step(prog, ref).hwloop
      BY <1>1, <1>4, Counts, Here, RegsFollow DEF HwLoopsInv
    <2> QED BY <1>1, <1>2, <1>3, <1>4, <2>1, Goes
  <1>5. CASE ~c.id_ready
    <2>1. hwloop' = hwloop
      BY <1>1, <1>5, RegsStay DEF HwLoopsInv
    <2> QED BY <1>1, <1>2, <1>3, <1>5, <2>1 DEF HwLoopsInv, TypeInv, OrderInv
  <1> QED BY <1>4, <1>5

(* The fetch is at the next instruction, with nothing prepared, and in     *)
(* DECODE_HWLOOP that one is not the last of a body to be repeated.        *)
LEMMA Advances ==
  ASSUME HwLoopsInv, RulesObeyed, RulesObeyed', NEW c \in Input, Cycle(c), instr_valid,
         ~c.irq, ~FlushesHere, NEW o, o = Out(c), c.id_ready,
         ~o.pc_set, ~o.end_4_id, pc_if = ref'.pc, hwlp_addr_q = None,
         o.ns = "DECODE_HWLOOP" => \A l \in Loops : ~JumpsAfter(ref, l)
  PROVE  HwLoopsInv'
  <1>1. /\ ~o.halt_if /\ ~o.halt_id /\ o.ns \in {"DECODE", "DECODE_HWLOOP"}
        /\ ctrl_fsm_cs' = o.ns /\ prog' = prog /\ ~illegal_insn_q' /\ mepc' = mepc
        /\ ~jump_done_q' /\ jump_done_q' \in BOOLEAN /\ ~hwlp_end_4_id_q'
        /\ hwloop' = ref'.hwloop /\ ref' \in State
        /\ \A l \in Loops : ref'.hwloop[l].count < 2^COUNTER_BITS
    BY GoesOn
  <1>2. /\ prog \in Programs /\ Len(prog) \in Nat /\ pc_if \in Nat
    BY HwLoopsAssumption DEF HwLoopsInv, TypeInv
  <1>3. \A l \in Loops : ref'.pc <= Len(prog) /\ JumpsAt(ref', l) => JumpsAfter(ref, l)
    BY Goes, GoesOn
  <1>4. FlushInv'
    BY <1>1 DEF FlushInv, Flushes
  <1>5. CASE IfValid(c, o)
    <2>1. /\ pc_id' = pc_if /\ instr_valid' = TRUE /\ pc_if' = pc_if + 1
          /\ hwlp_addr_q' = None /\ pc_if <= Len(prog)
      BY <1>5, PcEdge DEF IfValid, hwlp_jump
    <2>2. TypeInv'
      BY <1>1, <1>2, <2>1 DEF HwLoopsInv, TypeInv
    <2>3. OrderInv' /\ DecodeInv'
      BY <1>1, <2>1 DEF OrderInv, DecodeInv, Decides
    <2>4. HwloopInv'
      BY <1>1, <1>3, <2>1 DEF HwloopInv, JumpsAt, JumpsAfter
    <2> QED BY <1>4, <2>2, <2>3, <2>4 DEF HwLoopsInv
  <1>6. CASE ~IfValid(c, o)
    <2>1. /\ pc_id' = pc_id /\ instr_valid' = FALSE /\ pc_if' = pc_if
          /\ hwlp_addr_q' = None
      BY <1>6, PcEdge DEF hwlp_jump
    <2>2. TypeInv'
      BY <1>1, <1>2, <2>1 DEF HwLoopsInv, TypeInv
    <2>3. OrderInv' /\ DecodeInv'
      BY <1>1, <2>1 DEF OrderInv, DecodeInv, Decides
    <2>4. HwloopInv'
      BY <1>1, <1>3, <2>1 DEF HwloopInv, JumpsAt, JumpsAfter
    <2> QED BY <1>4, <2>2, <2>3, <2>4 DEF HwLoopsInv
  <1> QED BY <1>5, <1>6

(* In DECODE: behind the instruction in ID nothing is prepared yet.        *)
LEMMA DecodeKeeps ==
  ASSUME HwLoopsInv, RulesObeyed, RulesObeyed', NEW c \in Input, Cycle(c), instr_valid,
         ~c.irq, ctrl_fsm_cs = "DECODE", ~FlushesHere
  PROVE  HwLoopsInv'
  <1> DEFINE o == Out(c)
  <1>1. /\ ~o.halt_if /\ ~o.halt_id /\ o.ns \in {"DECODE", "DECODE_HWLOOP"}
        /\ ctrl_fsm_cs' = o.ns /\ prog' = prog /\ ~illegal_insn_q' /\ mepc' = mepc
        /\ jump_done_q' \in BOOLEAN /\ (jump_done_q' <=> o.jump_done /\ ~c.id_ready)
        /\ hwlp_end_4_id_q' = o.end_4_id
        /\ hwloop' = ref'.hwloop /\ ref' \in State
        /\ \A l \in Loops : ref'.hwloop[l].count < 2^COUNTER_BITS
        /\ ref' = IF c.id_ready THEN Step(prog, ref) ELSE ref
    BY GoesOn
  <1>2. /\ ~o.end_4_id /\ o.ns = (IF is_hwlp_body THEN NextInBody ELSE "DECODE")
        /\ (o.pc_set <=> LateJump # {}) /\ o.pc = hwlp_targ_addr
        /\ (o.jump_done <=> jump_done_q \/ LateJump # {})
    BY DecodeOut
  <1>3. /\ prog \in Programs /\ ref \in State /\ hwloop = ref.hwloop
        /\ ref.pc = pc_id /\ pc_id \in 1 .. Len(prog) /\ Rules(prog, ref)
        /\ SizeRule(ref) /\ EndsRule(ref)
    BY Here
  <1>4. hwlp_addr_q = None /\ pc_if = pc_id + 1 /\ ~jump_done_q
    BY DEF HwLoopsInv, DecodeInv
  <1>5. LateJump = {l \in Loops : JumpsAt(ref, l)} /\ ~Traps(prog[ref.pc])
    BY Counts
  <1>6. o.ns = "DECODE_HWLOOP" => \A l \in Loops : ~JumpsAfter(ref, l)
    BY <1>2, <1>3 DEF NextInBody, hwlp_end_eq_pc_plus4, JumpsAfter
  <1>7. CASE \E l \in Loops : JumpsAt(ref, l)
    <2>1. PICK l \in Loops : JumpsAt(ref, l)
      BY <1>7
    <2>2. o.pc_set /\ hwlp_targ_addr = hwloop[l].start /\ hwloop[l].start \in Nat /\ o.jump_done
      BY <1>2, <1>3, <1>5, <2>1, TargetOfJump, StateType
    <2>3. /\ \A k \in Loops : JumpsAt(ref, k) => k = l
          /\ \A k \in Loops : ~JumpsAfter(ref, k)
          /\ \A k \in Loops : ~hwlp_end_eq_pc_plus4(k)
      <3>1. \A k \in Loops : k # l => ref.hwloop[k].end \notin {ref.pc, ref.pc + 1, ref.pc + 2}
        BY <1>3, <2>1, OthersEndElsewhere
      <3>2. ref.hwloop[l].end # ref.pc + 2
        BY <1>3, <2>1, StateType DEF JumpsAt
      <3> QED BY <1>3, <3>1, <3>2 DEF JumpsAt, JumpsAfter, hwlp_end_eq_pc_plus4
    <2>4. is_hwlp_body
      BY <1>3, <2>1, NearEndOfBody, StateType
         DEF is_hwlp_body, in_range, counter_gt_1, JumpsAt, InBody
    <2>5. o.ns = "DECODE_HWLOOP"
      BY <1>2, <2>3, <2>4 DEF NextInBody
    <2>6. /\ pc_id' = pc_id /\ instr_valid' = (instr_valid /\ ~(c.id_ready \/ o.halt_id))
          /\ pc_if' = hwloop[l].start /\ hwlp_addr_q' = None
      BY <1>2, <2>2, PcEdge
    <2>7. TypeInv'
      BY <1>1, <2>2, <2>6 DEF HwLoopsInv, TypeInv
    <2>8. FlushInv'
      BY <1>1 DEF FlushInv, Flushes
    <2>9. CASE c.id_ready
      <3>1. ~instr_valid' /\ ref'.pc = hwloop[l].start
        BY <1>1, <1>3, <1>5, <2>1, <2>6, <2>9, JumpNow
      <3>2. \A k \in Loops : ref'.pc <= Len(prog) /\ JumpsAt(ref', k) => JumpsAfter(ref, k)
        BY <2>9, Goes, GoesOn
      <3>3. OrderInv' /\ DecodeInv'
        BY <1>1, <2>5, <2>6, <3>1 DEF OrderInv, DecodeInv, Decides
      <3>4. HwloopInv'
        BY <1>1, <2>3, <2>6, <3>1, <3>2 DEF HwloopInv
      <3> QED BY <2>7, <2>8, <3>3, <3>4 DEF HwLoopsInv
    <2>10. CASE ~c.id_ready
      <3>1. instr_valid' = TRUE /\ ref' = ref
        BY <1>1, <2>6, <2>10
      <3>2. OrderInv' /\ DecodeInv'
        BY <1>1, <1>3, <2>5, <2>6, <3>1 DEF OrderInv, DecodeInv, Decides
      <3>3. hwloop' = hwloop
        BY <1>1, <1>3, <3>1
      <3>4. HwloopInv'
        BY <2>1, <2>3, <2>6, <3>1, <3>3 DEF HwloopInv
      <3> QED BY <2>7, <2>8, <3>2, <3>4 DEF HwLoopsInv
    <2> QED BY <2>9, <2>10
  <1>8. CASE \A l \in Loops : ~JumpsAt(ref, l)
    <2>1. ~o.pc_set /\ ~o.jump_done
      BY <1>2, <1>4, <1>5, <1>8
    <2>2. CASE c.id_ready
      <3>1. ref'.pc = pc_if
        BY <1>1, <1>3, <1>4, <1>5, <1>8, <2>2, StepPc
      <3> QED BY <1>2, <1>4, <1>6, <2>1, <2>2, <3>1, Advances
    <2>3. CASE ~c.id_ready
      <3>1. /\ pc_id' = pc_id /\ instr_valid' = TRUE /\ pc_if' = pc_if
            /\ hwlp_addr_q' = None /\ ~jump_done_q' /\ ~hwlp_end_4_id_q'
            /\ ref' = ref /\ hwloop' = hwloop
        BY <1>1, <1>2, <1>3, <1>4, <2>1, <2>3, PcEdge DEF IfValid, hwlp_jump
      <3>2. TypeInv'
        BY <1>1, <3>1 DEF HwLoopsInv, TypeInv
      <3>3. OrderInv' /\ DecodeInv' /\ FlushInv'
        BY <1>1, <1>3, <1>4, <3>1 DEF OrderInv, DecodeInv, FlushInv, Flushes, Decides
      <3>4. HwloopInv'
        BY <1>1, <1>4, <1>6, <1>8, <3>1 DEF HwloopInv
      <3> QED BY <3>2, <3>3, <3>4 DEF HwLoopsInv
    <2> QED BY <2>2, <2>3
  <1> QED BY <1>7, <1>8

(* In DECODE_HWLOOP, one before the last instruction of a body: from the   *)
(* first cycle on, the aligner knows where to go after that one.           *)
LEMMA HwloopPrepares ==
  ASSUME HwLoopsInv, RulesObeyed, RulesObeyed', NEW c \in Input, Cycle(c), instr_valid,
         ~c.irq, ctrl_fsm_cs = "DECODE_HWLOOP", ~FlushesHere,
         NEW l \in Loops, JumpsAfter(ref, l)
  PROVE  HwLoopsInv'
  <1> DEFINE o == Out(c)
  <1>1. /\ ~o.halt_if /\ ~o.halt_id
        /\ ctrl_fsm_cs' = o.ns /\ prog' = prog /\ ~illegal_insn_q' /\ mepc' = mepc
        /\ jump_done_q' \in BOOLEAN /\ (jump_done_q' <=> o.jump_done /\ ~c.id_ready)
        /\ hwlp_end_4_id_q' = o.end_4_id
        /\ hwloop' = ref'.hwloop /\ ref' \in State
        /\ \A k \in Loops : ref'.hwloop[k].count < 2^COUNTER_BITS
        /\ ref' = IF c.id_ready THEN Step(prog, ref) ELSE ref
    BY GoesOn
  <1>2. /\ prog \in Programs /\ ref \in State /\ hwloop = ref.hwloop
        /\ ref.pc = pc_id /\ pc_id \in 1 .. Len(prog) /\ Rules(prog, ref)
        /\ SizeRule(ref) /\ EndsRule(ref) /\ Len(prog) \in Nat
    BY Here, HwLoopsAssumption
  <1>3. \A k \in Loops : k # l =>
          ref.hwloop[k].end \notin {ref.pc + 1, ref.pc + 2, ref.pc + 3}
    BY <1>2, OthersEndElsewhere
  <1>4. /\ \A k \in Loops : ~JumpsAt(ref, k)
        /\ \A k \in Loops : k \in NearEnd <=> k = l
        /\ counter_gt_1(l)
    BY <1>2, <1>3, StateType
       DEF JumpsAt, JumpsAfter, NearEnd, hwlp_end_eq_pc_plus4, counter_gt_1
  <1>5. is_hwlp_body
    BY <1>2, NearEndOfBody, StateType
       DEF is_hwlp_body, in_range, counter_gt_1, JumpsAfter, InBody
  <1>6. /\ ~o.pc_set /\ o.end_4_id /\ o.ns = "DECODE_HWLOOP" /\ o.pc = hwloop[l].start
        /\ o.jump_done = jump_done_q
    <2>1. o.end_4_id
      BY <1>4, HwloopOut DEF NearEnd
    <2>2. o.pc = hwloop[l].start
      BY <1>4, HwloopOut DEF Loops
    <2> QED BY <1>5, <2>1, <2>2, HwloopOut
  <1>7. /\ pc_if = pc_id + 1 /\ ~jump_done_q
        /\ hwlp_addr_q = IF hwlp_end_4_id_q THEN hwloop[l].start ELSE None
        /\ Op \notin {"illegal", "ecall", "csr"}
    BY <1>4 DEF HwLoopsInv, HwloopInv, FlushesHere
  <1>8. hwloop[l].start \in Nat /\ hwloop[l].start # None
    BY <1>2, StateType DEF None
  <1>9. /\ IfValid(c, o) => /\ pc_id' = pc_if /\ instr_valid' = TRUE
                            /\ pc_if' = hwloop[l].start /\ hwlp_addr_q' = None
        /\ ~IfValid(c, o) => /\ pc_id' = pc_id /\ instr_valid' = ~c.id_ready
                             /\ pc_if' = pc_if /\ hwlp_addr_q' = hwloop[l].start
    <2>1. hwlp_jump(o) <=> ~hwlp_end_4_id_q
      BY <1>6 DEF hwlp_jump
    <2>2. ~IfValid(c, o) => instr_valid' = ~c.id_ready
      BY <1>1, PcEdge
    <2> QED BY <1>6, <1>7, <1>8, <2>1, <2>2, PcEdge
  <1>10. TypeInv'
    <2>1. pc_id' \in Nat /\ pc_if' \in Nat /\ instr_valid' \in BOOLEAN
          /\ hwlp_addr_q' \in Nat \cup {None}
      BY <1>8, <1>9 DEF HwLoopsInv, TypeInv
    <2> QED BY <1>1, <1>6, <2>1 DEF HwLoopsInv, TypeInv
  <1>11. DecodeInv' /\ FlushInv'
    BY <1>1, <1>6 DEF DecodeInv, FlushInv, Flushes
  <1>12. CASE c.id_ready
    <2>1. /\ JumpsAt(ref', l) /\ ref'.pc = pc_if
          /\ \A k \in Loops : ref'.pc <= Len(prog) /\ JumpsAt(ref', k) => JumpsAfter(ref, k)
      BY <1>7, <1>12, Goes, GoesOn
    <2>2. hwloop'[l] = hwloop[l]
      BY <1>1, <1>2, <1>12, JumpAhead
    <2>3. \A k \in Loops : JumpsAfter(ref, k) => k = l
      BY <1>2, <1>3 DEF JumpsAfter
    <2>4. ~jump_done_q'
      BY <1>1, <1>12
    <2>5. CASE IfValid(c, o)
      <3>1. /\ pc_id' = pc_if /\ instr_valid' = TRUE /\ pc_if' = hwloop[l].start
            /\ hwlp_addr_q' = None /\ pc_if <= Len(prog)
        BY <1>9, <2>5 DEF IfValid
      <3>2. OrderInv'
        BY <1>1, <1>6, <2>1, <3>1 DEF OrderInv, Decides
      <3>3. SizeRule(ref') /\ EndsRule(ref')
        BY <1>1, <2>1, <3>1 DEF RulesObeyed, Rules
      <3>4. \A k \in Loops : ~JumpsAfter(ref', k)
        <4>1. \A k \in Loops : k # l => ref'.hwloop[k].end # ref'.pc + 2
          BY <1>1, <2>1, <3>3, OthersEndElsewhere
        <4>2. ref'.hwloop[l].end # ref'.pc + 2
          BY <1>1, <2>1, StateType DEF JumpsAt
        <4> QED BY <4>1, <4>2 DEF JumpsAfter
      <3>5. HwloopInv'
        BY <1>1, <1>6, <2>1, <2>2, <2>3, <2>4, <3>1, <3>4 DEF HwloopInv
      <3> QED BY <1>10, <1>11, <3>2, <3>5 DEF HwLoopsInv
    <2>6. CASE ~IfValid(c, o)
      <3>1. /\ pc_id' = pc_id /\ instr_valid' = FALSE /\ pc_if' = pc_if
            /\ hwlp_addr_q' = hwloop[l].start
        BY <1>9, <1>12, <2>6
      <3>2. OrderInv'
        BY <1>1, <1>6, <2>1, <3>1 DEF OrderInv, Decides
      <3>3. HwloopInv'
        BY <1>1, <1>6, <2>1, <2>2, <2>3, <3>1 DEF HwloopInv
      <3> QED BY <1>10, <1>11, <3>2, <3>3 DEF HwLoopsInv
    <2> QED BY <2>5, <2>6
  <1>13. CASE ~c.id_ready
    <2>1. /\ pc_id' = pc_id /\ instr_valid' = TRUE /\ pc_if' = pc_if
          /\ hwlp_addr_q' = hwloop[l].start /\ hwlp_end_4_id_q' = TRUE
          /\ ref' = ref /\ hwloop' = hwloop /\ ~jump_done_q'
      BY <1>1, <1>2, <1>6, <1>7, <1>9, <1>13 DEF IfValid, HwLoopsInv, TypeInv
    <2>2. OrderInv'
      BY <1>1, <1>2, <1>6, <2>1 DEF OrderInv, Decides
    <2>3. \A k \in Loops : JumpsAfter(ref, k) => k = l
      BY <1>2, <1>3 DEF JumpsAfter
    <2>4. Op' = Op
      BY <1>1, <2>1 DEF Op
    <2>5. HwloopInv'
      BY <1>1, <1>4, <1>6, <1>7, <2>1, <2>3, <2>4 DEF HwloopInv
    <2> QED BY <1>10, <1>11, <2>2, <2>5 DEF HwLoopsInv
  <1> QED BY <1>12, <1>13

(* In DECODE_HWLOOP, anywhere else: the fetch is already where it has to   *)
(* go on, at the end of a body too.                                        *)
LEMMA HwloopKeeps ==
  ASSUME HwLoopsInv, RulesObeyed, RulesObeyed', NEW c \in Input, Cycle(c), instr_valid,
         ~c.irq, ctrl_fsm_cs = "DECODE_HWLOOP", ~FlushesHere,
         \A l \in Loops : ~JumpsAfter(ref, l)
  PROVE  HwLoopsInv'
  <1> DEFINE o == Out(c)
  <1>1. /\ ~o.halt_if /\ ~o.halt_id /\ o.ns \in {"DECODE", "DECODE_HWLOOP"}
        /\ ctrl_fsm_cs' = o.ns /\ prog' = prog /\ ~illegal_insn_q' /\ mepc' = mepc
        /\ jump_done_q' \in BOOLEAN /\ (jump_done_q' <=> o.jump_done /\ ~c.id_ready)
        /\ hwlp_end_4_id_q' = o.end_4_id
        /\ hwloop' = ref'.hwloop /\ ref' \in State
        /\ \A k \in Loops : ref'.hwloop[k].count < 2^COUNTER_BITS
        /\ ref' = IF c.id_ready THEN Step(prog, ref) ELSE ref
    BY GoesOn
  <1>2. /\ prog \in Programs /\ ref \in State /\ hwloop = ref.hwloop
        /\ ref.pc = pc_id /\ pc_id \in 1 .. Len(prog) /\ Rules(prog, ref)
        /\ SizeRule(ref) /\ EndsRule(ref)
    BY Here
  <1>3. ~o.pc_set /\ ~o.end_4_id /\ o.jump_done = jump_done_q
    BY <1>2, HwloopOut DEF hwlp_end_eq_pc_plus4, counter_gt_1, JumpsAfter
  <1>4. /\ hwlp_addr_q = None
        /\ \A l \in Loops : JumpsAt(ref, l) => pc_if = hwloop[l].start
        /\ (\A l \in Loops : ~JumpsAt(ref, l)) => pc_if = pc_id + 1 /\ ~jump_done_q
    BY DEF HwLoopsInv, HwloopInv
  <1>5. CASE c.id_ready
    <2>1. ref'.pc = pc_if
      <3>1. CASE \E l \in Loops : JumpsAt(ref, l)
        BY <1>1, <1>2, <1>4, <1>5, <3>1, Counts, JumpNow
      <3>2. CASE \A l \in Loops : ~JumpsAt(ref, l)
        BY <1>1, <1>2, <1>4, <1>5, <3>2, Counts, StepPc
      <3> QED BY <3>1, <3>2
    <2> QED BY <1>3, <1>4, <1>5, <2>1, Advances
  <1>6. CASE ~c.id_ready
    <2>1. /\ pc_id' = pc_id /\ instr_valid' = TRUE /\ pc_if' = pc_if
          /\ hwlp_addr_q' = None /\ ~hwlp_end_4_id_q'
          /\ ref' = ref /\ hwloop' = hwloop
      BY <1>1, <1>2, <1>3, <1>4, <1>6, PcEdge DEF IfValid, hwlp_jump
    <2>2. jump_done_q' => jump_done_q
      BY <1>1, <1>3
    <2>3. TypeInv' /\ FlushInv'
      BY <1>1, <2>1 DEF HwLoopsInv, TypeInv, FlushInv, Flushes
    <2>4. OrderInv'
      BY <1>1, <1>2, <2>1 DEF OrderInv, Decides
    <2>5. HwloopInv'
      BY <1>1, <1>4, <2>1, <2>2 DEF HwLoopsInv, HwloopInv
    <2>6. DecodeInv'
      <3>1. CASE \E l \in Loops : JumpsAt(ref, l)
        <4>1. PICK l \in Loops : JumpsAt(ref, l)
          BY <3>1
        <4>2. ref.hwloop[l].end # ref.pc + 2
          BY <1>2, <4>1, StateType DEF JumpsAt
        <4>3. NearEnd = {}
          BY <1>2, <4>1, <4>2, OthersEndElsewhere DEF NearEnd, hwlp_end_eq_pc_plus4
        <4>4. o.ns = "DECODE_HWLOOP"
          BY <4>3, HwloopOut
        <4> QED BY <1>1, <4>4 DEF DecodeInv
      <3>2. CASE \A l \in Loops : ~JumpsAt(ref, l)
        BY <1>4, <2>1, <2>2, <3>2 DEF DecodeInv
      <3> QED BY <3>1, <3>2
    <2> QED BY <2>3, <2>4, <2>5, <2>6 DEF HwLoopsInv
  <1> QED BY <1>5, <1>6

LEMMA FlushExKeeps ==
  ASSUME HwLoopsInv, RulesObeyed, NEW c \in Input, Cycle(c), ctrl_fsm_cs = "FLUSH_EX"
  PROVE  HwLoopsInv'
  <1> DEFINE o == Out(c)
  <1>1. /\ o.halt_if /\ ~o.pc_set /\ ~o.irq /\ ~o.end_4_id /\ o.jump_done = jump_done_q
        /\ (o.illegal <=> illegal_insn_q)
        /\ o.ns = (IF c.ex_valid THEN "FLUSH_WB" ELSE "FLUSH_EX")
        /\ (o.save <=> c.ex_valid /\ Op \in {"illegal", "ecall"})
    BY FlushExOut
  <1>2. /\ ~instr_valid /\ hwlp_addr_q = None /\ pc_id \in Nat
    BY DEF HwLoopsInv, OrderInv, FlushInv, Flushes, Decides, TypeInv
  <1>3. /\ ctrl_fsm_cs' = o.ns /\ prog' = prog /\ jump_done_q' \in BOOLEAN
        /\ (illegal_insn_q' <=> illegal_insn_q) /\ ref' = ref
        /\ mepc' = IF o.save THEN pc_id + 1 ELSE mepc
    BY <1>1, <1>2, CtrlEdge DEF Leaves, Deciding
  <1>4. /\ pc_id' = pc_id /\ instr_valid' = FALSE /\ pc_if' = pc_if
        /\ hwlp_addr_q' = hwlp_addr_q
    BY <1>1, <1>2, PcEdge DEF hwlp_jump, IfValid
  <1>5. hwloop' = hwloop
    BY <1>2, RegsStay DEF HwLoopsInv
  <1>6. TypeInv'
    <2>1. ctrl_fsm_cs' \in {"FLUSH_EX", "FLUSH_WB"}
      BY <1>1, <1>3
    <2>2. mepc' \in Nat
      BY <1>2, <1>3 DEF HwLoopsInv, TypeInv
    <2> QED BY <1>3, <1>4, <2>1, <2>2 DEF HwLoopsInv, TypeInv
  <1>7. OrderInv' /\ DecodeInv' /\ HwloopInv'
    BY <1>1, <1>3, <1>4, <1>5 DEF HwLoopsInv, OrderInv, DecodeInv, HwloopInv, Decides
  <1>8. FlushInv'
    <2>1. Op' = Op /\ (CsrJumps' <=> CsrJumps) /\ hwlp_targ_addr' = hwlp_targ_addr
      BY <1>3, <1>4, <1>5 DEF Op, CsrJumps, hwlp_end_eq_pc, hwlp_targ_addr, in_range
    <2>2. ctrl_fsm_cs' = "FLUSH_WB" /\ Op \in {"illegal", "ecall"} => mepc' = pc_id + 1
      BY <1>1, <1>3
    <2> QED BY <1>1, <1>3, <1>4, <2>1, <2>2 DEF HwLoopsInv, FlushInv, Flushes
  <1> QED BY <1>6, <1>7, <1>8 DEF HwLoopsInv

LEMMA FlushWbKeeps ==
  ASSUME HwLoopsInv, RulesObeyed, NEW c \in Input, Cycle(c), ctrl_fsm_cs = "FLUSH_WB"
  PROVE  HwLoopsInv'
  <1> DEFINE o == Out(c)
  <1>1. /\ o.halt_if /\ ~o.irq /\ ~o.end_4_id /\ ~o.illegal /\ ~o.save
        /\ o.jump_done = jump_done_q
        /\ o.ns = (IF Op \in {"illegal", "ecall"} THEN "HANDLER" ELSE "DECODE")
        /\ Op \in {"illegal", "ecall"} => o.pc_set /\ o.pc = hwlp_targ_addr
        /\ Op = "csr" => (o.pc_set <=> CsrJumps) /\ o.pc = hwlp_targ_addr
        /\ Op = "fencei" => o.pc_set /\ o.pc = pc_id + 1
    BY FlushWbOut
  <1>2. /\ ~instr_valid /\ hwlp_addr_q = None /\ pc_id \in Nat /\ Op \in FlushOps
        /\ Op # "csr" => ref.pc = pc_id + 1
        /\ Op \in {"illegal", "ecall"} => mepc = pc_id + 1
        /\ Op = "csr" => IF CsrJumps THEN ref.pc = hwlp_targ_addr
                         ELSE pc_if = pc_id + 1 /\ ref.pc = pc_id + 1
    BY DEF HwLoopsInv, OrderInv, FlushInv, Flushes, Decides, TypeInv
  <1>3. /\ ctrl_fsm_cs' = o.ns /\ prog' = prog /\ jump_done_q' \in BOOLEAN
        /\ ~illegal_insn_q' /\ ref' = ref /\ mepc' = mepc
    BY <1>1, <1>2, CtrlEdge DEF Leaves, Deciding
  <1>4. /\ pc_id' = pc_id /\ instr_valid' = FALSE /\ hwlp_addr_q' = None
        /\ pc_if' = IF o.pc_set THEN o.pc ELSE pc_if
    BY <1>1, <1>2, PcEdge DEF hwlp_jump, IfValid
  <1>5. hwloop' = hwloop
    BY <1>2, RegsStay DEF HwLoopsInv
  <1>6. TypeInv'
    <2>1. pc_if' \in Nat
      BY <1>1, <1>2, <1>4, TargetType DEF HwLoopsInv, TypeInv, FlushOps
    <2> QED BY <1>1, <1>3, <1>4, <2>1 DEF HwLoopsInv, TypeInv
  <1>7. OrderInv'
    BY <1>1, <1>2, <1>3, <1>4, <1>5 DEF HwLoopsInv, OrderInv, Decides, FlushOps
  <1>8. DecodeInv' /\ HwloopInv' /\ FlushInv'
    BY <1>1, <1>3, <1>4 DEF DecodeInv, HwloopInv, FlushInv, Flushes
  <1> QED BY <1>6, <1>7, <1>8 DEF HwLoopsInv

LEMMA ReturnKeeps ==
  ASSUME HwLoopsInv, Return
  PROVE  HwLoopsInv'
  <1>1. /\ ctrl_fsm_cs = "HANDLER" /\ ctrl_fsm_cs' = "DECODE" /\ pc_if' = mepc
        /\ prog' = prog /\ pc_id' = pc_id /\ instr_valid' = instr_valid
        /\ hwlp_addr_q' = hwlp_addr_q /\ hwloop' = hwloop /\ jump_done_q' = jump_done_q
        /\ illegal_insn_q' = illegal_insn_q /\ mepc' = mepc /\ ref' = ref
    BY DEF Return
  <1>2. ~instr_valid /\ ~illegal_insn_q /\ hwlp_addr_q = None /\ mepc = ref.pc
    BY <1>1 DEF HwLoopsInv, OrderInv, FlushInv, Flushes, Decides
  <1>3. TypeInv'
    BY <1>1 DEF HwLoopsInv, TypeInv
  <1>4. OrderInv'
    BY <1>1, <1>2 DEF HwLoopsInv, OrderInv, Decides
  <1>5. DecodeInv' /\ HwloopInv' /\ FlushInv'
    BY <1>1, <1>2 DEF DecodeInv, HwloopInv, FlushInv, Flushes
  <1> QED BY <1>3, <1>4, <1>5 DEF HwLoopsInv

LEMMA StutterKeeps ==
  ASSUME HwLoopsInv, UNCHANGED vars
  PROVE  HwLoopsInv'
  BY DEF vars, HwLoopsInv, TypeInv, OrderInv, DecodeInv, HwloopInv, FlushInv,
         Decides, Flushes, Op, CsrJumps, hwlp_end_eq_pc, hwlp_targ_addr, in_range,
         JumpsAt, JumpsAfter

-----------------------------------------------------------------------------
(* The theorems                                                            *)

(* Every step keeps the invariant, as long as the program obeys the rules. *)
LEMMA NextInv ==
  ASSUME HwLoopsInv, RulesObeyed, RulesObeyed', [Next]_vars
  PROVE  HwLoopsInv'
  <1>1. ASSUME NEW c \in Input, Cycle(c) PROVE HwLoopsInv'
    <2>1. CASE Decides /\ ~instr_valid
      BY <1>1, <2>1, IdleKeeps
    <2>2. CASE instr_valid
      <3>1. CASE c.irq
        BY <1>1, <2>2, <3>1, IrqKeeps
      <3>2. CASE ~c.irq /\ FlushesHere
        BY <1>1, <2>2, <3>2, FlushWaits, FlushLeaves
      <3>3. CASE ~c.irq /\ ~FlushesHere /\ ctrl_fsm_cs = "DECODE"
        BY <1>1, <2>2, <3>3, DecodeKeeps
      <3>4. CASE ~c.irq /\ ~FlushesHere /\ ctrl_fsm_cs = "DECODE_HWLOOP"
        BY <1>1, <2>2, <3>4, HwloopPrepares, HwloopKeeps
      <3> QED BY <2>2, <3>1, <3>2, <3>3, <3>4, Here DEF Decides
    <2>3. CASE ctrl_fsm_cs = "FLUSH_EX"
      BY <1>1, <2>3, FlushExKeeps
    <2>4. CASE ctrl_fsm_cs = "FLUSH_WB"
      BY <1>1, <2>4, FlushWbKeeps
    <2>5. ctrl_fsm_cs # "HANDLER"
      BY <1>1 DEF Cycle
    <2> QED BY <2>1, <2>2, <2>3, <2>4, <2>5 DEF HwLoopsInv, TypeInv, Decides
  <1>2. CASE Return
    BY <1>2, ReturnKeeps
  <1>3. CASE UNCHANGED vars
    BY <1>3, StutterKeeps
  <1> QED BY <1>1, <1>2, <1>3 DEF Next

(* A jump is only prepared one before the last instruction of a body to be *)
(* repeated, and there the fetch is at that last one.                      *)
LEMMA JumpIsLegal ==
  ASSUME HwLoopsInv, RulesObeyed
  PROVE  LoopJumpLegal
  <1> SUFFICES ASSUME ctrl_fsm_cs = "DECODE_HWLOOP", instr_valid,
                      NEW c \in Input, hwlp_jump(Out(c))
               PROVE  hwlp_addr_q = None /\ pc_if = pc_id + 1
    BY DEF LoopJumpLegal
  <1> DEFINE o == Out(c)
  <1>1. o.end_4_id /\ ~hwlp_end_4_id_q
    BY DEF hwlp_jump
  <1>2. ~c.irq /\ ~FlushesHere
    BY <1>1, IrqOut, FlushOut, Here
  <1>3. PICK l \in Loops : JumpsAfter(ref, l)
    <2>1. \E l \in Loops : hwlp_end_eq_pc_plus4(l) /\ counter_gt_1(l)
      BY <1>1, <1>2, HwloopOut
    <2> QED BY <2>1, Here DEF hwlp_end_eq_pc_plus4, counter_gt_1, JumpsAfter
  <1> QED BY <1>1, <1>3 DEF HwLoopsInv, HwloopInv

(* Whatever is interrupted, flushed or stalled, a program that obeys the   *)
(* rules of the manual is executed in its order, and the loop registers    *)
(* count with it: ID holds the next instruction of the machine Step.       *)
THEOREM ExecutesInProgramOrder == Spec /\ []RulesObeyed => []ProgramOrder
  <1>1. Init => HwLoopsInv
    BY InitInv
  <1>2. HwLoopsInv /\ RulesObeyed /\ RulesObeyed' /\ [Next]_vars => HwLoopsInv'
    BY NextInv
  <1>3. HwLoopsInv => ProgramOrder
    BY DEF HwLoopsInv, OrderInv, ProgramOrder
  <1> QED BY <1>1, <1>2, <1>3, PTL DEF Spec

(* The prefetcher and the aligner are never told to jump before HWLP_END   *)
(* is the next instruction they hand over, nor twice for the same jump,    *)
(* however long the instruction before it is stalled.                      *)
THEOREM LoopJumpsOnceAndInTime == Spec /\ []RulesObeyed => []LoopJumpLegal
  <1>1. Init => HwLoopsInv
    BY InitInv
  <1>2. HwLoopsInv /\ RulesObeyed /\ RulesObeyed' /\ [Next]_vars => HwLoopsInv'
    BY NextInv
  <1>3. HwLoopsInv /\ RulesObeyed => LoopJumpLegal
    BY JumpIsLegal
  <1> QED BY <1>1, <1>2, <1>3, PTL DEF Spec

(* docs/source/corev_hw_loop.rst:134 holds of the code for a program that  *)
(* also obeys CsrRule: a count of 0 stays until a loop instruction writes  *)
(* it.                                                                     *)
THEOREM EnabledOnlyByProgram == Spec /\ []RulesObeyed => EnabledByProgram
  <1> DEFINE Enables ==
        \A l \in Loops : hwloop[l].count = 0 /\ hwloop'[l].count # 0 =>
                           WritesLoop(prog[pc_id]) /\ prog[pc_id].loop = l
  <1>1. Init => HwLoopsInv
    BY InitInv
  <1>2. HwLoopsInv /\ RulesObeyed /\ RulesObeyed' /\ [Next]_vars => HwLoopsInv'
    BY NextInv
  <1>3. ASSUME HwLoopsInv, HwLoopsInv', RulesObeyed, [Next]_vars
        PROVE  [Enables]_vars
    <2>1. CASE UNCHANGED vars
      BY <2>1
    <2>2. CASE Return
      BY <2>2 DEF Return
    <2>3. ASSUME NEW c \in Input, Cycle(c) PROVE Enables
      <3>1. CASE ref' = ref
        BY <1>3, <3>1 DEF HwLoopsInv, OrderInv
      <3>2. CASE ref' = Step(prog, ref) /\ instr_valid
        <4>1. /\ prog \in Programs /\ ref \in State /\ hwloop = ref.hwloop
              /\ ref.pc = pc_id /\ ref.pc \in 1 .. Len(prog)
          BY <1>3, <3>2, Here
        <4>2. hwloop' = Step(prog, ref).hwloop
          BY <1>3, <3>2 DEF HwLoopsInv, OrderInv
        <4>3. CASE Traps(prog[ref.pc])
          BY <4>1, <4>2, <4>3, StepTrap
        <4>4. CASE ~Traps(prog[ref.pc])
          <5> SUFFICES ASSUME NEW l \in Loops, hwloop[l].count = 0,
                              ~(WritesLoop(prog[pc_id]) /\ prog[pc_id].loop = l)
                       PROVE  hwloop'[l].count = 0
            OBVIOUS
          <5>1. ~IsLast(ref, l)
            BY <4>1 DEF IsLast
          <5>2. hwloop'[l] = hwloop[l]
            BY <4>1, <4>2, <4>4, <5>1, StepRegs
          <5> QED BY <5>2
        <4> QED BY <4>3, <4>4
      <3>3. ref' = ref \/ (ref' = Step(prog, ref) /\ instr_valid)
        BY <2>3, CtrlEdge DEF Leaves, Deciding
      <3> QED BY <3>1, <3>2, <3>3
    <2> QED BY <1>3, <2>1, <2>2, <2>3 DEF Next
  <1>4. HwLoopsInv /\ HwLoopsInv' /\ RulesObeyed /\ [Next]_vars => [Enables]_vars
    BY <1>3
  <1> HIDE DEF Enables
  <1>5. Spec /\ []RulesObeyed => [][Enables]_vars
    BY <1>1, <1>2, <1>4, PTL DEF Spec
  <1> QED BY <1>5 DEF EnabledByProgram, Enables

(* The rules can be looked up in the program alone: if all programs obey   *)
(* them when executed one instruction after the other, they do so on the   *)
(* core, and so the core executes them in order and jumps in time.         *)
Obedient == \A p \in Programs : \E S : Obeys(p, S)

Executed == CHOOSE S : Obeys(prog, S)

THEOREM ObedientProgramsInOrder ==
  ASSUME Obedient
  PROVE  Spec => []ProgramOrder /\ []LoopJumpLegal
  <1> DEFINE InCourse == prog \in Programs /\ ref \in Executed
  <1>1. ASSUME prog \in Programs PROVE Obeys(prog, Executed)
    BY <1>1 DEF Obedient, Executed
  <1>2. Init => InCourse
    BY <1>1 DEF Init, Obeys
  <1>3. InCourse /\ [Next]_vars => InCourse'
    <2> SUFFICES ASSUME InCourse, [Next]_vars PROVE InCourse'
      OBVIOUS
    <2>1. prog' = prog /\ (ref' = ref \/ ref' = Step(prog, ref))
      <3>1. CASE \E c \in Input : Cycle(c)
        BY <3>1, CtrlEdge
      <3>2. CASE Return \/ UNCHANGED vars
        BY <3>2 DEF Return, vars
      <3> QED BY <3>1, <3>2 DEF Next
    <2>2. Executed' = Executed
      BY <2>1 DEF Executed
    <2> QED BY <1>1, <2>1, <2>2 DEF Obeys
  <1>4. InCourse => RulesObeyed
    BY <1>1 DEF Obeys, RulesObeyed
  <1> HIDE DEF InCourse
  <1>5. Spec => []RulesObeyed
    BY <1>2, <1>3, <1>4, PTL DEF Spec
  <1> QED BY <1>5, ExecutesInProgramOrder, LoopJumpsOnceAndInTime, PTL
=============================================================================
