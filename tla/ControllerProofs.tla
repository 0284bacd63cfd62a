--------------------------- MODULE ControllerProofs ---------------------------
(***************************************************************************)
(* Theorems about Controller.tla, for every program, every memory size,    *)
(* every placement of boot, trap and debug code, and both builds.          *)
(***************************************************************************)
EXTENDS Controller, TLAPS

USE IsaAssumption, ControllerAssumption

-----------------------------------------------------------------------------
(* Types *)

Causes == {"ebreak", "trigger", "haltreq", "step"}

(* The outputs an action may give to Edge. *)
Outputs ==
  [ns : CtrlStates, set : PC \cup {NoPC}, halt_if : BOOLEAN, halt_id : BOOLEAN,
   decoding : BOOLEAN, jump_done : BOOLEAN, illegal : BOOLEAN,
   debug_mode : BOOLEAN, entry : BOOLEAN, wakeup : BOOLEAN,
   save : {"no", "trap", "debug"}, epc : PC, cause : Causes, restore : BOOLEAN]

LEMMA Names ==
  /\ {"RESET", "BOOT_SET", "WAIT_SLEEP", "SLEEP", "FIRST_FETCH", "DECODE"} \subseteq CtrlStates
  /\ {"FLUSH_EX", "FLUSH_WB", "XRET_JUMP", "IRQ_FLUSH_ELW", "ELW_EXE"} \subseteq CtrlStates
  /\ {"DBG_TAKEN_ID", "DBG_TAKEN_IF", "DBG_FLUSH", "DBG_WAIT_BRANCH"} \subseteq CtrlStates
  /\ {"ebreak", "trigger", "haltreq", "step"} \subseteq Causes
  BY DEF CtrlStates, Causes

LEMMA AddressTypes ==
  /\ 0 \in PC /\ NoPC \notin PC /\ NotTaken \notin PC
  /\ {BootPC, ExcPC, IrqPC, DbgPC, DbgExcPC} \subseteq PC
  /\ \A p \in PC : NextPC(p) \in PC
  BY DEF PC, NoPC, NotTaken, NextPC

LEMMA CsrTypes ==
  ASSUME NEW v, NEW cause \in {"none"} \cup Causes
  PROVE  MStatusOf(v) \in MStatus /\ DCsrOf(v, cause) \in DCsr /\ Bit(v, 0) \in BOOLEAN
  BY DEF MStatusOf, DCsrOf, MStatus, DCsr, Bit, Causes

LEMMA InstrTypes ==
  ASSUME NEW i \in InstrType
  PROVE  /\ i = [op |-> i.op, arg |-> i.arg]
         /\ i.op \in Ops /\ i.arg \in Nat
         /\ i.op \in {"jump", "branch", "csr_mepc", "csr_dpc"} => i.arg \in PC
  BY DEF InstrType

LEMMA ExTypes ==
  ASSUME TypeOK
  PROVE  /\ ex.op \in {"csr_mepc", "csr_dpc"} => ex.arg \in PC
         /\ BranchTaken => ex.arg \in PC
         /\ Op = "jump" => instr_id.arg \in PC
  BY InstrTypes DEF TypeOK, BranchTaken, Op, Bubble

LEMMA InputTypes ==
  ASSUME NEW c \in Input
  PROVE  /\ c.debug_req \in BOOLEAN /\ c.irq \in BOOLEAN /\ c.fetch \in BOOLEAN
         /\ c.fetch_enable \in BOOLEAN /\ c.jr_stall \in BOOLEAN /\ c.ex_valid \in BOOLEAN
         /\ c.stall \in {"no", "ex", "id"}
         /\ ex = Bubble => c.stall # "id"
         /\ ex.op = "branch" => c.stall # "ex"
         /\ IdReady(c) => ExReady(c)
         /\ [c EXCEPT !.fetch = FALSE] \in Input
  <1>1. /\ c.debug_req \in BOOLEAN /\ c.irq \in BOOLEAN /\ c.fetch \in BOOLEAN
        /\ c.fetch_enable \in BOOLEAN /\ c.jr_stall \in BOOLEAN /\ c.ex_valid \in BOOLEAN
    BY DEF Input
  <1>2. c.stall \in Stall
    BY DEF Input
  <1>3. /\ c.stall \in {"no", "ex", "id"}
        /\ ex = Bubble => c.stall # "id"
        /\ ex.op = "branch" => c.stall # "ex"
    BY <1>2 DEF Stall, Bubble
  <1>4. IdReady(c) => ExReady(c)
    BY DEF IdReady, ExReady
  <1>5. [c EXCEPT !.fetch = FALSE] \in Input
    BY DEF Input
  <1> QED
    BY <1>1, <1>3, <1>4, <1>5

(* Whatever outputs an action chooses, the registers keep their types. *)
LEMMA EdgeTypes ==
  ASSUME TypeOK, NEW c \in Input, NEW o \in Outputs, Edge(c, o), DebugReqEdge(c),
         UNCHANGED COREV_CLUSTER
  PROVE  TypeOK'
  <1>1. /\ ctrl_fsm_cs' \in CtrlStates
        /\ {jump_done_q', illegal_insn_q', debug_mode_q', debug_req_entry_q',
            debug_force_wakeup_q', irq_q'} \subseteq BOOLEAN
    BY InputTypes DEF Edge, Outputs
  <1>2. debug_fsm_cs' \in {"HAVERESET", "RUNNING", "HALTED"}
    BY DEF Edge, DebugFsmEdge, TypeOK
  <1>3. /\ instr_valid_id' \in BOOLEAN /\ {pc_if', pc_id'} \subseteq PC
        /\ instr_id' \in InstrType \cup {Bubble}
    <2>1. pc_if \in PC /\ pc_id \in PC /\ instr_id \in InstrType \cup {Bubble} /\ FetchEdge(c, o)
      BY DEF TypeOK, Edge
    <2>2. Fetchable[pc_if] \subseteq InstrType
      BY <2>1
    <2>3. instr_valid_id' \in BOOLEAN
      BY <2>1 DEF FetchEdge
    <2>4. pc_if' \in PC
      BY <2>1, AddressTypes DEF FetchEdge, Outputs
    <2>5. pc_id' \in PC /\ instr_id' \in InstrType \cup {Bubble}
      BY <2>1, <2>2 DEF FetchEdge
    <2> QED
      BY <2>3, <2>4, <2>5
  <1>4. /\ effects' \in BOOLEAN
        /\ ex' \in InstrType \cup {Bubble, [op |-> "branch", arg |-> NotTaken]}
    <2>1. ExOf(instr_id) \in InstrType \cup {Bubble}
      BY DEF ExOf, TypeOK
    <2>2. Op = "branch" => [instr_id EXCEPT !.arg = NotTaken] = [op |-> "branch", arg |-> NotTaken]
      BY InstrTypes DEF Op, TypeOK, Bubble
    <2> QED
      BY <2>1, <2>2 DEF Edge, IssueEdge, TypeOK
  <1>5. /\ mstatus_q' \in MStatus /\ dcsr_q' \in DCsr
        /\ {mepc_q', depc_q'} \subseteq PC
        /\ {mie_q', tmatch_control_exec_q'} \subseteq BOOLEAN
    <2>1. mstatus_q' \in MStatus
      BY CsrTypes DEF Edge, CsrEdge, TypeOK, MStatus
    <2>2. dcsr_q' \in DCsr
      BY CsrTypes DEF Edge, CsrEdge, DcsrWritten, TypeOK, DCsr, Outputs, Causes
    <2>3. {mepc_q', depc_q'} \subseteq PC
      BY ExTypes DEF Edge, CsrEdge, TypeOK, Outputs
    <2>4. {mie_q', tmatch_control_exec_q'} \subseteq BOOLEAN
      BY CsrTypes DEF Edge, CsrEdge, TypeOK, mie_bypass
    <2> QED BY <2>1, <2>2, <2>3, <2>4
  <1>6. debug_req_q' \in BOOLEAN /\ COREV_CLUSTER' \in Clusters
    BY InputTypes DEF DebugReqEdge, TypeOK
  <1> QED
    BY <1>1, <1>2, <1>3, <1>4, <1>5, <1>6 DEF TypeOK

-----------------------------------------------------------------------------
(* Which outputs go together *)

(* States in which nothing is left in EX. *)
Drained == {"RESET", "BOOT_SET", "WAIT_SLEEP", "SLEEP", "FIRST_FETCH", "FLUSH_WB",
            "XRET_JUMP", "IRQ_FLUSH_ELW"}

(* Before the first instruction. *)
Starting == {"RESET", "BOOT_SET", "DBG_TAKEN_IF"}

(* States in which ID may hold an instruction. *)
Emptying == {"DECODE", "DBG_FLUSH"}

(* DECODE is left with nothing fetched, and ID is empty then or after     *)
(* DBG_FLUSH; a drained state is reached only when EX is done;             *)
(* instructions are issued in DECODE alone, not behind a taken branch, and *)
(* a CSR access that flushes the pipeline does not stay there; and the way *)
(* out of reset.                                                           *)
Regular(c, o) ==
  /\ o.ns # "DECODE" => o.halt_if \/ o.set # NoPC \/ ~c.fetch
  /\ o.halt_id => o.halt_if
  /\ ctrl_fsm_cs = "DECODE" /\ o.ns \notin Emptying => IdReady(c) \/ o.halt_id
  /\ ctrl_fsm_cs = "DBG_FLUSH" => o.halt_id
  /\ o.ns \in Drained => ctrl_fsm_cs \in Drained \/ (o.halt_id /\ ExReady(c))
  /\ o.decoding => ctrl_fsm_cs = "DECODE" /\ ~BranchTaken
  /\ o.decoding /\ IdReady(c) /\ csr_status /\ ~illegal_insn => o.ns # "DECODE"
  /\ ctrl_fsm_cs = "RESET" => o.ns \in {"RESET", "BOOT_SET"}
  /\ ctrl_fsm_cs = "BOOT_SET" => /\ o.ns \in {"DBG_TAKEN_IF", "FIRST_FETCH"}
                                 /\ debug_req_q => o.ns = "DBG_TAKEN_IF"
  /\ ctrl_fsm_cs = "DBG_TAKEN_IF" => o.debug_mode
  /\ ctrl_fsm_cs \in Starting => ~o.restore /\ o.save # "trap"

(* A cycle is an edge with regular outputs. *)
RegularEdge(c) ==
  \E d \in Input, o \in Outputs : d.debug_req = c.debug_req /\ Edge(d, o) /\ Regular(d, o)

LEMMA DefaultType ==
  ASSUME TypeOK
  PROVE  /\ Default \in Outputs /\ Halted \in Outputs /\ Decoding \in Outputs
         /\ \A epc \in PC : Interrupted(epc) \in Outputs
  <1>1. Default \in Outputs
    BY AddressTypes, Names DEF Default, Outputs, TypeOK
  <1>2. Halted \in Outputs /\ Decoding \in Outputs
    BY <1>1 DEF Halted, Decoding, Outputs
  <1>3. \A epc \in PC : Interrupted(epc) \in Outputs
    BY <1>1, AddressTypes, Names DEF Interrupted, Outputs
  <1> QED
    BY <1>1, <1>2, <1>3

LEMMA FlushedFacts ==
  ASSUME TypeOK, NEW c, NEW ns \in CtrlStates
  PROVE  LET o == Flushed(c, ns) IN
         /\ o \in Outputs /\ o.ns = IF IdReady(c) THEN ns ELSE "DECODE"
         /\ o.decoding /\ o.halt_if /\ ~o.halt_id /\ o.save = "no" /\ ~o.restore
  <1>1. \A o \in Outputs :
          [o EXCEPT !.halt_if = TRUE, !.ns = IF IdReady(c) THEN ns ELSE "DECODE"] \in Outputs
    BY Names DEF Outputs
  <1>2. Flushed(c, ns) \in Outputs
    BY <1>1, DefaultType DEF Flushed
  <1> QED
    BY <1>2 DEF Flushed, Decoding, Default

LEMMA DecodingFacts ==
  ASSUME TypeOK, ctrl_fsm_cs = "DECODE"
  PROVE  /\ Decoding \in Outputs /\ Decoding.ns = "DECODE"
         /\ Decoding.decoding /\ Decoding.save = "no"
         /\ ~Decoding.halt_id /\ ~Decoding.restore
  BY DefaultType DEF Decoding, Default

(* What an instruction may ask for. *)
DecodeOk(c, o) ==
  /\ o \in Outputs
  /\ o.decoding /\ ~o.halt_id /\ o.save = "no" /\ ~o.restore
  /\ o.ns \in {"DECODE", "DBG_FLUSH", "FLUSH_EX", "ELW_EXE", "DBG_WAIT_BRANCH"}
  /\ o.ns # "DECODE" => o.halt_if
  /\ o.ns \notin Emptying => IdReady(c)
  /\ csr_status /\ ~illegal_insn /\ IdReady(c) => o.ns # "DECODE"

LEMMA DecodeOutFacts ==
  ASSUME TypeOK, ctrl_fsm_cs = "DECODE", NEW c \in Input
  PROVE  DecodeOk(c, DecodeOut(c))
  <1> DEFINE o == DecodeOut(c)
             d == Decoding
  <1>a. /\ d \in Outputs /\ d.ns = "DECODE" /\ d.decoding /\ d.save = "no"
        /\ ~d.halt_id /\ ~d.restore
    BY DecodingFacts
  <1>1. CASE illegal_insn
    <2> DEFINE f == Flushed(c, "FLUSH_EX")
    <2>1. o = [f EXCEPT !.illegal = TRUE]
      BY <1>1 DEF DecodeOut
    <2>2. /\ f \in Outputs /\ f.ns = IF IdReady(c) THEN "FLUSH_EX" ELSE "DECODE"
          /\ f.decoding /\ f.halt_if /\ ~f.halt_id /\ f.save = "no" /\ ~f.restore
      BY FlushedFacts, Names
    <2> HIDE DEF f
    <2>3. o \in Outputs
      BY <2>1, <2>2 DEF Outputs
    <2>4. /\ o.ns = f.ns /\ o.decoding = f.decoding /\ o.halt_if = f.halt_if
          /\ o.halt_id = f.halt_id /\ o.save = f.save /\ o.restore = f.restore
      BY <2>1, <2>2 DEF Outputs
    <2> HIDE DEF o
    <2>5. DecodeOk(c, o)
      BY <2>2, <2>3, <2>4, <1>1 DEF DecodeOk, Emptying
    <2> QED BY <2>5 DEF o
  <1>2. CASE ~illegal_insn /\ Op = "jump" /\ ~c.jr_stall /\ ~jump_done_q
    <2>1. o = [d EXCEPT !.set = instr_id.arg, !.jump_done = TRUE] /\ ~csr_status
      BY <1>2 DEF DecodeOut, csr_status
    <2>2. instr_id.arg \in PC
      BY <1>2, ExTypes
    <2> HIDE DEF d
    <2>3. o \in Outputs
      BY <1>a, <2>1, <2>2 DEF Outputs
    <2>4. /\ o.ns = d.ns /\ o.decoding = d.decoding
          /\ o.halt_id = d.halt_id /\ o.save = d.save /\ o.restore = d.restore
      BY <2>1, <1>a DEF Outputs
    <2> HIDE DEF o
    <2>5. DecodeOk(c, o)
      BY <1>a, <2>1, <2>3, <2>4 DEF DecodeOk, Emptying
    <2> QED BY <2>5 DEF o
  <1>3. CASE ~illegal_insn /\ Op = "ebreak" /\ (debug_mode_q \/ ebrk_force)
    <2>1. o = [d EXCEPT !.halt_if = TRUE, !.ns = "DBG_FLUSH"] /\ ~csr_status
      BY <1>3 DEF DecodeOut, csr_status
    <2> HIDE DEF d
    <2>2. o \in Outputs
      BY <1>a, <2>1, Names DEF Outputs
    <2>3. /\ o.ns = "DBG_FLUSH" /\ o.decoding = d.decoding /\ o.halt_if
          /\ o.halt_id = d.halt_id /\ o.save = d.save /\ o.restore = d.restore
      BY <2>1, <1>a DEF Outputs
    <2> HIDE DEF o
    <2>4. DecodeOk(c, o)
      BY <1>a, <2>1, <2>2, <2>3 DEF DecodeOk, Emptying
    <2> QED BY <2>4 DEF o
  <1>4. ASSUME NEW ns \in {"FLUSH_EX", "ELW_EXE"}, o = Flushed(c, ns)
        PROVE  DecodeOk(c, o)
    <2> DEFINE f == Flushed(c, ns)
    <2>1. /\ f \in Outputs /\ f.ns = IF IdReady(c) THEN ns ELSE "DECODE"
          /\ f.decoding /\ f.halt_if /\ ~f.halt_id /\ f.save = "no" /\ ~f.restore
      BY <1>4, FlushedFacts, Names
    <2> HIDE DEF f
    <2>2. DecodeOk(c, f)
      BY <2>1 DEF DecodeOk, Emptying
    <2> QED BY <1>4, <2>2 DEF f
  <1>5. CASE o = Decoding /\ ~csr_status
    <2> HIDE DEF d
    <2>1. DecodeOk(c, d)
      BY <1>5, <1>a DEF DecodeOk, Emptying
    <2> QED BY <1>5, <2>1 DEF d
  <1>6. \/ illegal_insn
        \/ ~illegal_insn /\ Op = "jump" /\ ~c.jr_stall /\ ~jump_done_q
        \/ ~illegal_insn /\ Op = "ebreak" /\ (debug_mode_q \/ ebrk_force)
        \/ o = Flushed(c, "FLUSH_EX") \/ o = Flushed(c, "ELW_EXE")
        \/ o = Decoding /\ ~csr_status
    <2>1. Op = "jump" => ~csr_status
      BY DEF csr_status
    <2> QED BY <2>1 DEF DecodeOut
  <1> QED
    BY <1>1, <1>2, <1>3, <1>4, <1>5, <1>6

LEMMA SingleStepOutFacts ==
  ASSUME ctrl_fsm_cs = "DECODE", NEW c \in Input, NEW o, DecodeOk(c, o)
  PROVE  DecodeOk(c, SingleStepOut(c, o))
  <1> DEFINE ns == IF ~IdReady(c) THEN o.ns
                   ELSE IF illegal_insn \/ Op \in {"ecall", "mret"} \/ (Op = "ebreak" /\ ~ebrk_force)
                   THEN "FLUSH_EX"
                   ELSE IF Op = "branch" THEN "DBG_WAIT_BRANCH" ELSE "DBG_FLUSH"
             s == SingleStepOut(c, o)
  <1>1. s = [o EXCEPT !.halt_if = TRUE, !.ns = ns] /\ o \in Outputs
    BY DEF SingleStepOut, DecodeOk
  <1>2. /\ ns \in {"DECODE", "DBG_FLUSH", "FLUSH_EX", "ELW_EXE", "DBG_WAIT_BRANCH"}
        /\ ns \notin Emptying => IdReady(c)
        /\ IdReady(c) => ns # "DECODE"
    BY DEF DecodeOk
  <1>3. ns \in CtrlStates
    BY <1>2, Names
  <1> HIDE DEF ns
  <1>4. s \in Outputs
    BY <1>1, <1>3 DEF Outputs
  <1>5. /\ s.ns = ns /\ s.decoding = o.decoding /\ s.halt_if
        /\ s.halt_id = o.halt_id /\ s.save = o.save /\ s.restore = o.restore
    BY <1>1 DEF Outputs
  <1> HIDE DEF s
  <1>6. DecodeOk(c, s)
    BY <1>2, <1>4, <1>5 DEF DecodeOk
  <1> QED
    BY <1>6 DEF s

LEMMA ResetRegular ==
  ASSUME TypeOK, NEW c \in Input, Reset(c)
  PROVE  RegularEdge(c)
  <1> DEFINE d == [c EXCEPT !.fetch = FALSE]
             o == [Default EXCEPT !.ns = IF c.fetch_enable THEN "BOOT_SET" ELSE "RESET"]
  <1>1. d \in Input /\ d.debug_req = c.debug_req /\ ~d.fetch
    BY InputTypes DEF Input
  <1>2. o \in Outputs
    BY DefaultType, Names DEF Outputs
  <1>3. /\ o.ns \in {"BOOT_SET", "RESET"} /\ ~o.halt_id /\ ~o.decoding
        /\ ~o.restore /\ o.save = "no"
    BY DEF Default
  <1>4. Edge(d, o) /\ ctrl_fsm_cs = "RESET"
    BY DEF Reset
  <1> HIDE DEF d, o
  <1>5. Regular(d, o)
    BY <1>1, <1>3, <1>4 DEF Regular, Drained, Emptying
  <1> QED
    BY <1>1, <1>2, <1>4, <1>5 DEF RegularEdge

LEMMA BootSetRegular ==
  ASSUME TypeOK, NEW c \in Input, BootSet(c)
  PROVE  RegularEdge(c)
  <1> DEFINE ns == IF debug_req_pending(c) THEN "DBG_TAKEN_IF" ELSE "FIRST_FETCH"
             w  == debug_req_pending(c) \/ debug_force_wakeup_q
             o  == [Default EXCEPT !.set = BootPC, !.ns = ns, !.wakeup = w]
  <1>1. Edge(c, o) /\ ctrl_fsm_cs = "BOOT_SET"
    BY DEF BootSet
  <1>2. /\ ns \in {"DBG_TAKEN_IF", "FIRST_FETCH"}
        /\ debug_req_q => ns = "DBG_TAKEN_IF"
        /\ ns \in CtrlStates /\ w \in BOOLEAN /\ BootPC \in PC /\ BootPC # NoPC
    BY AddressTypes, Names DEF debug_req_pending
  <1> HIDE DEF ns, w
  <1>3. o \in Outputs
    BY <1>2, DefaultType DEF Outputs
  <1>4. /\ o.ns = ns /\ o.set = BootPC
        /\ ~o.halt_id /\ ~o.decoding /\ ~o.restore /\ o.save = "no"
    BY DEF Default
  <1> HIDE DEF o
  <1>5. Regular(c, o)
    BY <1>1, <1>2, <1>4 DEF Regular, Drained, Emptying
  <1> QED
    BY <1>1, <1>3, <1>5 DEF RegularEdge

(* Nothing is lost or issued while both stages are halted. *)
HaltedOk(c, o) ==
  /\ o \in Outputs /\ o.halt_if /\ o.halt_id /\ ~o.decoding
  /\ o.ns \in Drained => ctrl_fsm_cs \in Drained \/ ExReady(c)

LEMMA HaltedRegular ==
  ASSUME NEW c, NEW o, HaltedOk(c, o), ctrl_fsm_cs \notin Starting
  PROVE  Regular(c, o)
  BY DEF HaltedOk, Regular, Starting

LEMMA HaltedFacts ==
  /\ Halted.halt_if /\ Halted.halt_id /\ ~Halted.decoding /\ Halted.ns = ctrl_fsm_cs
  /\ Halted.save = "no" /\ ~Halted.restore /\ Halted.debug_mode = debug_mode_q
  BY DEF Halted, Default

LEMMA InterruptedFacts ==
  ASSUME TypeOK, NEW epc \in PC, NEW c
  PROVE  HaltedOk(c, Interrupted(epc)) /\ Interrupted(epc).set # NoPC
  <1>1. Interrupted(epc) \in Outputs
    BY DefaultType
  <1>2. /\ Interrupted(epc).halt_if /\ Interrupted(epc).halt_id /\ ~Interrupted(epc).decoding
        /\ Interrupted(epc).ns = "DECODE" /\ Interrupted(epc).set = IrqPC
    BY DEF Interrupted, Default
  <1> QED
    BY <1>1, <1>2, AddressTypes DEF HaltedOk, Drained

(* A halted state that only chooses its successor. *)
LEMMA HaltedNext ==
  ASSUME TypeOK, NEW ns \in CtrlStates, NEW c,
         ns \in Drained => ctrl_fsm_cs \in Drained \/ ExReady(c)
  PROVE  HaltedOk(c, [Halted EXCEPT !.ns = ns])
  <1> DEFINE o == [Halted EXCEPT !.ns = ns]
  <1>1. o \in Outputs
    BY DefaultType DEF Outputs
  <1>2. o.ns = ns /\ o.halt_if = Halted.halt_if /\ o.halt_id = Halted.halt_id
        /\ o.decoding = Halted.decoding
    BY DefaultType DEF Outputs
  <1> QED
    BY <1>1, <1>2, HaltedFacts DEF HaltedOk

LEMMA SleepRegular ==
  ASSUME TypeOK, NEW c \in Input, WaitSleep(c) \/ Sleep(c)
  PROVE  RegularEdge(c)
  <1>1. ctrl_fsm_cs \in {"WAIT_SLEEP", "SLEEP"}
    BY DEF WaitSleep, Sleep
  <1>2. \/ Edge(c, [Halted EXCEPT !.ns = "SLEEP"]) \/ Edge(c, Halted)
        \/ Edge(c, [Halted EXCEPT !.ns = "DBG_TAKEN_IF", !.wakeup = TRUE])
        \/ Edge(c, [Halted EXCEPT !.ns = "FIRST_FETCH"])
    <2>1. [Halted EXCEPT !.ns = "SLEEP"]
             = [Default EXCEPT !.ns = "SLEEP", !.halt_if = TRUE, !.halt_id = TRUE]
      BY DEF Halted, Default
    <2> QED BY <2>1 DEF WaitSleep, Sleep, Halted
  <1>3. \A ns \in {"SLEEP", "FIRST_FETCH"} : HaltedOk(c, [Halted EXCEPT !.ns = ns])
    BY <1>1, HaltedNext, Names DEF Drained
  <1>4. HaltedOk(c, Halted)
    BY <1>1, HaltedFacts, DefaultType DEF HaltedOk, Drained
  <1>5. HaltedOk(c, [Halted EXCEPT !.ns = "DBG_TAKEN_IF", !.wakeup = TRUE])
    <2> DEFINE o == [Halted EXCEPT !.ns = "DBG_TAKEN_IF", !.wakeup = TRUE]
    <2>1. o \in Outputs
      BY DefaultType, Names DEF Outputs
    <2>2. o.ns = "DBG_TAKEN_IF" /\ o.halt_if /\ o.halt_id /\ ~o.decoding
      BY DEF Halted, Default
    <2> QED BY <2>1, <2>2, <1>1 DEF HaltedOk, Drained
  <1>6. \E o \in Outputs : Edge(c, o) /\ HaltedOk(c, o)
    BY <1>2, <1>3, <1>4, <1>5 DEF HaltedOk
  <1> QED
    BY <1>1, <1>6, HaltedRegular DEF RegularEdge, Starting

LEMMA FirstFetchRegular ==
  ASSUME TypeOK, NEW c \in Input, FirstFetch(c)
  PROVE  RegularEdge(c)
  <1>1. ctrl_fsm_cs = "FIRST_FETCH" /\ pc_if \in PC
    BY DEF FirstFetch, TypeOK
  <1>2. CASE Edge(c, Interrupted(pc_if))
    <2>1. HaltedOk(c, Interrupted(pc_if))
      BY <1>1, InterruptedFacts
    <2> QED BY <1>1, <1>2, <2>1, HaltedRegular DEF RegularEdge, Starting, HaltedOk
  <1>3. CASE Edge(c, [Default EXCEPT !.ns = "DECODE"])
    <2> DEFINE o == [Default EXCEPT !.ns = "DECODE"]
    <2>1. o \in Outputs
      BY DefaultType, Names DEF Outputs
    <2>2. o.ns = "DECODE" /\ ~o.halt_id /\ ~o.decoding
      BY DEF Default
    <2>3. Regular(c, o)
      BY <1>1, <2>2 DEF Regular, Emptying, Drained, Starting
    <2> QED BY <1>3, <2>1, <2>3 DEF RegularEdge
  <1> QED
    BY <1>2, <1>3 DEF FirstFetch

LEMMA DecodeBranchTakenRegular ==
  ASSUME TypeOK, NEW c \in Input, DecodeBranchTaken(c)
  PROVE  RegularEdge(c)
  <1> DEFINE o == [Default EXCEPT !.set = ex.arg]
  <1>1. ctrl_fsm_cs = "DECODE" /\ ex.arg \in PC /\ Edge(c, o)
    BY ExTypes DEF DecodeBranchTaken
  <1>2. o \in Outputs
    BY <1>1, DefaultType DEF Outputs
  <1>3. o.ns = "DECODE" /\ ~o.halt_id /\ ~o.decoding
    BY <1>1 DEF Default
  <1> HIDE DEF o
  <1>4. Regular(c, o)
    BY <1>1, <1>3 DEF Regular, Emptying, Drained, Starting
  <1> QED
    BY <1>1, <1>2, <1>4 DEF RegularEdge

LEMMA DecodeEmptyRegular ==
  ASSUME TypeOK, NEW c \in Input, DecodeEmpty(c)
  PROVE  RegularEdge(c)
  <1>1. ctrl_fsm_cs = "DECODE" /\ Edge(c, Default)
    BY DEF DecodeEmpty
  <1>2. Default.ns = "DECODE" /\ ~Default.halt_id /\ ~Default.decoding
    BY <1>1 DEF Default
  <1>3. Regular(c, Default)
    BY <1>1, <1>2 DEF Regular, Emptying, Drained, Starting
  <1> QED
    BY <1>1, <1>3, DefaultType DEF RegularEdge

LEMMA DecodeDebugRegular ==
  ASSUME TypeOK, NEW c \in Input, DecodeDebug(c)
  PROVE  RegularEdge(c)
  <1> DEFINE o == [Default EXCEPT !.ns = "DBG_FLUSH", !.halt_if = TRUE, !.halt_id = TRUE,
                                  !.decoding = TRUE, !.illegal = FALSE, !.entry = TRUE]
  <1>1. ctrl_fsm_cs = "DECODE" /\ ~BranchTaken /\ Edge(c, o)
    BY DEF DecodeDebug
  <1>2. o \in Outputs
    BY DefaultType, Names DEF Outputs
  <1>3. o.ns = "DBG_FLUSH" /\ o.halt_id /\ o.halt_if
    BY DEF Default
  <1> HIDE DEF o
  <1>4. Regular(c, o)
    BY <1>1, <1>3 DEF Regular, Emptying, Drained, Starting
  <1> QED
    BY <1>1, <1>2, <1>4 DEF RegularEdge

LEMMA DecodeIrqRegular ==
  ASSUME TypeOK, NEW c \in Input, DecodeIrq(c)
  PROVE  RegularEdge(c)
  <1> DEFINE i == Interrupted(pc_id)
             o == [i EXCEPT !.illegal = FALSE]
  <1>1. ctrl_fsm_cs = "DECODE" /\ Edge(c, o) /\ pc_id \in PC
    BY DEF DecodeIrq, TypeOK
  <1>2. HaltedOk(c, i)
    BY <1>1, InterruptedFacts
  <1>3. i.ns = "DECODE"
    BY DEF Interrupted, Default
  <1> HIDE DEF i
  <1>4. o \in Outputs
    BY <1>2 DEF Outputs, HaltedOk
  <1>5. o.halt_id = i.halt_id /\ o.halt_if = i.halt_if /\ o.decoding = i.decoding /\ o.ns = i.ns
    BY <1>2 DEF Outputs, HaltedOk
  <1> HIDE DEF o
  <1>6. Regular(c, o)
    BY <1>1, <1>2, <1>3, <1>4, <1>5, HaltedRegular DEF HaltedOk, Drained, Starting
  <1> QED
    BY <1>1, <1>4, <1>6 DEF RegularEdge

LEMMA DecodeInstrRegular ==
  ASSUME TypeOK, NEW c \in Input, DecodeInstr(c)
  PROVE  RegularEdge(c)
  <1>1. ctrl_fsm_cs = "DECODE" /\ ~BranchTaken
    BY DEF DecodeInstr
  <1>2. PICK o : Edge(c, o) /\ DecodeOk(c, o)
    BY <1>1, DecodeOutFacts, SingleStepOutFacts DEF DecodeInstr
  <1>3. Regular(c, o)
    BY <1>1, <1>2 DEF Regular, DecodeOk, Emptying, Drained, Starting
  <1> QED
    BY <1>2, <1>3 DEF RegularEdge, DecodeOk

LEMMA FlushExRegular ==
  ASSUME TypeOK, NEW c \in Input, FlushEx(c)
  PROVE  RegularEdge(c)
  <1>1. ctrl_fsm_cs = "FLUSH_EX" /\ (c.ex_valid => ExReady(c)) /\ pc_id \in PC
    BY DEF FlushEx, TypeOK
  <1> DEFINE h == [Halted EXCEPT !.ns = "FLUSH_WB"]
             save == IF debug_mode_q THEN "no" ELSE "trap"
  <1>2. HaltedOk(c, Halted)
    BY <1>1, HaltedFacts, DefaultType DEF HaltedOk, Drained
  <1>3. c.ex_valid => HaltedOk(c, h)
    BY <1>1, HaltedNext, Names
  <1>4. ASSUME c.ex_valid, NEW s \in {"no", "trap"}
        PROVE  HaltedOk(c, [h EXCEPT !.save = s, !.epc = pc_id])
    <2> DEFINE o == [h EXCEPT !.save = s, !.epc = pc_id]
    <2> HIDE DEF h
    <2>1. o \in Outputs
      BY <1>1, <1>3, <1>4 DEF HaltedOk, Outputs
    <2>2. /\ o.halt_if = h.halt_if /\ o.halt_id = h.halt_id /\ o.decoding = h.decoding
          /\ o.ns = h.ns
      BY <1>3, <1>4 DEF HaltedOk, Outputs
    <2> QED BY <1>3, <1>4, <2>1, <2>2 DEF HaltedOk
  <1>5. \/ Edge(c, Halted)
        \/ c.ex_valid /\ Edge(c, h)
        \/ c.ex_valid /\ Edge(c, [h EXCEPT !.save = save, !.epc = pc_id])
        \/ c.ex_valid /\ Edge(c, [h EXCEPT !.save = "trap", !.epc = pc_id])
    <2> DEFINE o == IF ~c.ex_valid THEN Halted
                    ELSE IF illegal_insn_q \/ Op = "ecall"
                    THEN [h EXCEPT !.save = save, !.epc = pc_id]
                    ELSE IF Op = "ebreak" THEN [h EXCEPT !.save = "trap", !.epc = pc_id]
                    ELSE h
    <2>1. Edge(c, o)
      BY Zenon DEF FlushEx
    <2>2. \/ o = Halted
          \/ c.ex_valid /\ o = h
          \/ c.ex_valid /\ o = [h EXCEPT !.save = save, !.epc = pc_id]
          \/ c.ex_valid /\ o = [h EXCEPT !.save = "trap", !.epc = pc_id]
      BY Zenon
    <2> HIDE DEF o, h, save
    <2> QED BY <2>1, <2>2
  <1>6. save \in {"no", "trap"}
    OBVIOUS
  <1> HIDE DEF save
  <1>7. \E o : Edge(c, o) /\ HaltedOk(c, o)
    BY <1>2, <1>3, <1>4, <1>5, <1>6
  <1> QED
    BY <1>1, <1>7, HaltedRegular DEF RegularEdge, HaltedOk, Starting

LEMMA FlushWbRegular ==
  ASSUME TypeOK, NEW c \in Input, FlushWb(c)
  PROVE  RegularEdge(c)
  <1> DEFINE set == IF debug_mode_q /\ (illegal_insn_q \/ Op = "ecall") THEN DbgExcPC ELSE ExcPC
             ns  == IF single_step /\ ~debug_mode_q THEN "DBG_TAKEN_IF" ELSE "DECODE"
             ret == ~debug_mode_q
             handler == [Halted EXCEPT !.set = set, !.ns = ns, !.illegal = FALSE]
             mret    == [Halted EXCEPT !.ns = "XRET_JUMP", !.restore = ret]
             dret    == [Halted EXCEPT !.ns = "XRET_JUMP"]
             wfi     == IF debug_req_pending(c)
                        THEN [Halted EXCEPT !.ns = "DBG_TAKEN_IF", !.wakeup = TRUE]
                        ELSE [Halted EXCEPT !.ns = "WAIT_SLEEP"]
             fencei  == [Halted EXCEPT !.ns = "DECODE", !.set = NextPC(pc_id)]
             other   == [Halted EXCEPT !.ns = "DECODE"]
             Quiet(o) == o \in Outputs /\ o.halt_if /\ o.halt_id /\ ~o.decoding
  <1>1. ctrl_fsm_cs = "FLUSH_WB"
    BY DEF FlushWb
  <1>2. \E o \in {handler, mret, dret, wfi, fencei, other} : Edge(c, o)
    <2>1. CASE illegal_insn_q \/ Op \in {"ebreak", "ecall"}
      BY <2>1 DEF FlushWb
    <2>2. CASE ~(illegal_insn_q \/ Op \in {"ebreak", "ecall"})
      <3> DEFINE o == CASE Op = "mret" -> mret
                        [] Op = "dret" -> dret
                        [] Op = "wfi"  -> wfi
                        [] Op = "fencei" -> fencei
                        [] OTHER -> other
      <3>1. Edge(c, o)
        BY <2>2 DEF FlushWb
      <3>2. o \in {mret, dret, wfi, fencei, other}
        <4> HIDE DEF mret, dret, wfi, fencei, other
        <4> QED OBVIOUS
      <3> HIDE DEF o, handler, mret, dret, wfi, fencei, other
      <3> QED BY <3>1, <3>2
    <2> QED BY <2>1, <2>2
  <1>3. Quiet(handler)
    <2>1. set \in PC /\ ns \in CtrlStates
      BY AddressTypes, Names
    <2> HIDE DEF set, ns
    <2> QED BY <2>1, DefaultType, HaltedFacts DEF Outputs
  <1>4. Quiet(mret)
    <2>1. ret \in BOOLEAN
      OBVIOUS
    <2> HIDE DEF ret
    <2> QED BY <2>1, DefaultType, HaltedFacts, Names DEF Outputs
  <1>5. Quiet(dret)
    BY DefaultType, HaltedFacts, Names DEF Outputs
  <1>6. Quiet(wfi)
    <2>1. Quiet([Halted EXCEPT !.ns = "DBG_TAKEN_IF", !.wakeup = TRUE])
      BY DefaultType, HaltedFacts, Names DEF Outputs
    <2>2. Quiet([Halted EXCEPT !.ns = "WAIT_SLEEP"])
      BY DefaultType, HaltedFacts, Names DEF Outputs
    <2> HIDE DEF Quiet
    <2> QED BY <2>1, <2>2
  <1>7. Quiet(fencei)
    <2>1. NextPC(pc_id) \in PC
      BY AddressTypes DEF TypeOK
    <2> QED BY <2>1, DefaultType, HaltedFacts, Names DEF Outputs
  <1>8. Quiet(other)
    BY DefaultType, HaltedFacts, Names DEF Outputs
  <1> HIDE DEF handler, mret, dret, wfi, fencei, other
  <1>9. \E o : Edge(c, o) /\ HaltedOk(c, o)
    BY <1>1, <1>2, <1>3, <1>4, <1>5, <1>6, <1>7, <1>8 DEF HaltedOk, Drained
  <1> QED
    BY <1>1, <1>9, HaltedRegular DEF RegularEdge, HaltedOk, Starting

LEMMA XretJumpRegular ==
  ASSUME TypeOK, NEW c \in Input, XretJump(c)
  PROVE  RegularEdge(c)
  <1> DEFINE ns == IF single_step /\ ~debug_mode_q THEN "DBG_TAKEN_IF" ELSE "DECODE"
             d  == [Default EXCEPT !.ns = ns]
             set == IF debug_mode_q THEN DbgExcPC ELSE mepc_q
             mret == [d EXCEPT !.set = set]
             dret == [d EXCEPT !.set = depc_q, !.debug_mode = FALSE]
             Quiet(o) == /\ o \in Outputs /\ o.ns \in {"DBG_TAKEN_IF", "DECODE"}
                         /\ o.set # NoPC /\ ~o.halt_id /\ ~o.decoding
  <1>1. ctrl_fsm_cs = "XRET_JUMP"
    BY DEF XretJump
  <1>2. Edge(c, mret) \/ Edge(c, dret)
    BY DEF XretJump
  <1>3. /\ ns \in {"DBG_TAKEN_IF", "DECODE"} /\ ns \in CtrlStates
        /\ set \in PC /\ set # NoPC /\ depc_q \in PC /\ depc_q # NoPC
    BY AddressTypes, Names DEF TypeOK
  <1> HIDE DEF ns, set
  <1>4. d \in Outputs /\ d.ns = ns /\ ~d.halt_id /\ ~d.decoding
    <2>1. d \in Outputs
      BY <1>3, DefaultType DEF Outputs
    <2>2. d.ns = ns /\ ~d.halt_id /\ ~d.decoding
      BY DEF Default
    <2> QED BY <2>1, <2>2
  <1> HIDE DEF d
  <1>5. Quiet(mret) /\ Quiet(dret)
    BY <1>3, <1>4 DEF Outputs
  <1> HIDE DEF mret, dret
  <1>6. PICK o : Edge(c, o) /\ Quiet(o)
    BY <1>2, <1>5
  <1>7. Regular(c, o)
    BY <1>1, <1>6 DEF Regular, Drained, Starting
  <1> QED
    BY <1>6, <1>7 DEF RegularEdge

LEMMA DbgWaitBranchRegular ==
  ASSUME TypeOK, NEW c \in Input, DbgWaitBranch(c)
  PROVE  RegularEdge(c)
  <1> DEFINE set == IF BranchTaken THEN ex.arg ELSE NoPC
             o == [Default EXCEPT !.ns = "DBG_FLUSH", !.halt_if = TRUE, !.set = set]
  <1>1. ctrl_fsm_cs = "DBG_WAIT_BRANCH" /\ Edge(c, o)
    BY DEF DbgWaitBranch
  <1>2. set \in PC \cup {NoPC}
    BY ExTypes
  <1> HIDE DEF set
  <1>3. o \in Outputs
    BY <1>2, DefaultType, Names DEF Outputs
  <1>4. o.ns = "DBG_FLUSH" /\ o.halt_if /\ ~o.halt_id /\ ~o.decoding
    BY DEF Default
  <1> HIDE DEF o
  <1>5. Regular(c, o)
    BY <1>1, <1>4 DEF Regular, Emptying, Drained, Starting
  <1> QED
    BY <1>1, <1>3, <1>5 DEF RegularEdge

LEMMA DbgFlushRegular ==
  ASSUME TypeOK, NEW c \in Input, DbgFlush(c)
  PROVE  RegularEdge(c)
  <1> DEFINE ns == IF \/ debug_mode_q \/ trigger_match \/ (ebrk_force /\ Op = "ebreak")
                      \/ Op = "elw" \/ debug_req_entry_q
                   THEN "DBG_TAKEN_ID" ELSE "DBG_TAKEN_IF"
             o == [Halted EXCEPT !.ns = ns]
  <1>1. ctrl_fsm_cs = "DBG_FLUSH" /\ Edge(c, o)
    BY DEF DbgFlush
  <1>2. ns \in CtrlStates /\ ns \notin Drained
    BY Names DEF Drained
  <1> HIDE DEF ns
  <1>3. HaltedOk(c, o)
    BY <1>2, HaltedNext
  <1> QED
    BY <1>1, <1>3, HaltedRegular DEF RegularEdge, HaltedOk, Starting

LEMMA DbgTakenRegular ==
  ASSUME TypeOK, NEW c \in Input, DbgTakenId(c) \/ DbgTakenIf(c)
  PROVE  RegularEdge(c)
  <1> DEFINE Taken(o) == /\ o \in Outputs /\ o.ns = "DECODE" /\ o.debug_mode
                         /\ ~o.halt_id /\ ~o.decoding /\ ~o.restore /\ o.save # "trap"
             d == [Default EXCEPT !.ns = "DECODE", !.set = DbgPC]
  <1>1. ctrl_fsm_cs \in {"DBG_TAKEN_ID", "DBG_TAKEN_IF"}
    BY DEF DbgTakenId, DbgTakenIf
  <1>2. d \in Outputs
    BY DefaultType, AddressTypes, Names DEF Outputs
  <1>3. d.ns = "DECODE" /\ ~d.halt_id /\ ~d.decoding /\ ~d.restore
    BY DEF Default
  <1> HIDE DEF d
  <1>4. ASSUME NEW save \in {"no", "debug"}, NEW epc \in PC, NEW cause \in Causes
        PROVE  /\ Taken([d EXCEPT !.entry = FALSE, !.debug_mode = TRUE, !.save = save,
                                  !.epc = epc, !.cause = cause])
               /\ Taken([d EXCEPT !.wakeup = FALSE, !.debug_mode = TRUE, !.save = save,
                                  !.epc = epc, !.cause = cause])
    BY <1>2, <1>3 DEF Outputs
  <1>5. ASSUME NEW o, Edge(c, o), Taken(o)
        PROVE  RegularEdge(c)
    <2>1. Regular(c, o)
      BY <1>1, <1>5 DEF Regular, Drained, Starting
    <2> QED BY <1>5, <2>1 DEF RegularEdge
  <1>6. CASE DbgTakenId(c)
    <2> DEFINE save  == IF debug_mode_q THEN "no" ELSE "debug"
               cause == IF trigger_match THEN "trigger"
                        ELSE IF ebrk_force /\ (Op = "ebreak") THEN "ebreak"
                        ELSE IF debug_req_entry_q THEN "haltreq" ELSE "ebreak"
    <2>1. Edge(c, [d EXCEPT !.entry = FALSE, !.debug_mode = TRUE, !.save = save,
                            !.epc = pc_id, !.cause = cause])
      BY <1>6 DEF DbgTakenId, d
    <2>2. save \in {"no", "debug"} /\ pc_id \in PC /\ cause \in Causes
      BY Names DEF TypeOK
    <2> HIDE DEF save, cause, Taken
    <2> QED BY <2>1, <2>2, <1>4, <1>5
  <1>7. CASE DbgTakenIf(c)
    <2> DEFINE cause == IF debug_force_wakeup_q THEN "haltreq"
                        ELSE IF single_step THEN "step" ELSE "ebreak"
    <2>1. Edge(c, [d EXCEPT !.wakeup = FALSE, !.debug_mode = TRUE, !.save = "debug",
                            !.epc = pc_if, !.cause = cause])
      BY <1>7 DEF DbgTakenIf, d
    <2>2. pc_if \in PC /\ cause \in Causes
      BY Names DEF TypeOK
    <2> HIDE DEF cause, Taken
    <2> QED BY <2>1, <2>2, <1>4, <1>5
  <1> QED
    BY <1>6, <1>7

LEMMA ElwRegular ==
  ASSUME TypeOK, NEW c \in Input, ElwExe(c) \/ IrqFlushElw(c)
  PROVE  RegularEdge(c)
  <1> DEFINE ns == IF ~IdReady(c) THEN "ELW_EXE"
                   ELSE IF (debug_req_pending(c) \/ trigger_match) /\ ~debug_mode_q
                   THEN "DBG_FLUSH" ELSE "IRQ_FLUSH_ELW"
             elw  == [Halted EXCEPT !.ns = ns]
             back == [Halted EXCEPT !.ns = "DECODE"]
             irqd == Interrupted(pc_id)
  <1>1. ctrl_fsm_cs \in {"ELW_EXE", "IRQ_FLUSH_ELW"}
    BY DEF ElwExe, IrqFlushElw
  <1>2. Edge(c, elw) \/ Edge(c, back) \/ Edge(c, irqd)
    BY DEF ElwExe, IrqFlushElw
  <1>3. ns \in CtrlStates /\ (ns \in Drained => ExReady(c))
    BY InputTypes, Names DEF Drained
  <1> HIDE DEF ns
  <1>4. HaltedOk(c, elw) /\ HaltedOk(c, back)
    BY <1>3, HaltedNext, Names DEF Drained
  <1>5. HaltedOk(c, irqd)
    BY InterruptedFacts DEF TypeOK
  <1> HIDE DEF elw, back, irqd
  <1>6. PICK o : Edge(c, o) /\ HaltedOk(c, o)
    BY <1>2, <1>4, <1>5
  <1> QED
    BY <1>1, <1>6, HaltedRegular DEF RegularEdge, HaltedOk, Starting

LEMMA CycleRegular ==
  ASSUME TypeOK, NEW c \in Input, Cycle(c)
  PROVE  RegularEdge(c)
  BY ResetRegular, BootSetRegular, SleepRegular, FirstFetchRegular, DecodeBranchTakenRegular,
     DecodeEmptyRegular, DecodeDebugRegular, DecodeIrqRegular, DecodeInstrRegular,
     FlushExRegular, FlushWbRegular, XretJumpRegular, DbgWaitBranchRegular, DbgFlushRegular,
     DbgTakenRegular, ElwRegular DEF Cycle

-----------------------------------------------------------------------------
(* The inductive invariant *)

TrapCsrs == {"csr_mstatus", "csr_mepc", "csr_dcsr", "csr_dpc"}

(* Who may still be in flight in which state: an instruction in ID, one in *)
(* EX, and of those that write the registers a trap or a return uses none  *)
(* behind which another instruction waits.                                 *)
InFlight ==
  /\ instr_valid_id => ctrl_fsm_cs \in Emptying
  /\ ctrl_fsm_cs \in Drained => ex = Bubble
  /\ ctrl_fsm_cs = "DECODE" /\ instr_valid_id => ex.op \notin TrapCsrs

DebugFsmInv ==
  /\ debug_fsm_cs = "HALTED" <=> debug_mode_q
  /\ debug_fsm_cs = "HAVERESET" => ctrl_fsm_cs \in Starting /\ ~mstatus_q.mie /\ ex = Bubble

CtrlInv == TypeOK /\ InFlight /\ DebugFsmInv

LEMMA CtrlInvInit == Init => CtrlInv
  <1> SUFFICES ASSUME Init PROVE CtrlInv
    OBVIOUS
  <1>1. ResetMStatus \in MStatus /\ ResetDCsr \in DCsr /\ ~ResetMStatus.mie
    <2>1. 2^0 = 1
      OBVIOUS
    <2>2. ~Bit(0, 0)
      BY <2>1 DEF Bit
    <2>3. ResetMStatus \in MStatus /\ ResetDCsr \in DCsr
      BY CsrTypes DEF ResetMStatus, ResetDCsr
    <2> QED BY <2>2, <2>3 DEF ResetMStatus, MStatusOf
  <1>2. TypeOK
    BY <1>1, AddressTypes, Names DEF Init, TypeOK
  <1>3. InFlight /\ DebugFsmInv
    BY <1>1 DEF Init, InFlight, DebugFsmInv, Starting, Drained, Bubble
  <1> QED
    BY <1>2, <1>3 DEF CtrlInv

LEMMA ExNext ==
  ASSUME TypeOK, NEW c \in Input, NEW o \in Outputs, Edge(c, o)
  PROVE  /\ ~ExReady(c) => ex' = ex
         /\ ExReady(c) /\ o.halt_id => ex' = Bubble
         /\ ExReady(c) => \/ ex' = Bubble
                          \/ o.decoding /\ IdReady(c) /\ ~illegal_insn /\ ex'.op = Op
  <1>1. IdReady(c) => ExReady(c)
    BY InputTypes
  <1>2. ExOf(instr_id) = Bubble \/ ExOf(instr_id) = instr_id
    BY DEF ExOf
  <1>3. Op = "branch" => [instr_id EXCEPT !.arg = NotTaken].op = "branch"
    BY InstrTypes DEF TypeOK, Op, Bubble
  <1>4. IssueEdge(c, o)
    BY DEF Edge
  <1>5. ~ExReady(c) => ex' = ex
    BY <1>1, <1>4 DEF IssueEdge
  <1>6. ExReady(c) /\ o.halt_id => ex' = Bubble
    BY <1>4 DEF IssueEdge
  <1>7. ASSUME ExReady(c), ex' # Bubble
        PROVE  o.decoding /\ IdReady(c) /\ ~illegal_insn /\ ex'.op = Op
    <2>1. o.decoding /\ IdReady(c) /\ ~illegal_insn
      BY <1>4, <1>7 DEF IssueEdge
    <2>2. \/ Op # "branch" /\ ex' = ExOf(instr_id)
          \/ Op = "branch" /\ ex' \in {instr_id, [instr_id EXCEPT !.arg = NotTaken]}
      BY <1>4, <1>7 DEF IssueEdge
    <2>3. ex'.op = Op
      BY <1>2, <1>3, <1>7, <2>2 DEF Op
    <2> QED BY <2>1, <2>3
  <1> QED
    BY <1>5, <1>6, <1>7

LEMMA InFlightStep ==
  ASSUME CtrlInv, NEW c \in Input, NEW o \in Outputs, Edge(c, o), Regular(c, o)
  PROVE  InFlight'
  <1>1. ctrl_fsm_cs' = o.ns /\ FetchEdge(c, o)
    BY DEF Edge
  <1>2. IdReady(c) => ExReady(c)
    BY InputTypes
  <1>3. instr_valid_id' => ctrl_fsm_cs' \in Emptying
    BY <1>1 DEF FetchEdge, Regular, CtrlInv, InFlight, Emptying
  <1>4. ctrl_fsm_cs' \in Drained => ex' = Bubble
    BY <1>1, ExNext DEF Regular, CtrlInv, InFlight, Drained
  <1>5. ASSUME ctrl_fsm_cs' = "DECODE", instr_valid_id'
        PROVE  ex'.op \notin TrapCsrs
    <2>1. Bubble.op \notin TrapCsrs
      BY DEF Bubble, TrapCsrs
    <2>2. CASE IdReady(c) /\ ~o.decoding
      BY <1>2, <2>1, <2>2, ExNext DEF CtrlInv
    <2>3. CASE IdReady(c) /\ o.decoding
      <3>1. Op \in TrapCsrs => illegal_insn
        BY <1>1, <1>5, <2>3 DEF Regular, csr_status, TrapCsrs
      <3>2. ex' = Bubble \/ (~illegal_insn /\ ex'.op = Op)
        BY <1>2, <2>3, ExNext DEF CtrlInv
      <3> QED BY <3>1, <3>2, <2>1
    <2>4. CASE ~IdReady(c)
      <3>1. instr_valid_id /\ ~o.halt_id
        BY <1>1, <1>5, <2>4 DEF FetchEdge
      <3>2. ctrl_fsm_cs = "DECODE"
        BY <3>1 DEF Regular, CtrlInv, InFlight, Emptying
      <3>3. ex' \in {ex, Bubble}
        BY <2>4, ExNext DEF CtrlInv
      <3> QED BY <2>1, <3>1, <3>2, <3>3 DEF CtrlInv, InFlight
    <2> QED BY <2>2, <2>3, <2>4
  <1> QED
    BY <1>3, <1>4, <1>5 DEF InFlight

LEMMA DebugFsmStep ==
  ASSUME CtrlInv, NEW c \in Input, NEW o \in Outputs, Edge(c, o), Regular(c, o)
  PROVE  DebugFsmInv'
  <1>1. /\ ctrl_fsm_cs' = o.ns /\ debug_mode_q' = o.debug_mode /\ DebugFsmEdge(o) /\ CsrEdge(o)
        /\ debug_fsm_cs \in {"HAVERESET", "RUNNING", "HALTED"} /\ o.debug_mode \in BOOLEAN
    BY DEF Edge, CtrlInv, TypeOK, Outputs
  <1>2. debug_fsm_cs' = "HALTED" <=> debug_mode_q'
    BY <1>1 DEF DebugFsmEdge
  <1>3. ASSUME debug_fsm_cs' = "HAVERESET"
        PROVE  ctrl_fsm_cs' \in Starting /\ ~mstatus_q'.mie /\ ex' = Bubble
    <2>1. debug_fsm_cs = "HAVERESET" /\ ~o.debug_mode /\ o.ns # "FIRST_FETCH"
      BY <1>1, <1>3 DEF DebugFsmEdge
    <2>2. ctrl_fsm_cs \in Starting /\ ~mstatus_q.mie /\ ex = Bubble
      BY <2>1 DEF CtrlInv, DebugFsmInv
    <2>3. ctrl_fsm_cs' \in Starting
      BY <1>1, <2>1, <2>2 DEF Regular, Starting
    <2>4. ~mstatus_q'.mie
      BY <1>1, <2>2 DEF CsrEdge, Regular, Bubble
    <2>5. ex' = Bubble
      BY <2>2, ExNext DEF Regular, Starting, CtrlInv
    <2> QED BY <2>3, <2>4, <2>5
  <1> QED
    BY <1>2, <1>3 DEF DebugFsmInv

LEMMA CtrlInvStep == CtrlInv /\ [Next]_vars => CtrlInv'
  <1> SUFFICES ASSUME CtrlInv, [Next]_vars PROVE CtrlInv'
    OBVIOUS
  <1>1. CASE UNCHANGED vars
    BY <1>1 DEF CtrlInv, TypeOK, InFlight, DebugFsmInv, vars, clocked, ctrlVars, pipeVars, csrVars
  <1>2. CASE Next
    <2>1. PICK c \in Input : Cycle(c) /\ DebugReqEdge(c)
      BY <1>2 DEF Next
    <2>2. PICK d \in Input, o \in Outputs :
            d.debug_req = c.debug_req /\ Edge(d, o) /\ Regular(d, o)
      BY <2>1, CycleRegular DEF RegularEdge, CtrlInv
    <2>3. DebugReqEdge(d) /\ UNCHANGED COREV_CLUSTER
      BY <1>2, <2>1, <2>2 DEF DebugReqEdge, Next
    <2>4. TypeOK'
      BY <2>2, <2>3, EdgeTypes DEF CtrlInv
    <2>5. InFlight' /\ DebugFsmInv'
      BY <2>2, InFlightStep, DebugFsmStep
    <2> QED BY <2>4, <2>5 DEF CtrlInv
  <1> QED
    BY <1>1, <1>2

(* The controller's inductive invariant. *)
LEMMA CtrlInvariant == Spec => []CtrlInv
  BY CtrlInvInit, CtrlInvStep, PTL DEF Spec

-----------------------------------------------------------------------------
(* Theorems *)

(* Every register of the model stays within its type, whatever the program *)
(* and the interrupt and debug request lines do.                           *)
THEOREM TypeCorrect == Spec => []TypeOK
  BY CtrlInvariant, PTL DEF CtrlInv

(* No trap, return or interrupt ever meets a write to mstatus, mepc, dcsr  *)
(* or dpc still in EX: a_irq_csr and a_xret_csr of id_stage.sv hold for    *)
(* every program.                                                          *)
THEOREM CsrWritesFlushed == Spec => []NoCsrWriteInFlight
  <1>1. CtrlInv => NoCsrWriteInFlight
    BY DEF CtrlInv, InFlight, NoCsrWriteInFlight, Drained, TrapCsrs, Bubble
  <1> QED
    BY <1>1, CtrlInvariant, PTL

(* The status pins agree with the core: halted exactly in Debug Mode,      *)
(* reset only before the first instruction and with interrupts disabled.   *)
THEOREM DebugStatusTrue == Spec => []DebugStatus
  <1>1. CtrlInv => DebugStatus
    BY DEF CtrlInv, InFlight, DebugFsmInv, DebugStatus, Starting, Emptying
  <1> QED
    BY <1>1, CtrlInvariant, PTL

(* A core with a debug request pending goes from reset to halted without   *)
(* running in between.                                                     *)
THEOREM HaltsFromReset == Spec => HaltFromReset
  <1>1. CtrlInv /\ [Next]_vars
        => [debug_fsm_cs = "HAVERESET" /\ debug_req_q => debug_fsm_cs' # "RUNNING"]_vars
    <2> SUFFICES ASSUME CtrlInv, Next, debug_fsm_cs = "HAVERESET", debug_req_q
                 PROVE  debug_fsm_cs' # "RUNNING"
      OBVIOUS
    <2>1. PICK c \in Input : Cycle(c)
      BY DEF Next
    <2>2. PICK d \in Input, o \in Outputs : Edge(d, o) /\ Regular(d, o)
      BY <2>1, CycleRegular DEF RegularEdge, CtrlInv
    <2>3. ctrl_fsm_cs \in Starting
      BY DEF CtrlInv, DebugFsmInv
    <2>4. o.ns # "FIRST_FETCH" \/ o.debug_mode
      BY <2>2, <2>3 DEF Regular, Starting
    <2> QED BY <2>2, <2>4 DEF Edge, DebugFsmEdge
  <1> QED
    BY <1>1, CtrlInvariant, PTL DEF Spec, HaltFromReset

(* Behind a taken branch EX gets a bubble and nothing takes effect.        *)
THEOREM BranchShadow == Spec => TakenBranchFlushed
  <1>1. CtrlInv /\ [Next]_vars => [BranchTaken => ex' = Bubble /\ effects' = effects]_vars
    <2> SUFFICES ASSUME CtrlInv, Next, BranchTaken
                 PROVE  ex' = Bubble /\ effects' = effects
      OBVIOUS
    <2>1. PICK c \in Input : Cycle(c)
      BY DEF Next
    <2>2. PICK d \in Input, o \in Outputs : Edge(d, o) /\ Regular(d, o)
      BY <2>1, CycleRegular DEF RegularEdge, CtrlInv
    <2>3. ~o.decoding
      BY <2>2 DEF Regular
    <2>4. ExReady(d)
      BY InputTypes DEF BranchTaken, ExReady
    <2>5. ex' = Bubble
      BY <2>2, <2>3, <2>4, ExNext DEF CtrlInv
    <2>6. effects' = effects
      BY <2>2, <2>3 DEF Edge, IssueEdge
    <2> QED BY <2>5, <2>6
  <1> QED
    BY <1>1, CtrlInvariant, PTL DEF Spec, TakenBranchFlushed
-----------------------------------------------------------------------------
(* Refinement: the pipeline of Controller.tla implements the machine of    *)
(* Isa.tla, for every program, every placement of its handlers, every      *)
(* timing of stalls, interrupts and debug requests.  Two uses are left out *)
(* because there the code does not keep the promise (WellUsed).            *)

(* Trigger registers are written in Debug Mode only (TriggerWritesIgnored  *)
(* shows what may happen otherwise), and the debugger neither steps        *)
(* cv.elw nor halts the core while it waits on it: DBG_TAKEN_ID would      *)
(* report the cause ebreak.                                                *)
WellUsed ==
  /\ ex.op = "csr_tdata1" => debug_mode_q
  /\ ctrl_fsm_cs = "DBG_FLUSH" /\ Op = "elw" => debug_req_entry_q

-----------------------------------------------------------------------------
(* The invariant *)

(* Behind the instruction in ID, or the one that has just left it to flush *)
(* the pipeline, comes the next one; a jump has set pc_if elsewhere.       *)
Addresses ==
  /\ \/ ctrl_fsm_cs = "DECODE" /\ instr_valid_id
     \/ ctrl_fsm_cs \in {"FLUSH_EX", "FLUSH_WB", "ELW_EXE", "IRQ_FLUSH_ELW"}
  /\ Op # "jump"
  => pc_if = NextPC(pc_id)

(* What EX may hold *)
Executing ==
  /\ ex.op = "branch" => ctrl_fsm_cs \in {"DECODE", "DBG_WAIT_BRANCH"}
  /\ ex.op \in {"csr_dcsr", "csr_dpc"} => debug_mode_q
  /\ ctrl_fsm_cs = "FLUSH_EX" => ex = Bubble \/ (ex = instr_id /\ csr_status /\ ~illegal_insn_q)
  /\ ctrl_fsm_cs \in {"ELW_EXE", "IRQ_FLUSH_ELW"} => /\ Op = "elw" /\ ex \in {Bubble, instr_id}
                                                   /\ ~(single_step /\ ~debug_mode_q)

(* Which states belong to Debug Mode, and which do not *)
Modes ==
  /\ ctrl_fsm_cs \in {"RESET", "BOOT_SET", "WAIT_SLEEP", "SLEEP", "DBG_WAIT_BRANCH", "DBG_TAKEN_IF"}
       => ~debug_mode_q
  /\ ctrl_fsm_cs \in {"FLUSH_EX", "FLUSH_WB"} /\ Op = "ebreak" => ~debug_mode_q
  /\ ctrl_fsm_cs \in {"FLUSH_EX", "FLUSH_WB"} /\ Op = "wfi" /\ ~illegal_insn_q => ~debug_mode_q
  /\ ctrl_fsm_cs \in {"FLUSH_EX", "FLUSH_WB"} /\ Op = "dret" /\ ~illegal_insn_q => debug_mode_q
  /\ ctrl_fsm_cs = "XRET_JUMP" /\ Op = "dret" => debug_mode_q

(* Why Debug Mode is about to be entered *)
Entering ==
  /\ debug_force_wakeup_q => ctrl_fsm_cs = "DBG_TAKEN_IF" /\ debug_req_q
  /\ debug_req_entry_q => /\ ctrl_fsm_cs \in {"DBG_FLUSH", "DBG_TAKEN_ID"} /\ ~debug_mode_q
                          /\ debug_req_q \/ trigger_match
  /\ ctrl_fsm_cs = "DBG_WAIT_BRANCH" => single_step /\ ~trigger_match /\ Op = "branch"
  /\ ctrl_fsm_cs = "DBG_FLUSH" => BeforeID \/ (single_step /\ ~instr_valid_id)
  /\ ctrl_fsm_cs = "DBG_TAKEN_ID" /\ ~debug_mode_q
       => trigger_match \/ (ebrk_force /\ Op = "ebreak") \/ debug_req_entry_q
  /\ ctrl_fsm_cs = "DBG_TAKEN_IF" => debug_force_wakeup_q \/ single_step

RefInv == CtrlInv /\ Addresses /\ Executing /\ Modes /\ Entering

LEMMA RefInvInit == Init => RefInv
  <1> SUFFICES ASSUME Init PROVE RefInv
    OBVIOUS
  <1>1. CtrlInv
    BY CtrlInvInit
  <1>2. Addresses /\ Modes /\ Entering
    BY DEF Init, Addresses, Modes, Entering
  <1>3. Executing
    BY DEF Init, Executing, Bubble
  <1> QED
    BY <1>1, <1>2, <1>3 DEF RefInv

-----------------------------------------------------------------------------
(* The machine's program counter, state by state *)

PcFacts ==
  /\ ctrl_fsm_cs \in {"RESET", "BOOT_SET"} => pc = BootPC
  /\ ctrl_fsm_cs \in {"WAIT_SLEEP", "SLEEP", "FIRST_FETCH", "DBG_TAKEN_IF"} => pc = pc_if
  /\ ctrl_fsm_cs = "DECODE" =>
       pc = IF BranchTaken THEN ex.arg ELSE IF instr_valid_id THEN pc_id ELSE pc_if
  /\ ctrl_fsm_cs = "FLUSH_EX" => pc = IF Trapping \/ Op \in {"mret", "dret"} THEN pc_id ELSE pc_if
  /\ ctrl_fsm_cs = "FLUSH_WB" =>
       pc = IF Trapping THEN IF debug_mode_q THEN DbgExcPC ELSE ExcPC
            ELSE IF Op \in {"mret", "dret"} THEN pc_id ELSE pc_if
  /\ ctrl_fsm_cs = "XRET_JUMP" =>
       pc = IF Op = "dret" THEN pc_id ELSE IF debug_mode_q THEN DbgExcPC ELSE mepc_q
  /\ ctrl_fsm_cs \in {"ELW_EXE", "IRQ_FLUSH_ELW", "DBG_TAKEN_ID"} => pc = pc_id
  /\ ctrl_fsm_cs = "DBG_FLUSH" => pc = IF BeforeID THEN pc_id ELSE pc_if
  /\ ctrl_fsm_cs = "DBG_WAIT_BRANCH" => pc = IF BranchTaken THEN ex.arg ELSE pc_if

SteppedFacts ==
  /\ ctrl_fsm_cs \notin {"DBG_WAIT_BRANCH", "DBG_TAKEN_IF", "DBG_FLUSH", "FLUSH_WB", "XRET_JUMP"}
       => ~stepped
  /\ ctrl_fsm_cs = "DBG_WAIT_BRANCH" => stepped
  /\ ctrl_fsm_cs = "DBG_TAKEN_IF" => (stepped <=> ~debug_force_wakeup_q)
  /\ ctrl_fsm_cs = "DBG_FLUSH" => (stepped <=> ~BeforeID)
  /\ ctrl_fsm_cs = "FLUSH_WB" => (stepped <=> single_step /\ ~debug_mode_q /\ Trapping)
  /\ ctrl_fsm_cs = "XRET_JUMP" => (stepped <=> single_step /\ ~debug_mode_q /\ Op = "mret")

LEMMA PcByState == RefInv => PcFacts
  <1> SUFFICES ASSUME RefInv PROVE PcFacts
    OBVIOUS
  <1>1. /\ instr_valid_id => ctrl_fsm_cs \in {"DECODE", "DBG_FLUSH"}
        /\ BranchTaken => ctrl_fsm_cs \in {"DECODE", "DBG_WAIT_BRANCH"}
        /\ ctrl_fsm_cs = "DBG_FLUSH" /\ ~BeforeID => ~instr_valid_id
    BY DEF RefInv, CtrlInv, InFlight, Emptying, Executing, Entering, BranchTaken
  <1>2. BeforeID => ctrl_fsm_cs \in {"DBG_TAKEN_ID", "DBG_FLUSH"}
    BY DEF BeforeID
  <1>3. ctrl_fsm_cs = "DBG_TAKEN_ID" => BeforeID
    BY DEF BeforeID
  <1> QED
    BY <1>1, <1>2, <1>3 DEF PcFacts, pc

LEMMA SteppedByState == RefInv => SteppedFacts
  <1> SUFFICES ASSUME RefInv PROVE SteppedFacts
    OBVIOUS
  <1>1. BeforeID \/ ~(ctrl_fsm_cs = "DBG_FLUSH") \/ ~debug_mode_q
    BY DEF BeforeID
  <1> QED
    BY <1>1 DEF SteppedFacts, stepped, RefInv, Modes, Entering

(* The same in the next state *)
LEMMA PcByNextState == RefInv' => PcFacts' /\ SteppedFacts'
  BY PcByState, SteppedByState, PTL

-----------------------------------------------------------------------------
(* What a clock edge does to the machine's registers *)

(* One step of the pipeline with everything that is known about it *)
Moves(c, o) ==
  /\ RefInv /\ WellUsed /\ CtrlInv' /\ WellUsed'
  /\ c \in Input /\ Edge(c, o)
  /\ DebugReqEdge(c)

(* The instruction in ID enters EX. *)
Issues(c, o) == ~o.halt_id /\ IdReady(c) /\ o.decoding /\ ~illegal_insn

LEMMA QuietEx ==
  ASSUME NEW c, NEW o, Moves(c, o), ~Issues(c, o)
  PROVE  /\ ex' \in {ex, Bubble} /\ (ExReady(c) => ex' = Bubble)
         /\ effects' = effects
         /\ ex'.op # "branch" /\ ~BranchTaken'
  <1>1. ex' \in {ex, Bubble} /\ (ExReady(c) => ex' = Bubble)
    BY DEF Moves, Edge, IssueEdge, Issues
  <1>2. effects' = effects
    BY DEF Moves, Edge, IssueEdge, Issues
  <1>3. ex.op = "branch" => ExReady(c)
    BY InputTypes DEF ExReady, Moves
  <1>4. ex'.op # "branch"
    BY <1>1, <1>3 DEF Bubble
  <1> QED
    BY <1>1, <1>2, <1>4 DEF BranchTaken

(* A register keeps its value, written by a CSR instruction in EX or not,  *)
(* until the next write to it is issued or the controller saves to it.     *)
LEMMA Registers ==
  ASSUME NEW c, NEW o, Moves(c, o)
  PROVE  /\ ex' = ex \/ ex'.op # "csr_mie" => mie' = mie
         /\ ex' = ex \/ ex'.op # "csr_tdata1" => tdata1' = tdata1
         /\ (ex' = ex \/ ex'.op # "csr_mstatus") /\ o.save # "trap" /\ ~o.restore
              => mstatus' = mstatus
         /\ (ex' = ex \/ ex'.op # "csr_mepc") /\ o.save # "trap" => mepc' = mepc
         /\ (ex' = ex \/ ex'.op # "csr_dpc") /\ o.save # "debug" => dpc' = dpc
         /\ (ex' = ex \/ ex'.op # "csr_dcsr") /\ o.save # "debug" => dcsr' = dcsr
  <1>1. CsrEdge(o)
    BY DEF Moves, Edge
  <1>2. ex' = ex \/ ex'.op # "csr_mie" => mie' = mie
    BY <1>1 DEF CsrEdge, mie, mie_bypass
  <1>3. ex' = ex \/ ex'.op # "csr_tdata1" => tdata1' = tdata1
    BY <1>1 DEF CsrEdge, tdata1, Moves, WellUsed
  <1>4. (ex' = ex \/ ex'.op # "csr_mstatus") /\ o.save # "trap" /\ ~o.restore => mstatus' = mstatus
    BY <1>1 DEF CsrEdge, mstatus
  <1>5. (ex' = ex \/ ex'.op # "csr_mepc") /\ o.save # "trap" => mepc' = mepc
    BY <1>1 DEF CsrEdge, mepc
  <1>6. (ex' = ex \/ ex'.op # "csr_dpc") /\ o.save # "debug" => dpc' = dpc
    BY <1>1 DEF CsrEdge, dpc
  <1>7. (ex' = ex \/ ex'.op # "csr_dcsr") /\ o.save # "debug" => dcsr' = dcsr
    BY <1>1 DEF CsrEdge, dcsr, DcsrWritten, DCsrOf
  <1> QED
    BY <1>2, <1>3, <1>4, <1>5, <1>6, <1>7

(* What the machine sees of a cycle that neither issues nor saves *)
Still == UNCHANGED <<effects, mstatus, mepc, mie, debug, dcsr, dpc, tdata1>>

LEMMA QuietRegisters ==
  ASSUME NEW c, NEW o, Moves(c, o), ~Issues(c, o)
  PROVE  /\ UNCHANGED <<effects, mie, tdata1>>
         /\ o.save = "no" /\ ~o.restore => UNCHANGED <<mstatus, mepc, dcsr, dpc>>
         /\ o.save # "trap" /\ ~o.restore => UNCHANGED <<mstatus, mepc>>
         /\ o.save # "debug" => UNCHANGED <<dcsr, dpc>>
         /\ o.save = "no" => UNCHANGED mepc
  <1>1. ex' = ex \/ ex' = Bubble
    BY QuietEx
  <1>2. Bubble.op = "bubble"
    BY DEF Bubble
  <1>3. \A op \in {"csr_mie", "csr_tdata1", "csr_mstatus", "csr_mepc", "csr_dpc", "csr_dcsr"} :
          ex' = ex \/ ex'.op # op
    BY <1>1, <1>2
  <1> QED
    BY <1>3, QuietEx, Registers

(* A trap saves the machine's registers, a return restores them, Debug     *)
(* Mode records how it was entered.                                        *)
LEMMA SavedRegisters ==
  ASSUME NEW c, NEW o, Moves(c, o), ~Issues(c, o)
  PROVE  /\ o.save = "trap" /\ ex.op \notin {"csr_mstatus", "csr_mepc"} =>
              /\ mepc' = o.epc /\ mstatus' = [mie |-> FALSE, mpie |-> mstatus.mie]
         /\ o.save = "no" /\ o.restore /\ ex = Bubble =>
              mstatus' = [mie |-> mstatus.mpie, mpie |-> TRUE]
         /\ o.save = "debug" /\ ~debug_mode_q =>
              dpc' = o.epc /\ dcsr' = [dcsr EXCEPT !.cause = o.cause]
  <1>1. CsrEdge(o) /\ (ex' = ex \/ ex' = Bubble)
    BY QuietEx DEF Moves, Edge
  <1>2. Bubble.op = "bubble"
    BY DEF Bubble
  <1>3. o.save = "trap" /\ ex.op \notin {"csr_mstatus", "csr_mepc"} =>
              /\ mepc' = o.epc /\ mstatus' = [mie |-> FALSE, mpie |-> mstatus.mie]
    BY <1>1, <1>2 DEF CsrEdge, mepc, mstatus
  <1>4. o.save = "no" /\ o.restore /\ ex = Bubble =>
              mstatus' = [mie |-> mstatus.mpie, mpie |-> TRUE]
    BY <1>1, <1>2 DEF CsrEdge, mstatus
  <1>5. ~debug_mode_q => ex.op \notin {"csr_dcsr", "csr_dpc"}
    BY DEF Moves, RefInv, Executing
  <1>6. o.save = "debug" /\ ~debug_mode_q =>
              dpc' = o.epc /\ dcsr' = [dcsr EXCEPT !.cause = o.cause]
    BY <1>1, <1>2, <1>5 DEF CsrEdge, dpc, dcsr, DcsrWritten
  <1> QED
    BY <1>3, <1>4, <1>6

(* Without an instruction in ID no address matters but pc_if. *)
LEMMA FetchFrame ==
  ASSUME NEW c, NEW o, Moves(c, o)
  PROVE  /\ o.set # NoPC => pc_if' = o.set
         /\ o.set = NoPC /\ o.halt_if => pc_if' = pc_if
         /\ o.set # NoPC \/ o.halt_if \/ ~c.fetch \/ ~IdReady(c) =>
              /\ pc_id' = pc_id /\ instr_id' = instr_id /\ Op' = Op
              /\ instr_valid_id' <=> instr_valid_id /\ ~(IdReady(c) \/ o.halt_id \/ BranchTaken)
              /\ o.set = NoPC => pc_if' = pc_if
         /\ \/ /\ pc_id' = pc_id /\ instr_id' = instr_id /\ (instr_valid_id' => instr_valid_id)
               /\ o.set = NoPC => pc_if' = pc_if
            \/ /\ o.set = NoPC /\ IdReady(c) /\ instr_valid_id'
               /\ pc_id' = pc_if /\ pc_if' = NextPC(pc_if)
  BY DEF Moves, Edge, FetchEdge, Op, RefInv, CtrlInv, TypeOK

(* The controller's own registers *)
LEMMA ControlFrame ==
  ASSUME NEW c, NEW o, Moves(c, o)
  PROVE  /\ ctrl_fsm_cs' = o.ns /\ illegal_insn_q' = o.illegal /\ debug_mode_q' = o.debug_mode
         /\ debug_req_entry_q' = o.entry /\ debug_force_wakeup_q' = o.wakeup
         /\ debug' = o.debug_mode
         /\ ~debug_mode_q => (debug_req_q' <=> debug_req_pending(c))
  BY DEF Moves, Edge, debug, DebugReqEdge, debug_req_pending

(* Outside Debug Mode the debug registers cannot be written. *)
LEMMA DebugFrame ==
  ASSUME NEW c, NEW o, Moves(c, o), ~debug_mode_q
  PROVE  /\ tmatch_control_exec_q' = tmatch_control_exec_q
         /\ o.save # "debug" => dcsr_q' = dcsr_q
         /\ dcsr = dcsr_q /\ tdata1 = tmatch_control_exec_q
         /\ ex.op \notin {"csr_dcsr", "csr_dpc", "csr_tdata1"}
  BY DEF Moves, Edge, CsrEdge, DcsrWritten, dcsr, tdata1, WellUsed, RefInv, Executing

(* A cycle that saves and restores nothing and enters or leaves no mode *)
Plain(o) ==
  /\ o.save = "no" /\ ~o.restore
  /\ o.debug_mode = debug_mode_q /\ o.entry = debug_req_entry_q
  /\ o.wakeup = debug_force_wakeup_q

LEMMA StillMove ==
  ASSUME NEW c, NEW o, Moves(c, o), ~Issues(c, o), Plain(o)
  PROVE  Still
  BY QuietRegisters, ControlFrame DEF Still, Plain, debug

LEMMA Stutters ==
  ASSUME Still, pc' = pc, stepped' = stepped
  PROVE  Machine!Step
  BY DEF Machine!Step, Machine!regs, Still

LEMMA QuietExecuting ==
  ASSUME NEW c, NEW o, Moves(c, o), ~Issues(c, o),
         o.debug_mode = debug_mode_q \/ o.debug_mode = TRUE \/ ex = Bubble,
         o.ns \notin {"FLUSH_EX", "ELW_EXE", "IRQ_FLUSH_ELW"}
  PROVE  Executing'
  <1>1. ctrl_fsm_cs' = o.ns /\ debug_mode_q' = o.debug_mode /\ debug_mode_q \in BOOLEAN
    BY ControlFrame DEF Moves, RefInv, CtrlInv, TypeOK
  <1>2. ex' = ex \/ ex' = Bubble
    BY QuietEx
  <1>3. ex'.op \in {"csr_dcsr", "csr_dpc"} => debug_mode_q'
    BY <1>1, <1>2 DEF Moves, RefInv, Executing, Bubble
  <1> QED
    BY <1>1, <1>3, QuietEx DEF Executing

-----------------------------------------------------------------------------
(* The actions *)

(* What is to be shown of each *)
Refines == RefInv' /\ Machine!Step

(* Falling asleep, sleeping and waking up, starting *)
LEMMA IdleRefines ==
  ASSUME NEW c, NEW o, Moves(c, o), Plain(o), ~o.decoding,
         \/ ctrl_fsm_cs = "RESET" /\ o.ns \in {"RESET", "BOOT_SET"}
         \/ ctrl_fsm_cs = "BOOT_SET" /\ o.ns = "FIRST_FETCH" /\ o.set = BootPC
         \/ /\ ctrl_fsm_cs \in {"WAIT_SLEEP", "SLEEP"} /\ o.ns \in {"SLEEP", "FIRST_FETCH"}
            /\ o.set = NoPC /\ o.halt_if
  PROVE  Refines
  <1>1. ~Issues(c, o) /\ Still
    BY StillMove DEF Issues
  <1>2. /\ ctrl_fsm_cs' \in {"RESET", "BOOT_SET", "SLEEP", "FIRST_FETCH"}
        /\ ctrl_fsm_cs \notin {"DBG_TAKEN_IF", "DBG_FLUSH", "DBG_TAKEN_ID"}
        /\ ~debug_mode_q' /\ debug_req_entry_q' = debug_req_entry_q
        /\ debug_force_wakeup_q' = debug_force_wakeup_q
    BY ControlFrame DEF Plain, Moves, RefInv, Modes
  <1>3. Addresses' /\ Modes' /\ Entering'
    BY <1>2 DEF Addresses, Modes, Entering, Moves, RefInv
  <1>4. Executing'
    BY <1>1, <1>2, QuietExecuting, ControlFrame DEF Plain
  <1>5. RefInv'
    BY <1>3, <1>4 DEF RefInv, Moves
  <1>6. pc' = pc /\ ~stepped /\ ~stepped'
    <2>1. PcFacts /\ SteppedFacts /\ PcFacts' /\ SteppedFacts'
      BY <1>5, PcByState, SteppedByState, PcByNextState DEF Moves
    <2>2. ~stepped /\ ~stepped'
      BY <1>2, <2>1 DEF SteppedFacts
    <2>3. BootPC # NoPC
      BY AddressTypes
    <2>4. pc' = pc
      BY <2>1, <2>3, ControlFrame, FetchFrame DEF PcFacts
    <2> QED BY <2>2, <2>4
  <1>7. stepped' = stepped
    BY <1>6 DEF stepped
  <1> QED
    BY <1>1, <1>5, <1>6, <1>7, Stutters DEF Refines

(* Whatever leads to DECODE without issuing *)
LEMMA ToDecode ==
  ASSUME NEW c, NEW o, Moves(c, o), ~Issues(c, o), o.ns = "DECODE", ~o.entry, ~o.wakeup,
         o.debug_mode = debug_mode_q \/ o.debug_mode = TRUE \/ ex = Bubble,
         instr_valid_id => ctrl_fsm_cs = "DECODE",
         instr_valid_id /\ o.set # NoPC => Op = "jump" \/ o.halt_id \/ BranchTaken
  PROVE  /\ RefInv' /\ ~stepped'
         /\ o.set # NoPC /\ (instr_valid_id => o.halt_id \/ BranchTaken) => pc' = o.set
         /\ o.set = NoPC /\ ~instr_valid_id => pc' = pc_if
         /\ instr_valid_id /\ ~IdReady(c) /\ ~o.halt_id /\ ~BranchTaken => pc' = pc_id
  <1>1. ctrl_fsm_cs' = "DECODE" /\ ~debug_req_entry_q' /\ ~debug_force_wakeup_q'
    BY ControlFrame
  <1>2. Modes' /\ Entering'
    BY <1>1 DEF Modes, Entering
  <1>3. Executing'
    BY <1>1, QuietExecuting
  <1>4. Addresses'
    BY <1>1, FetchFrame DEF Addresses, Moves, RefInv, Op
  <1>5. RefInv'
    BY <1>2, <1>3, <1>4 DEF RefInv, Moves
  <1>6. ~stepped' /\ pc' = IF instr_valid_id' THEN pc_id' ELSE pc_if'
    BY <1>1, <1>5, PcByNextState, QuietEx DEF PcFacts, SteppedFacts
  <1>7. o.set # NoPC /\ (instr_valid_id => o.halt_id \/ BranchTaken) => pc' = o.set
    BY <1>6, FetchFrame
  <1>8. o.set = NoPC /\ ~instr_valid_id => pc' = pc_if
    BY <1>6, FetchFrame
  <1>9. instr_valid_id /\ ~IdReady(c) /\ ~o.halt_id /\ ~BranchTaken => pc' = pc_id
    BY <1>6, FetchFrame
  <1> QED
    BY <1>5, <1>6, <1>7, <1>8, <1>9

(* The first fetch, an empty ID stage, a taken branch in EX, an            *)
(* instruction that has to wait in ID                                      *)
LEMMA WaitRefines ==
  ASSUME NEW c, NEW o, Moves(c, o), Plain(o), ~Issues(c, o), o.ns = "DECODE",
         \/ ctrl_fsm_cs = "FIRST_FETCH" /\ o.set = NoPC
         \/ ctrl_fsm_cs = "DECODE" /\ BranchTaken /\ o.set = ex.arg
         \/ ctrl_fsm_cs = "DECODE" /\ ~BranchTaken /\ ~instr_valid_id /\ o.set = NoPC
         \/ /\ ctrl_fsm_cs = "DECODE" /\ ~BranchTaken /\ instr_valid_id
            /\ ~IdReady(c) /\ ~o.halt_id /\ (o.set # NoPC => Op = "jump")
  PROVE  Refines
  <1>1. Still
    BY StillMove
  <1>2. ~o.entry /\ ~o.wakeup /\ (instr_valid_id => ctrl_fsm_cs = "DECODE")
    BY DEF Plain, Moves, RefInv, Entering, CtrlInv, InFlight, Emptying
  <1>3. RefInv' /\ ~stepped' /\ pc' = pc
    <2>1. PcFacts
      BY PcByState DEF Moves
    <2>2. BranchTaken => ex.arg # NoPC
      BY ExTypes, AddressTypes DEF Moves, RefInv, CtrlInv
    <2> QED BY <1>2, <2>1, <2>2, ToDecode DEF Plain, PcFacts
  <1>4. ~stepped
    BY SteppedByState DEF SteppedFacts, Moves
  <1>5. stepped' = stepped
    BY <1>3, <1>4 DEF stepped
  <1> QED
    BY <1>1, <1>3, <1>5, Stutters DEF Refines

(* An interrupt before the instruction to execute next *)
LEMMA IrqRefines ==
  ASSUME NEW c, NEW o, Moves(c, o), irq_req, ~debug_mode_q,
         \/ ctrl_fsm_cs = "FIRST_FETCH" /\ o.epc = pc_if
         \/ ctrl_fsm_cs = "DECODE" /\ ~BranchTaken /\ instr_valid_id /\ o.epc = pc_id
         \/ ctrl_fsm_cs = "IRQ_FLUSH_ELW" /\ o.epc = pc_id,
         o.ns = "DECODE", o.set = IrqPC, o.halt_id, o.save = "trap", ~o.restore,
         o.debug_mode = debug_mode_q, o.entry = debug_req_entry_q, o.wakeup = debug_force_wakeup_q
  PROVE  Refines
  <1>1. /\ ~Issues(c, o) /\ ~o.entry /\ ~o.wakeup
        /\ instr_valid_id => ctrl_fsm_cs = "DECODE"
    BY DEF Issues, Moves, RefInv, Entering, CtrlInv, InFlight, Emptying
  <1>2. IrqPC # NoPC
    BY AddressTypes
  <1>3. RefInv' /\ ~stepped' /\ pc' = IrqPC
    BY <1>1, <1>2, ToDecode
  <1>4. pc = o.epc /\ ~stepped
    BY PcByState, SteppedByState DEF PcFacts, SteppedFacts, Moves
  <1>5. ex.op \notin TrapCsrs
    BY DEF Moves, RefInv, CtrlInv, InFlight, Drained, TrapCsrs, Bubble
  <1>6. Machine!IrqEnabled
    <2>1. mstatus = mstatus_q /\ mie = mie_bypass /\ dcsr = dcsr_q
      BY <1>5, DebugFrame DEF mstatus, mie, TrapCsrs
    <2> QED BY <2>1 DEF Machine!IrqEnabled, irq_req, irq
  <1>7. Machine!Save
    <2>1. mepc' = pc /\ mstatus' = [mie |-> FALSE, mpie |-> mstatus.mie]
      BY <1>1, <1>4, <1>5, SavedRegisters DEF TrapCsrs
    <2>2. UNCHANGED <<effects, mie, tdata1, dcsr, dpc>>
      BY <1>1, QuietRegisters
    <2>3. debug' = debug
      BY ControlFrame DEF debug
    <2> QED BY <2>1, <2>2, <2>3 DEF Machine!Save
  <1>8. stepped' = stepped
    BY <1>3, <1>4 DEF stepped
  <1>9. Machine!TakeIrq
    BY <1>3, <1>4, <1>6, <1>7, <1>8 DEF Machine!TakeIrq, debug
  <1> QED
    BY <1>3, <1>9 DEF Refines, Machine!Step

(* Entering Debug Mode *)
LEMMA EnterDebugRefines ==
  ASSUME NEW c, NEW o, Moves(c, o), ~o.decoding,
         \/ /\ ctrl_fsm_cs = "DBG_TAKEN_IF" /\ o.epc = pc_if
            /\ o.cause = IF debug_force_wakeup_q THEN "haltreq"
                         ELSE IF single_step THEN "step" ELSE "ebreak"
         \/ /\ ctrl_fsm_cs = "DBG_TAKEN_ID" /\ ~debug_mode_q /\ o.epc = pc_id
            /\ o.cause = IF trigger_match THEN "trigger"
                         ELSE IF ebrk_force /\ (Op = "ebreak") THEN "ebreak"
                         ELSE IF debug_req_entry_q THEN "haltreq" ELSE "ebreak",
         o.ns = "DECODE", o.set = DbgPC, o.save = "debug", ~o.restore, o.debug_mode = TRUE,
         ~o.entry, ~o.wakeup
  PROVE  Refines
  <1>1. ~Issues(c, o) /\ ~debug_mode_q /\ ~instr_valid_id
    BY DEF Issues, Moves, RefInv, Modes, CtrlInv, InFlight, Emptying
  <1>2. DbgPC # NoPC
    BY AddressTypes
  <1>3. RefInv' /\ ~stepped' /\ pc' = DbgPC
    BY <1>1, <1>2, ToDecode
  <1>4. pc = o.epc
    BY PcByState DEF PcFacts, Moves
  <1>5. dcsr = dcsr_q /\ tdata1 = tmatch_control_exec_q
    BY <1>1, DebugFrame
  <1>6. /\ o.cause \in {"trigger", "ebreak", "haltreq", "step"}
        /\ CASE o.cause = "trigger" -> Machine!Triggered
             [] o.cause = "ebreak"  -> dcsr.ebreakm
             [] o.cause = "haltreq" -> dreq
             [] o.cause = "step"    -> stepped
        /\ stepped => o.cause \in {"step", "haltreq"}
    <2>1. SteppedFacts
      BY SteppedByState DEF Moves
    <2>2. CASE ctrl_fsm_cs = "DBG_TAKEN_IF"
      BY <2>1, <2>2 DEF SteppedFacts, Moves, RefInv, Entering, dreq
    <2>3. CASE ctrl_fsm_cs = "DBG_TAKEN_ID"
      <3>1. ~stepped
        BY <2>1, <2>3 DEF SteppedFacts
      <3>2. trigger_match \/ (ebrk_force /\ Op = "ebreak") \/ debug_req_entry_q
        BY <1>1, <2>3 DEF Moves, RefInv, Entering
      <3>3. debug_req_entry_q => debug_req_q \/ trigger_match
        BY DEF Moves, RefInv, Entering
      <3>4. trigger_match => Machine!Triggered
        BY <1>4, <1>5, <2>3 DEF trigger_match, Machine!Triggered
      <3>5. ebrk_force => dcsr.ebreakm
        BY <1>5 DEF ebrk_force
      <3> QED BY <2>3, <3>1, <3>2, <3>3, <3>4, <3>5 DEF dreq
    <2> QED BY <2>2, <2>3
  <1>7. Machine!EnterDebug(o.cause)
    <2>1. /\ UNCHANGED <<effects, mstatus, mepc, mie, tdata1>>
          /\ dpc' = pc /\ dcsr' = [dcsr EXCEPT !.cause = o.cause]
      BY <1>1, <1>4, QuietRegisters, SavedRegisters
    <2>2. debug' = TRUE /\ ~debug /\ stepped' = FALSE
      BY <1>1, <1>3, ControlFrame DEF debug, stepped
    <2> QED BY <1>3, <1>6, <2>1, <2>2 DEF Machine!EnterDebug
  <1> QED
    BY <1>3, <1>6, <1>7 DEF Refines, Machine!Step

(* ebreak in Debug Mode *)
LEMMA EbreakInDebugRefines ==
  ASSUME NEW c, NEW o, Moves(c, o), ~o.decoding, ctrl_fsm_cs = "DBG_TAKEN_ID", debug_mode_q,
         o.ns = "DECODE", o.set = DbgPC, o.save = "no", ~o.restore, o.debug_mode = TRUE,
         ~o.entry, ~o.wakeup
  PROVE  Refines
  <1>1. ~Issues(c, o) /\ ~instr_valid_id /\ debug_mode_q = TRUE /\ DbgPC # NoPC
    BY AddressTypes DEF Issues, Moves, RefInv, CtrlInv, TypeOK, InFlight, Emptying
  <1>2. RefInv' /\ ~stepped' /\ pc' = DbgPC
    BY <1>1, ToDecode
  <1>3. UNCHANGED <<effects, mstatus, mepc, mie, debug, dcsr, dpc, tdata1>>
    BY <1>1, QuietRegisters, ControlFrame DEF debug
  <1>4. stepped' = (dcsr.step /\ ~debug)
    BY <1>1, <1>2 DEF debug, stepped
  <1>5. Machine!EbreakInDebug
    BY <1>2, <1>3, <1>4 DEF Machine!EbreakInDebug, Machine!Goto, Machine!regs, debug
  <1> QED
    BY <1>2, <1>5 DEF Refines, Machine!Step

(* The pipeline is flushed: the instruction is kept, nothing is fetched. *)
FlushStep(c, o) ==
  /\ Moves(c, o) /\ ctrl_fsm_cs = "FLUSH_EX"
  /\ o.ns \in {"FLUSH_EX", "FLUSH_WB"} /\ (o.ns = "FLUSH_WB" => ExReady(c))
  /\ o.halt_if /\ o.halt_id /\ o.set = NoPC /\ ~o.restore /\ o.illegal = illegal_insn_q
  /\ o.debug_mode = debug_mode_q /\ o.entry = debug_req_entry_q
  /\ o.wakeup = debug_force_wakeup_q

LEMMA FlushStepInv ==
  ASSUME NEW c, NEW o, FlushStep(c, o)
  PROVE  /\ RefInv' /\ ~Issues(c, o) /\ ~stepped
         /\ UNCHANGED <<pc_if, pc_id, instr_id, illegal_insn_q, debug_mode_q, Op>>
         /\ Trapping' <=> Trapping
         /\ Trapping => ex = Bubble
  <1>1. ~Issues(c, o) /\ (ex' = ex \/ ex' = Bubble)
    BY QuietEx DEF FlushStep, Issues
  <1>2. /\ ctrl_fsm_cs' = o.ns
        /\ UNCHANGED <<pc_if, pc_id, instr_id, illegal_insn_q, debug_mode_q, Op>>
        /\ UNCHANGED <<debug_req_entry_q, debug_force_wakeup_q>>
    BY ControlFrame, FetchFrame DEF FlushStep
  <1>3. Addresses' /\ Modes' /\ Entering'
    <2>1. Addresses'
      BY <1>2 DEF Addresses, FlushStep, Moves, RefInv
    <2>2. Modes'
      BY <1>2 DEF Modes, FlushStep, Moves, RefInv
    <2>3. Entering'
      BY <1>2 DEF Entering, FlushStep, Moves, RefInv
    <2> QED BY <2>1, <2>2, <2>3
  <1>4. Executing'
    <2>1. CASE o.ns = "FLUSH_WB"
      BY <1>1, <2>1, QuietExecuting DEF FlushStep
    <2>2. CASE o.ns = "FLUSH_EX"
      BY <1>1, <1>2, <2>2, QuietEx
         DEF Executing, FlushStep, Moves, RefInv, csr_status, Bubble
    <2> QED BY <2>1, <2>2 DEF FlushStep
  <1>5. RefInv'
    BY <1>3, <1>4 DEF RefInv, FlushStep, Moves
  <1>6. ~stepped
    BY SteppedByState DEF SteppedFacts, FlushStep, Moves
  <1>7. Trapping' <=> Trapping
    BY <1>2 DEF Trapping
  <1>8. Trapping => ex = Bubble
    BY DEF Trapping, FlushStep, Moves, RefInv, Executing, csr_status
  <1> QED
    BY <1>1, <1>2, <1>5, <1>6, <1>7, <1>8

LEMMA FlushExRefines ==
  ASSUME NEW c, NEW o, FlushStep(c, o), o.ns = "FLUSH_WB" => ~Trapping, o.save = "no"
  PROVE  Refines
  <1>1. Still
    BY FlushStepInv, StillMove DEF FlushStep, Plain
  <1>2. pc' = pc /\ ~stepped /\ ~stepped'
    <2>1. PcFacts /\ PcFacts' /\ SteppedFacts'
      BY FlushStepInv, PcByState, PcByNextState DEF FlushStep, Moves
    <2>2. ctrl_fsm_cs' = o.ns
      BY ControlFrame DEF FlushStep
    <2>3. ~stepped /\ ~stepped'
      BY <2>1, <2>2, FlushStepInv DEF SteppedFacts, FlushStep
    <2>4. pc' = pc
      BY <2>1, <2>2, FlushStepInv DEF PcFacts, FlushStep
    <2> QED BY <2>3, <2>4
  <1>3. stepped' = stepped
    BY <1>2 DEF stepped
  <1> QED
    BY <1>1, <1>2, <1>3, FlushStepInv, Stutters DEF Refines

LEMMA ExceptionRefines ==
  ASSUME NEW c, NEW o, FlushStep(c, o), o.ns = "FLUSH_WB", Trapping, o.epc = pc_id,
         o.save = IF debug_mode_q THEN "no" ELSE "trap"
  PROVE  Refines
  <1>1. ctrl_fsm_cs' = "FLUSH_WB" /\ Trapping' /\ ex = Bubble
    BY ControlFrame, FlushStepInv DEF FlushStep
  <1>2. pc = pc_id
    BY <1>1, PcByState DEF PcFacts, FlushStep, Moves
  <1>3. pc' = IF debug_mode_q THEN DbgExcPC ELSE ExcPC
    BY <1>1, FlushStepInv, PcByNextState DEF PcFacts
  <1>4. stepped' <=> single_step' /\ ~debug_mode_q
    BY <1>1, FlushStepInv, PcByNextState DEF SteppedFacts
  <1>5. stepped' = (dcsr.step /\ ~debug)
    <2>1. CASE debug_mode_q
      BY <1>4, <2>1 DEF debug, stepped
    <2>2. CASE ~debug_mode_q
      <3>1. dcsr_q' = dcsr_q /\ dcsr = dcsr_q
        BY <2>2, DebugFrame DEF FlushStep
      <3>2. dcsr_q.step \in BOOLEAN
        BY DEF FlushStep, Moves, RefInv, CtrlInv, TypeOK, DCsr
      <3> QED BY <1>4, <2>2, <3>1, <3>2 DEF debug, single_step, stepped
    <2> QED BY <2>1, <2>2
  <1>6. UNCHANGED <<effects, mie, tdata1, dcsr, dpc, debug>>
    BY FlushStepInv, QuietRegisters, ControlFrame DEF FlushStep, debug
  <1>7. CASE debug_mode_q
    <2>1. UNCHANGED <<mstatus, mepc>>
      BY <1>7, FlushStepInv, QuietRegisters DEF FlushStep
    <2>2. Machine!Exception
      BY <1>3, <1>5, <1>6, <1>7, <2>1, FlushStepInv
         DEF Machine!Exception, Machine!Goto, Machine!regs, debug
    <2> QED BY <2>2, FlushStepInv DEF Refines, Machine!Step
  <1>8. CASE ~debug_mode_q
    <2>1. mepc' = pc /\ mstatus' = [mie |-> FALSE, mpie |-> mstatus.mie]
      BY <1>1, <1>2, <1>8, FlushStepInv, SavedRegisters DEF FlushStep, Bubble
    <2>2. Machine!Save
      BY <1>6, <2>1 DEF Machine!Save
    <2>3. Machine!Exception
      BY <1>3, <1>5, <1>8, <2>2, FlushStepInv DEF Machine!Exception, Machine!Goto, debug
    <2> QED BY <2>3, FlushStepInv DEF Refines, Machine!Step
  <1> QED
    BY <1>7, <1>8

(* Whatever leads to entering Debug Mode in front of the next instruction  *)
LEMMA ToDebugIf ==
  ASSUME NEW c, NEW o, Moves(c, o), ~Issues(c, o), o.ns = "DBG_TAKEN_IF",
         ~debug_mode_q, o.debug_mode = debug_mode_q, o.save # "debug", ~o.entry,
         ~instr_valid_id, o.set # NoPC \/ o.halt_if,
         (o.wakeup /\ debug_req_pending(c)) \/ (~o.wakeup /\ single_step)
  PROVE  /\ RefInv' /\ (stepped' <=> ~o.wakeup)
         /\ pc' = IF o.set # NoPC THEN o.set ELSE pc_if
  <1>1. /\ ctrl_fsm_cs' = "DBG_TAKEN_IF" /\ ~debug_req_entry_q' /\ debug_force_wakeup_q' = o.wakeup
        /\ debug_mode_q' = debug_mode_q /\ (debug_req_q' <=> debug_req_pending(c))
    BY ControlFrame
  <1>2. single_step' = single_step
    BY DebugFrame DEF single_step
  <1>3. Addresses' /\ Modes' /\ Entering'
    BY <1>1, <1>2 DEF Addresses, Modes, Entering
  <1>4. Executing'
    BY QuietExecuting
  <1>5. RefInv'
    BY <1>3, <1>4 DEF RefInv, Moves
  <1>6. /\ pc' = pc_if'
        /\ stepped' <=> ~debug_force_wakeup_q'
    BY <1>1, <1>5, PcByNextState DEF PcFacts, SteppedFacts
  <1> QED
    BY <1>1, <1>5, <1>6, FetchFrame

(* A debug request finds the core asleep, falling asleep or just started.  *)
LEMMA WakeForDebugRefines ==
  ASSUME NEW c, NEW o, Moves(c, o), ~o.decoding, o.ns = "DBG_TAKEN_IF",
         \/ ctrl_fsm_cs = "BOOT_SET" /\ o.set = BootPC
         \/ ctrl_fsm_cs = "SLEEP" /\ o.set = NoPC /\ o.halt_if
         \/ ctrl_fsm_cs = "FLUSH_WB" /\ Op = "wfi" /\ ~Trapping /\ o.set = NoPC /\ o.halt_if,
         debug_req_pending(c), o.wakeup = TRUE, o.save = "no", ~o.restore,
         o.debug_mode = debug_mode_q, o.entry = debug_req_entry_q
  PROVE  Refines
  <1>1. ~Issues(c, o) /\ ~debug_mode_q /\ ~o.entry /\ ~instr_valid_id
    BY DEF Issues, Moves, RefInv, Modes, Entering, Trapping, CtrlInv, InFlight, Emptying
  <1>2. Still
    BY <1>1, QuietRegisters, ControlFrame DEF Still, debug
  <1>3. BootPC # NoPC
    BY AddressTypes
  <1>4. RefInv' /\ ~stepped' /\ pc' = IF o.set # NoPC THEN o.set ELSE pc_if
    BY <1>1, <1>3, ToDebugIf
  <1>5. PcFacts /\ SteppedFacts
    BY PcByState, SteppedByState DEF Moves
  <1>6. pc' = pc /\ ~stepped
    BY <1>3, <1>4, <1>5 DEF PcFacts, SteppedFacts
  <1>7. stepped' = stepped
    BY <1>4, <1>6 DEF stepped
  <1> QED
    BY <1>2, <1>4, <1>6, <1>7, Stutters DEF Refines

(* The jump to the handler of an exception *)
LEMMA HandlerRefines ==
  ASSUME NEW c, NEW o, Moves(c, o), ctrl_fsm_cs = "FLUSH_WB", Trapping, Plain(o), ~o.decoding,
         o.ns = IF single_step /\ ~debug_mode_q THEN "DBG_TAKEN_IF" ELSE "DECODE",
         o.set = IF debug_mode_q /\ (illegal_insn_q \/ Op = "ecall") THEN DbgExcPC ELSE ExcPC
  PROVE  Refines
  <1>1. ~Issues(c, o) /\ ~o.entry /\ ~o.wakeup /\ ~instr_valid_id /\ o.set # NoPC
    BY AddressTypes
       DEF Issues, Plain, Moves, RefInv, Entering, CtrlInv, InFlight, Emptying
  <1>2. Still
    BY <1>1, StillMove
  <1>3. /\ pc = IF debug_mode_q THEN DbgExcPC ELSE ExcPC
        /\ stepped <=> single_step /\ ~debug_mode_q
    BY PcByState, SteppedByState DEF PcFacts, SteppedFacts, Moves
  <1>4. pc = o.set
    BY <1>3 DEF Moves, RefInv, Modes, Trapping
  <1>5. RefInv' /\ pc' = pc /\ (stepped' <=> stepped)
    BY <1>1, <1>3, <1>4, ToDecode, ToDebugIf DEF Plain
  <1>6. stepped' = stepped
    BY <1>5 DEF stepped
  <1> QED
    BY <1>2, <1>5, <1>6, Stutters DEF Refines

(* mret in FLUSH_WB *)
LEMMA MretRefines ==
  ASSUME NEW c, NEW o, Moves(c, o), ctrl_fsm_cs = "FLUSH_WB", ~Trapping, Op = "mret",
         o.ns = "XRET_JUMP", o.set = NoPC, o.halt_if, o.halt_id, ~o.decoding, o.save = "no",
         o.restore = ~debug_mode_q, o.debug_mode = debug_mode_q,
         o.entry = debug_req_entry_q, o.wakeup = debug_force_wakeup_q
  PROVE  Refines
  <1>1. /\ ~Issues(c, o) /\ ~debug_req_entry_q /\ ~debug_force_wakeup_q /\ ex = Bubble
    BY DEF Issues, Moves, RefInv, Entering, CtrlInv, InFlight, Drained
  <1>2. /\ ctrl_fsm_cs' = "XRET_JUMP" /\ ~debug_req_entry_q' /\ ~debug_force_wakeup_q'
        /\ debug_mode_q' = debug_mode_q /\ Op' = "mret"
    BY <1>1, ControlFrame, FetchFrame
  <1>3. Addresses' /\ Modes' /\ Entering'
    BY <1>2 DEF Addresses, Modes, Entering
  <1>4. RefInv'
    BY <1>1, <1>3, QuietExecuting DEF RefInv, Moves
  <1>5. pc = pc_id /\ ~stepped
    BY PcByState, SteppedByState DEF PcFacts, SteppedFacts, Moves
  <1>6. /\ pc' = IF debug_mode_q THEN DbgExcPC ELSE mepc_q'
        /\ stepped' <=> single_step' /\ ~debug_mode_q
    BY <1>2, <1>4, PcByNextState DEF PcFacts, SteppedFacts
  <1>7. UNCHANGED <<effects, mepc, mie, dcsr, dpc, tdata1, debug>>
    BY <1>1, QuietRegisters, ControlFrame DEF debug
  <1>8. stepped' = (dcsr.step /\ ~debug)
    <2>1. CASE debug_mode_q
      BY <1>6, <2>1 DEF debug, stepped
    <2>2. CASE ~debug_mode_q
      <3>1. dcsr_q' = dcsr_q /\ dcsr = dcsr_q
        BY <2>2, DebugFrame
      <3>2. dcsr_q.step \in BOOLEAN
        BY DEF Moves, RefInv, CtrlInv, TypeOK, DCsr
      <3> QED BY <1>6, <2>2, <3>1, <3>2 DEF debug, single_step, stepped
    <2> QED BY <2>1, <2>2
  <1>9. Machine!Mret
    <2>1. CASE debug_mode_q
      <3>1. UNCHANGED mstatus
        BY <1>1, <2>1, QuietRegisters
      <3> QED BY <1>5, <1>6, <1>7, <1>8, <2>1, <3>1
                DEF Machine!Mret, Machine!Goto, Machine!regs, debug
    <2>2. CASE ~debug_mode_q
      <3>1. mstatus' = [mie |-> mstatus.mpie, mpie |-> TRUE]
        BY <1>1, <2>2, SavedRegisters
      <3>2. mepc_q' = mepc
        BY <1>1 DEF Moves, Edge, CsrEdge, mepc, Bubble
      <3> QED BY <1>5, <1>6, <1>7, <1>8, <2>2, <3>1, <3>2
                DEF Machine!Mret, Machine!Goto, debug
    <2> QED BY <2>1, <2>2
  <1> QED
    BY <1>4, <1>9 DEF Refines, Machine!Step

(* dret and wfi in FLUSH_WB *)
LEMMA DretWfiRefines ==
  ASSUME NEW c, NEW o, Moves(c, o), ctrl_fsm_cs = "FLUSH_WB", ~Trapping, Plain(o), ~o.decoding,
         \/ Op = "dret" /\ o.ns = "XRET_JUMP"
         \/ Op = "wfi" /\ o.ns = "WAIT_SLEEP",
         o.set = NoPC, o.halt_if, o.halt_id
  PROVE  Refines
  <1>1. ~Issues(c, o) /\ ~debug_req_entry_q /\ ~debug_force_wakeup_q
    BY DEF Issues, Moves, RefInv, Entering
  <1>2. /\ ctrl_fsm_cs' = o.ns /\ ~debug_req_entry_q' /\ ~debug_force_wakeup_q'
        /\ debug_mode_q' = debug_mode_q /\ Op' = Op /\ pc_id' = pc_id /\ pc_if' = pc_if
    BY <1>1, ControlFrame, FetchFrame DEF Plain
  <1>3. Still
    BY <1>1, StillMove
  <1>4. /\ Op = "dret" => debug_mode_q
        /\ Op = "wfi" => ~debug_mode_q
    BY DEF Moves, RefInv, Modes, Trapping
  <1>5. Addresses' /\ Modes' /\ Entering'
    BY <1>2, <1>4 DEF Addresses, Modes, Entering
  <1>6. RefInv'
    BY <1>1, <1>5, QuietExecuting DEF RefInv, Moves, Plain
  <1>7. pc' = pc /\ ~stepped /\ ~stepped'
    <2>1. PcFacts /\ PcFacts' /\ SteppedFacts /\ SteppedFacts'
      BY <1>6, PcByState, SteppedByState, PcByNextState DEF Moves
    <2> QED BY <1>2, <2>1 DEF PcFacts, SteppedFacts
  <1>8. stepped' = stepped
    BY <1>7 DEF stepped
  <1> QED
    BY <1>3, <1>6, <1>7, <1>8, Stutters DEF Refines

(* Any other instruction in FLUSH_WB has taken effect before; fence.i      *)
(* fetches the next one again.                                             *)
LEMMA FlushWbRefines ==
  ASSUME NEW c, NEW o, Moves(c, o), ctrl_fsm_cs = "FLUSH_WB", ~Trapping, Plain(o), ~o.decoding,
         Op \notin {"mret", "dret"}, o.ns = "DECODE",
         o.set = NoPC \/ (Op = "fencei" /\ o.set = NextPC(pc_id))
  PROVE  Refines
  <1>1. ~Issues(c, o) /\ ~o.entry /\ ~o.wakeup /\ ~instr_valid_id
    BY DEF Issues, Plain, Moves, RefInv, Entering, CtrlInv, InFlight, Emptying
  <1>2. Still
    BY <1>1, StillMove
  <1>3. pc = pc_if /\ ~stepped
    BY PcByState, SteppedByState DEF PcFacts, SteppedFacts, Moves
  <1>4. Op = "fencei" => pc_if = NextPC(pc_id)
    BY DEF Moves, RefInv, Addresses
  <1>5. RefInv' /\ ~stepped' /\ pc' = pc
    BY <1>1, <1>3, <1>4, ToDecode DEF Plain
  <1>6. stepped' = stepped
    BY <1>3, <1>5 DEF stepped
  <1> QED
    BY <1>2, <1>5, <1>6, Stutters DEF Refines

(* The jump of an mret *)
LEMMA MretJumpRefines ==
  ASSUME NEW c, NEW o, Moves(c, o), ctrl_fsm_cs = "XRET_JUMP", Op = "mret", Plain(o), ~o.decoding,
         o.ns = IF single_step /\ ~debug_mode_q THEN "DBG_TAKEN_IF" ELSE "DECODE",
         o.set = IF debug_mode_q THEN DbgExcPC ELSE mepc_q
  PROVE  Refines
  <1>1. ~Issues(c, o) /\ ~o.entry /\ ~o.wakeup /\ ~instr_valid_id /\ o.set # NoPC
    BY AddressTypes
       DEF Issues, Plain, Moves, RefInv, Entering, CtrlInv, TypeOK, InFlight, Emptying
  <1>2. Still
    BY <1>1, StillMove
  <1>3. pc = o.set /\ (stepped <=> single_step /\ ~debug_mode_q)
    BY PcByState, SteppedByState DEF PcFacts, SteppedFacts, Moves
  <1>4. RefInv' /\ pc' = pc /\ (stepped' <=> stepped)
    BY <1>1, <1>3, ToDecode, ToDebugIf DEF Plain
  <1>5. stepped' = stepped
    BY <1>4 DEF stepped
  <1> QED
    BY <1>2, <1>4, <1>5, Stutters DEF Refines

(* dret leaves Debug Mode. *)
LEMMA DretJumpRefines ==
  ASSUME NEW c, NEW o, Moves(c, o), ctrl_fsm_cs = "XRET_JUMP", Op = "dret", ~o.decoding,
         o.ns = "DECODE", o.set = depc_q, o.debug_mode = FALSE, o.save = "no", ~o.restore,
         o.entry = debug_req_entry_q, o.wakeup = debug_force_wakeup_q
  PROVE  Refines
  <1>1. /\ ~Issues(c, o) /\ ~o.entry /\ ~o.wakeup /\ ~instr_valid_id /\ o.set # NoPC
        /\ ex = Bubble /\ debug_mode_q
    BY AddressTypes
       DEF Issues, Moves, RefInv, Entering, Modes, CtrlInv, TypeOK, InFlight, Emptying, Drained
  <1>2. RefInv' /\ ~stepped' /\ pc' = depc_q
    BY <1>1, ToDecode
  <1>3. UNCHANGED <<effects, mstatus, mepc, mie, dcsr, dpc, tdata1>> /\ debug' = FALSE
    BY <1>1, QuietRegisters, ControlFrame
  <1>4. dpc = depc_q
    BY <1>1 DEF dpc, Bubble
  <1>5. stepped' = (dcsr.step /\ ~debug)
    BY <1>1, <1>2 DEF debug, stepped
  <1>6. Machine!Dret
    BY <1>1, <1>2, <1>3, <1>4, <1>5 DEF Machine!Dret, Machine!Goto, debug
  <1> QED
    BY <1>2, <1>6 DEF Refines, Machine!Step

(* The event load *)
LEMMA ElwWaitRefines ==
  ASSUME NEW c, NEW o, Moves(c, o), ctrl_fsm_cs = "ELW_EXE", Plain(o), ~o.decoding,
         o.ns \in {"ELW_EXE", "IRQ_FLUSH_ELW", "DBG_FLUSH"},
         o.set = NoPC, o.halt_if, o.halt_id
  PROVE  Refines
  <1>1. ~Issues(c, o) /\ ~debug_req_entry_q /\ ~debug_force_wakeup_q /\ Op = "elw"
    BY DEF Issues, Moves, RefInv, Entering, Executing
  <1>2. /\ ctrl_fsm_cs' = o.ns /\ ~debug_req_entry_q' /\ ~debug_force_wakeup_q'
        /\ debug_mode_q' = debug_mode_q /\ Op' = Op
        /\ UNCHANGED <<pc_id, pc_if, instr_id>>
    BY <1>1, ControlFrame, FetchFrame DEF Plain
  <1>3. o.ns # "DBG_FLUSH"
    BY <1>1, <1>2 DEF Moves, WellUsed
  <1>4. Still
    BY <1>1, StillMove
  <1>5. Addresses' /\ Modes' /\ Entering'
    BY <1>2, <1>3 DEF Addresses, Modes, Entering, Moves, RefInv
  <1>6. Executing'
    <2>1. ex' = ex \/ ex' = Bubble
      BY <1>1, QuietEx
    <2>2. ex' \in {Bubble, instr_id'} /\ ex'.op \notin {"branch", "csr_dcsr", "csr_dpc"}
      BY <1>1, <1>2, <2>1 DEF Moves, RefInv, Executing, Bubble, Op
    <2>3. ~(single_step' /\ ~debug_mode_q')
      BY <1>2, DebugFrame DEF single_step, Plain, Moves, RefInv, Executing
    <2> QED BY <1>1, <1>2, <1>3, <2>2, <2>3 DEF Executing
  <1>7. RefInv'
    BY <1>5, <1>6 DEF RefInv, Moves
  <1>8. pc' = pc /\ ~stepped /\ ~stepped'
    <2>1. PcFacts /\ PcFacts' /\ SteppedFacts /\ SteppedFacts'
      BY <1>7, PcByState, SteppedByState, PcByNextState DEF Moves
    <2> QED BY <1>2, <1>3, <2>1 DEF PcFacts, SteppedFacts
  <1>9. stepped' = stepped
    BY <1>8 DEF stepped
  <1> QED
    BY <1>4, <1>7, <1>8, <1>9, Stutters DEF Refines

LEMMA ElwDoneRefines ==
  ASSUME NEW c, NEW o, Moves(c, o), ctrl_fsm_cs = "IRQ_FLUSH_ELW", Plain(o), ~o.decoding,
         o.ns = "DECODE", o.set = NoPC
  PROVE  Refines
  <1>1. /\ ~Issues(c, o) /\ ~o.entry /\ ~o.wakeup /\ ~instr_valid_id
        /\ pc_if = NextPC(pc_id) /\ ~(single_step /\ ~debug_mode_q) /\ ex = Bubble
    BY DEF Issues, Plain, Moves, RefInv, Entering, Executing, Addresses, CtrlInv, InFlight,
       Emptying, Drained
  <1>2. Still
    BY <1>1, StillMove
  <1>3. pc = pc_id /\ ~stepped
    BY PcByState, SteppedByState DEF PcFacts, SteppedFacts, Moves
  <1>4. RefInv' /\ ~stepped' /\ pc' = NextPC(pc)
    BY <1>1, <1>3, ToDecode DEF Plain
  <1>5. stepped' = (dcsr.step /\ ~debug)
    BY <1>1, <1>4 DEF dcsr, debug, single_step, stepped, Bubble
  <1>6. Machine!EventLoad
    BY <1>2, <1>3, <1>4, <1>5 DEF Machine!EventLoad, Machine!Goto, Machine!regs, Machine!NextPC, NextPC,
                                      Still
  <1> QED
    BY <1>4, <1>6 DEF Refines, Machine!Step

(* On the way into Debug Mode *)
LEMMA DbgFlushRefines ==
  ASSUME NEW c, NEW o, Moves(c, o), ctrl_fsm_cs = "DBG_FLUSH", Plain(o), ~o.decoding,
         o.ns = IF BeforeID THEN "DBG_TAKEN_ID" ELSE "DBG_TAKEN_IF",
         o.set = NoPC, o.halt_if, o.halt_id
  PROVE  Refines
  <1>1. ~Issues(c, o) /\ ~debug_force_wakeup_q
    BY DEF Issues, Moves, RefInv, Entering
  <1>2. /\ ctrl_fsm_cs' = o.ns /\ debug_req_entry_q' = debug_req_entry_q
        /\ ~debug_force_wakeup_q' /\ debug_mode_q' = debug_mode_q /\ Op' = Op
        /\ UNCHANGED <<pc_id, pc_if>>
    BY <1>1, ControlFrame, FetchFrame DEF Plain
  <1>3. Still
    BY <1>1, StillMove
  <1>4. PcFacts /\ SteppedFacts
    BY PcByState, SteppedByState DEF Moves
  <1>5. CASE BeforeID
    <2>1. ~debug_mode_q => (trigger_match' <=> trigger_match) /\ ebrk_force' = ebrk_force
                           /\ (debug_req_q => debug_req_q')
      BY <1>2, DebugFrame, ControlFrame DEF trigger_match, ebrk_force, Plain, debug_req_pending
    <2>2. Entering'
      BY <1>2, <1>5, <2>1 DEF Entering, Moves, RefInv, WellUsed, BeforeID
    <2>3. Addresses' /\ Modes'
      BY <1>2, <1>5 DEF Addresses, Modes
    <2>4. RefInv'
      BY <1>1, <1>5, <2>2, <2>3, QuietExecuting DEF RefInv, Moves, Plain
    <2>5. pc' = pc /\ ~stepped /\ ~stepped'
      BY <1>2, <1>4, <1>5, <2>4, PcByNextState DEF PcFacts, SteppedFacts
    <2>6. stepped' = stepped
      BY <2>5 DEF stepped
    <2> QED BY <1>3, <2>4, <2>5, <2>6, Stutters DEF Refines
  <1>6. CASE ~BeforeID
    <2>1. single_step /\ ~instr_valid_id /\ ~debug_mode_q /\ ~debug_req_entry_q
      BY <1>6 DEF Moves, RefInv, Entering, BeforeID
    <2>2. RefInv' /\ stepped' /\ pc' = pc_if
      BY <1>1, <1>6, <2>1, ToDebugIf DEF Plain
    <2>3. pc' = pc /\ stepped
      BY <1>4, <1>6, <2>2 DEF PcFacts, SteppedFacts
    <2>4. stepped' = stepped
      BY <2>2, <2>3 DEF stepped
    <2> QED BY <1>3, <2>2, <2>3, <2>4, Stutters DEF Refines
  <1> QED
    BY <1>5, <1>6

(* The single-stepped branch leaves EX. *)
LEMMA DbgWaitBranchRefines ==
  ASSUME NEW c, NEW o, Moves(c, o), ctrl_fsm_cs = "DBG_WAIT_BRANCH", Plain(o), ~o.decoding,
         o.ns = "DBG_FLUSH", o.set = IF BranchTaken THEN ex.arg ELSE NoPC, o.halt_if
  PROVE  Refines
  <1>1. /\ ~Issues(c, o) /\ ~debug_force_wakeup_q /\ ~debug_req_entry_q /\ ~debug_mode_q
        /\ single_step /\ ~trigger_match /\ Op = "branch" /\ ~instr_valid_id
    BY DEF Issues, Moves, RefInv, Entering, Modes, CtrlInv, InFlight, Emptying
  <1>2. BranchTaken => o.set # NoPC
    BY ExTypes, AddressTypes DEF Moves, RefInv, CtrlInv
  <1>3. /\ ctrl_fsm_cs' = "DBG_FLUSH" /\ ~debug_req_entry_q' /\ ~debug_force_wakeup_q'
        /\ ~debug_mode_q' /\ Op' = Op /\ pc_id' = pc_id /\ ~instr_valid_id'
        /\ pc_if' = IF BranchTaken THEN ex.arg ELSE pc_if
    BY <1>1, <1>2, ControlFrame, FetchFrame DEF Plain
  <1>4. single_step' /\ ~trigger_match'
    BY <1>1, <1>3, DebugFrame DEF single_step, trigger_match, Plain
  <1>5. ~BeforeID'
    BY <1>1, <1>3, <1>4 DEF BeforeID
  <1>6. Addresses' /\ Modes' /\ Entering'
    BY <1>3, <1>4 DEF Addresses, Modes, Entering
  <1>7. RefInv'
    BY <1>1, <1>6, QuietExecuting DEF RefInv, Moves, Plain
  <1>8. pc' = pc /\ stepped /\ stepped'
    <2>1. PcFacts /\ SteppedFacts /\ PcFacts' /\ SteppedFacts'
      BY <1>7, PcByState, SteppedByState, PcByNextState DEF Moves
    <2> QED BY <1>3, <1>5, <2>1 DEF PcFacts, SteppedFacts
  <1>9. stepped' = stepped
    BY <1>8 DEF stepped
  <1>10. Still
    BY <1>1, StillMove
  <1> QED
    BY <1>7, <1>8, <1>9, <1>10, Stutters DEF Refines

(* A debug request or a trigger stops the instruction in ID. *)
LEMMA DecodeDebugRefines ==
  ASSUME NEW c, NEW o, Moves(c, o), ctrl_fsm_cs = "DECODE", ~BranchTaken, instr_valid_id,
         debug_req_pending(c) \/ trigger_match, ~debug_mode_q,
         o.ns = "DBG_FLUSH", o.set = NoPC, o.halt_if, o.halt_id, o.save = "no", ~o.restore,
         o.debug_mode = debug_mode_q, o.entry = TRUE, o.wakeup = debug_force_wakeup_q
  PROVE  Refines
  <1>1. ~Issues(c, o) /\ ~debug_force_wakeup_q
    BY DEF Issues, Moves, RefInv, Entering
  <1>2. /\ ctrl_fsm_cs' = "DBG_FLUSH" /\ debug_req_entry_q' /\ ~debug_force_wakeup_q'
        /\ ~debug_mode_q' /\ pc_id' = pc_id /\ (debug_req_q' <=> debug_req_pending(c))
    BY <1>1, ControlFrame, FetchFrame
  <1>3. trigger_match' <=> trigger_match
    BY <1>2, DebugFrame DEF trigger_match
  <1>4. BeforeID'
    BY <1>2 DEF BeforeID
  <1>5. Addresses' /\ Modes' /\ Entering'
    BY <1>2, <1>3, <1>4 DEF Addresses, Modes, Entering
  <1>6. RefInv'
    BY <1>1, <1>5, QuietExecuting DEF RefInv, Moves
  <1>7. pc' = pc /\ ~stepped /\ ~stepped'
    <2>1. PcFacts /\ SteppedFacts /\ PcFacts' /\ SteppedFacts'
      BY <1>6, PcByState, SteppedByState, PcByNextState DEF Moves
    <2> QED BY <1>2, <1>4, <2>1 DEF PcFacts, SteppedFacts
  <1>8. stepped' = stepped
    BY <1>7 DEF stepped
  <1>9. Still
    BY <1>1, QuietRegisters, ControlFrame DEF Still, debug
  <1> QED
    BY <1>6, <1>7, <1>8, <1>9, Stutters DEF Refines

-----------------------------------------------------------------------------
(* The instruction in ID *)

(* The fields a CSR holds are the low bits of the value written. *)
LEMMA BitValues ==
  /\ \A n \in Nat : Bit(n, 0) = (n % 2 = 1)
  /\ \A n \in Nat : Bit(n, 1) = ((n \div 2) % 2 = 1)
  /\ \A n \in Nat : Bit(n, 2) = ((n \div 4) % 2 = 1)
  <1>1. 2^0 = 1
    OBVIOUS
  <1>2. 2^1 = 2
    OBVIOUS
  <1>3. 2^2 = 4
    OBVIOUS
  <1>4. \A n \in Nat : n \div 1 = n
    OBVIOUS
  <1> QED
    BY <1>1, <1>2, <1>3, <1>4 DEF Bit

LEMMA LowBits ==
  ASSUME NEW a \in BOOLEAN, NEW b \in BOOLEAN, NEW d \in BOOLEAN
  PROVE  \E n \in 0 .. 7 : /\ Bit(n, 0) = a /\ Bit(n, 1) = b /\ Bit(n, 2) = d
                           /\ ~d => n \in 0 .. 3
  <1> DEFINE n == (IF a THEN 1 ELSE 0) + (IF b THEN 2 ELSE 0) + (IF d THEN 4 ELSE 0)
  <1>1. n \in 0 .. 7 /\ (~d => n \in 0 .. 3) /\ n \in Nat
    OBVIOUS
  <1>2. /\ (n % 2 = 1) = a
        /\ ((n \div 2) % 2 = 1) = b
        /\ ((n \div 4) % 2 = 1) = d
    OBVIOUS
  <1> HIDE DEF n
  <1> QED
    BY <1>1, <1>2, BitValues

LEMMA WrittenValues ==
  ASSUME NEW v
  PROVE  /\ \E n \in 0 .. 3 : MStatusOf(v) = Machine!MStatusOf(n)
         /\ \A cause : \E n \in 0 .. 7 : DCsrOf(v, cause) = Machine!DCsrOf(n, cause)
         /\ Bit(v, 0) \in BOOLEAN
  <1>1. Bit(v, 0) \in BOOLEAN /\ Bit(v, 1) \in BOOLEAN /\ Bit(v, 2) \in BOOLEAN
    BY DEF Bit
  <1>2. \A n, i : Machine!Bit(n, i) = Bit(n, i)
    BY DEF Bit, Machine!Bit
  <1>3. PICK n \in 0 .. 7 : Bit(n, 0) = Bit(v, 0) /\ Bit(n, 1) = Bit(v, 1) /\ n \in 0 .. 3
    BY <1>1, LowBits
  <1>4. PICK m \in 0 .. 7 : Bit(m, 0) = Bit(v, 0) /\ Bit(m, 1) = Bit(v, 1) /\ Bit(m, 2) = Bit(v, 2)
    BY <1>1, LowBits
  <1>5. MStatusOf(v) = Machine!MStatusOf(n)
    BY <1>2, <1>3 DEF MStatusOf, Machine!MStatusOf
  <1>6. \A cause : DCsrOf(v, cause) = Machine!DCsrOf(m, cause)
    BY <1>2, <1>4 DEF DCsrOf, Machine!DCsrOf
  <1> QED
    BY <1>1, <1>3, <1>4, <1>5, <1>6

(* ID hands over its instruction. *)
Leaves(c, o) == Moves(c, o) /\ IdReady(c) /\ ~o.halt_id /\ o.decoding

LEMMA IssuedEx ==
  ASSUME NEW c, NEW o, Leaves(c, o)
  PROVE  /\ illegal_insn => ex' = Bubble
         /\ ~illegal_insn /\ Op # "branch" => ex' = ExOf(instr_id)
         /\ ~illegal_insn /\ Op = "branch" => ex'.op = "branch"
         /\ BranchTaken' => ex'.arg \in PC
         /\ effects' = IF ~illegal_insn /\ Op = "alu" THEN ~effects ELSE effects
  <1>1. IssueEdge(c, o) /\ TypeOK /\ TypeOK'
    BY DEF Leaves, Moves, Edge, RefInv, CtrlInv
  <1>2. Op = "branch" => [instr_id EXCEPT !.arg = NotTaken].op = "branch" /\ instr_id.op = "branch"
    BY <1>1, InstrTypes DEF TypeOK, Op, Bubble
  <1>3. BranchTaken' => ex'.arg \in PC
    BY <1>1, InstrTypes DEF TypeOK, BranchTaken, Bubble
  <1> QED
    BY <1>1, <1>2, <1>3 DEF IssueEdge, Leaves

CsrOps == {"csr_mie", "csr_tdata1", "csr_mstatus", "csr_mepc", "csr_dpc", "csr_dcsr"}

LEMMA ExOfFacts ==
  ASSUME NEW i
  PROVE  /\ ExOf(i) = Bubble \/ ExOf(i) = i
         /\ i.op \in CsrOps \cup {"elw"} => ExOf(i) = i
         /\ i.op \notin CsrOps \cup {"elw", "branch"} => ExOf(i) = Bubble
  BY DEF ExOf, CsrOps

LEMMA IssuedInstr ==
  ASSUME NEW c, NEW o, Leaves(c, o), ~illegal_insn
  PROVE  /\ Op # "branch" => ex' = Bubble \/ (ex' = instr_id /\ ex'.op = Op)
         /\ ex' = Bubble \/ ex'.op = Op
  <1>1. ExOf(instr_id) = Bubble \/ ExOf(instr_id) = instr_id
    BY ExOfFacts
  <1>2. Op # "branch" => ex' = Bubble \/ (ex' = instr_id /\ ex'.op = Op)
    BY <1>1, IssuedEx DEF Op
  <1>3. Op = "branch" => ex'.op = Op
    BY IssuedEx
  <1> QED
    BY <1>2, <1>3

(* Nothing that writes a register is issued. *)
LEMMA SameRegisters ==
  ASSUME NEW c, NEW o, Moves(c, o), Plain(o), effects' = effects, ex' = ex \/ ex'.op \notin CsrOps
  PROVE  Still
  <1>1. \A op \in CsrOps : ex' = ex \/ ex'.op # op
    OBVIOUS
  <1>2. UNCHANGED <<mie, tdata1, mstatus, mepc, dpc, dcsr>>
    BY <1>1, Registers DEF CsrOps, Plain
  <1>3. debug' = debug
    BY ControlFrame DEF Plain, debug
  <1> QED
    BY <1>2, <1>3 DEF Still

(* An instruction waits in ID, and nothing comes before it. *)
Ready(c) ==
  /\ ctrl_fsm_cs = "DECODE" /\ ~BranchTaken /\ instr_valid_id
  /\ debug_mode_q \/ ~(debug_req_pending(c) \/ trigger_match \/ irq_req)

LEMMA ReadyFacts ==
  ASSUME NEW c, NEW o, Moves(c, o), Ready(c)
  PROVE  Machine!MayExecute /\ pc = pc_id /\ ~stepped
  <1>1. pc = pc_id /\ ~stepped
    BY PcByState, SteppedByState DEF PcFacts, SteppedFacts, Moves, Ready
  <1>2. ASSUME ~debug_mode_q
        PROVE  ~(Machine!IrqEnabled \/ Machine!Triggered \/ dreq')
    <2>1. ex.op \notin TrapCsrs
      BY DEF Ready, Moves, RefInv, CtrlInv, InFlight
    <2>2. mstatus = mstatus_q /\ mie = mie_bypass /\ dcsr = dcsr_q /\ tdata1 = tmatch_control_exec_q
      BY <1>2, <2>1, DebugFrame DEF mstatus, mie, TrapCsrs
    <2>3. ~Machine!IrqEnabled
      BY <1>2, <2>2 DEF Machine!IrqEnabled, irq, irq_req, Ready
    <2>4. ~Machine!Triggered
      BY <1>1, <1>2, <2>2 DEF Machine!Triggered, trigger_match, Ready
    <2>5. ~dreq'
      BY <1>2, ControlFrame DEF dreq, Ready
    <2> QED BY <2>3, <2>4, <2>5
  <1> QED
    BY <1>1, <1>2 DEF Machine!MayExecute, debug

(* It executes. *)
LEMMA ExecuteRefines ==
  ASSUME NEW c, NEW o, Leaves(c, o), Plain(o), Ready(c), ~illegal_insn,
         Op \notin {"elw", "ecall", "ebreak", "mret", "dret"},
         RefInv', pc' \in PC, Op \notin {"jump", "branch"} => pc' = NextPC(pc_id),
         stepped' = (dcsr.step /\ ~debug)
  PROVE  Refines
  <1>1. Moves(c, o) /\ Machine!MayExecute /\ pc = pc_id
    BY ReadyFacts DEF Leaves
  <1>2. debug' = debug
    BY <1>1, ControlFrame DEF Plain, debug
  <1>3. ASSUME Op \notin CsrOps, Op # "alu"
        PROVE  Still
    <2>1. effects' = effects
      BY <1>3, IssuedEx
    <2>2. ex'.op \notin CsrOps
      BY <1>3, IssuedEx, ExOfFacts DEF Op, CsrOps, Bubble
    <2> QED BY <1>1, <2>1, <2>2, SameRegisters
  <1>4. CASE Op \in {"jump", "branch"}
    <2>1. Still
      BY <1>3, <1>4 DEF CsrOps
    <2>2. pc' \in Machine!PC
      BY DEF PC, Machine!PC
    <2>3. Machine!Branch
      BY <1>1, <2>1, <2>2 DEF Machine!Branch, Machine!Goto, Machine!regs, Still
    <2> QED BY <2>3 DEF Refines, Machine!Step
  <1>5. Op \notin {"jump", "branch"} => Machine!Goto(Machine!NextPC(pc))
    BY <1>1 DEF Machine!Goto, Machine!NextPC, NextPC
  <1>6. CASE Op = "alu"
    <2>1. ex' = Bubble /\ effects' = ~effects
      BY <1>6, IssuedEx, ExOfFacts DEF Op, CsrOps
    <2>2. \A op \in CsrOps : ex'.op # op
      BY <2>1 DEF CsrOps, Bubble
    <2>3. UNCHANGED <<mie, tdata1, mstatus, mepc, dpc, dcsr>>
      BY <1>1, <2>2, Registers DEF CsrOps, Plain
    <2>4. Machine!Alu
      BY <1>1, <1>2, <1>5, <1>6, <2>1, <2>3 DEF Machine!Alu
    <2> QED BY <2>4 DEF Refines, Machine!Step
  <1>7. CASE Op \in CsrOps
    <2>1. ex' = instr_id /\ ex'.op = Op /\ effects' = effects
      BY <1>7, IssuedEx, ExOfFacts DEF Op, CsrOps
    <2>2. \A op \in CsrOps \ {Op} : ex'.op # op
      BY <2>1
    <2>3. /\ Op # "csr_mie" => mie' = mie
          /\ Op # "csr_tdata1" => tdata1' = tdata1
          /\ Op # "csr_mstatus" => mstatus' = mstatus
          /\ Op # "csr_mepc" => mepc' = mepc
          /\ Op # "csr_dpc" => dpc' = dpc
          /\ Op # "csr_dcsr" => dcsr' = dcsr
      BY <1>1, <2>1, Registers DEF Plain
    <2>4. Op \in {"csr_dcsr", "csr_dpc", "csr_tdata1"} => debug
      <3>1. Op \in {"csr_dcsr", "csr_dpc"} => debug
        BY DEF illegal_insn, DebugOnly, debug
      <3>2. Op = "csr_tdata1" => debug
        BY <1>1, <1>2, <2>1 DEF Moves, WellUsed, debug
      <3> QED BY <3>1, <3>2
    <2>5. Machine!Goto(Machine!NextPC(pc))
      BY <1>5, <1>7 DEF CsrOps
    <2>6. \/ /\ \E v \in 0 .. 3 : mstatus' = Machine!MStatusOf(v)
             /\ UNCHANGED <<mepc, mie, dcsr, dpc, tdata1>>
          \/ mepc' \in Machine!PC /\ UNCHANGED <<mstatus, mie, dcsr, dpc, tdata1>>
          \/ mie' \in BOOLEAN /\ UNCHANGED <<mstatus, mepc, dcsr, dpc, tdata1>>
          \/ /\ debug /\ \E v \in 0 .. 7 : dcsr' = Machine!DCsrOf(v, dcsr.cause)
             /\ UNCHANGED <<mstatus, mepc, mie, dpc, tdata1>>
          \/ debug /\ dpc' \in Machine!PC /\ UNCHANGED <<mstatus, mepc, mie, dcsr, tdata1>>
          \/ debug /\ tdata1' \in BOOLEAN /\ UNCHANGED <<mstatus, mepc, mie, dcsr, dpc>>
      <3>1. CASE Op = "csr_mstatus"
        <4>1. mstatus' = MStatusOf(ex'.arg)
          BY <2>1, <3>1 DEF mstatus
        <4> QED BY <2>3, <3>1, <4>1, WrittenValues
      <3>2. CASE Op = "csr_mepc"
        <4>1. mepc' = instr_id.arg /\ instr_id.arg \in PC
          BY <2>1, <3>2, InstrTypes DEF mepc, Op, Leaves, Moves, RefInv, CtrlInv, TypeOK, Bubble
        <4> QED BY <2>3, <3>2, <4>1 DEF PC, Machine!PC
      <3>3. CASE Op = "csr_mie"
        <4>1. mie' \in BOOLEAN
          BY <2>1, <3>3, WrittenValues DEF mie, mie_bypass
        <4> QED BY <2>3, <3>3, <4>1
      <3>4. CASE Op = "csr_dcsr"
        <4>1. dcsr_q'.cause = dcsr_q.cause /\ dcsr.cause = dcsr_q.cause
          BY <1>1 DEF Moves, Edge, CsrEdge, DcsrWritten, dcsr, DCsrOf, Plain
        <4>2. dcsr' = DCsrOf(ex'.arg, dcsr.cause)
          BY <2>1, <3>4, <4>1 DEF dcsr
        <4> QED BY <2>3, <2>4, <3>4, <4>2, WrittenValues
      <3>5. CASE Op = "csr_dpc"
        <4>1. dpc' = instr_id.arg /\ instr_id.arg \in PC
          BY <2>1, <3>5, InstrTypes DEF dpc, Op, Leaves, Moves, RefInv, CtrlInv, TypeOK, Bubble
        <4> QED BY <2>3, <2>4, <3>5, <4>1 DEF PC, Machine!PC
      <3>6. CASE Op = "csr_tdata1"
        <4>1. tdata1' \in BOOLEAN
          <5>1. tmatch_control_exec_q' \in BOOLEAN
            BY <1>1 DEF Moves, CtrlInv, TypeOK
          <5> QED BY <5>1, WrittenValues DEF tdata1
        <4> QED BY <2>3, <2>4, <3>6, <4>1
      <3> QED BY <1>7, <3>1, <3>2, <3>3, <3>4, <3>5, <3>6 DEF CsrOps
    <2>7. Machine!CsrWrite
      BY <1>1, <1>2, <2>1, <2>5, <2>6 DEF Machine!CsrWrite
    <2> QED BY <2>7 DEF Refines, Machine!Step
  <1>8. CASE Op \notin CsrOps \cup {"alu", "jump", "branch"}
    <2>1. Machine!Other
      BY <1>1, <1>3, <1>5, <1>8 DEF Machine!Other, Machine!regs, Still
    <2> QED BY <2>1 DEF Refines, Machine!Step
  <1> QED
    BY <1>4, <1>6, <1>7, <1>8

(* What the outputs of DECODE leave alone *)
Calm(c, o) ==
  /\ Leaves(c, o) /\ Plain(o) /\ Ready(c)
  /\ o.set # NoPC => Op = "jump"

LEMMA CalmFacts ==
  ASSUME NEW c, NEW o, Calm(c, o), o.ns # "DECODE" => o.halt_if
  PROVE  /\ ctrl_fsm_cs' = o.ns /\ ~debug_req_entry_q' /\ ~debug_force_wakeup_q'
         /\ debug_mode_q' = debug_mode_q /\ debug_mode_q \in BOOLEAN
         /\ illegal_insn_q' = o.illegal
         /\ o.ns # "DECODE" => /\ ~instr_valid_id' /\ pc_id' = pc_id
                               /\ instr_id' = instr_id /\ Op' = Op
         /\ Op # "jump" => pc_if = NextPC(pc_id) /\ (o.halt_if => pc_if' = pc_if)
         /\ pc = pc_id /\ ~stepped
         /\ ~debug_mode_q => /\ (trigger_match \/ debug_req_pending(c)) = FALSE
                             /\ single_step' = single_step /\ ebrk_force' = ebrk_force
                             /\ o.ns # "DECODE" => ~trigger_match'
  <1>1. ~debug_req_entry_q /\ ~debug_force_wakeup_q /\ debug_mode_q \in BOOLEAN
    BY DEF Calm, Leaves, Ready, Moves, RefInv, Entering, CtrlInv, TypeOK
  <1>2. /\ ctrl_fsm_cs' = o.ns /\ ~debug_req_entry_q' /\ ~debug_force_wakeup_q'
        /\ debug_mode_q' = debug_mode_q /\ illegal_insn_q' = o.illegal
    BY <1>1, ControlFrame DEF Calm, Leaves, Plain
  <1>3. o.ns # "DECODE" => ~instr_valid_id' /\ pc_id' = pc_id /\ instr_id' = instr_id /\ Op' = Op
    BY FetchFrame DEF Calm, Leaves
  <1>4. Op # "jump" => pc_if = NextPC(pc_id) /\ (o.halt_if => pc_if' = pc_if)
    BY FetchFrame DEF Calm, Leaves, Ready, Moves, RefInv, Addresses
  <1>5. pc = pc_id /\ ~stepped
    BY ReadyFacts DEF Calm, Leaves
  <1>6. ~debug_mode_q => /\ (trigger_match \/ debug_req_pending(c)) = FALSE
                         /\ single_step' = single_step /\ ebrk_force' = ebrk_force
                         /\ o.ns # "DECODE" => ~trigger_match'
    BY <1>3, DebugFrame DEF Calm, Leaves, Plain, Ready, single_step, ebrk_force, trigger_match
  <1> QED
    BY <1>1, <1>2, <1>3, <1>4, <1>5, <1>6

(* An instruction that traps or returns, or ends in Debug Mode, is kept to *)
(* take effect when the pipeline is empty.                                 *)
LEMMA TrapRefines ==
  ASSUME NEW c, NEW o, Calm(c, o), o.ns = "FLUSH_EX", o.halt_if, o.illegal <=> illegal_insn,
         illegal_insn \/ Op \in {"ecall", "mret", "dret"} \/ (Op = "ebreak" /\ ~debug_mode_q)
  PROVE  Refines
  <1>1. illegal_insn \/ (~illegal_insn /\ Op \notin CsrOps \cup {"alu", "elw", "branch"})
    BY DEF CsrOps
  <1>2. ex' = Bubble /\ effects' = effects /\ Op # "jump"
    <2>1. illegal_insn => Op # "jump"
      BY DEF illegal_insn, DebugOnly
    <2>2. ~illegal_insn /\ Op \notin CsrOps \cup {"elw", "branch"} => ex' = Bubble
      BY IssuedEx, ExOfFacts DEF Calm, Op
    <2> QED BY <1>1, <2>1, <2>2, IssuedEx DEF Calm
  <1>3. Still
    BY <1>2, SameRegisters DEF Calm, Leaves, Bubble, CsrOps
  <1>4. Addresses' /\ Modes' /\ Entering'
    <2>1. Addresses' /\ Entering'
      BY <1>2, CalmFacts DEF Addresses, Entering
    <2>2. /\ Op' = Op /\ debug_mode_q' = debug_mode_q /\ ctrl_fsm_cs' = "FLUSH_EX"
          /\ illegal_insn_q' <=> illegal_insn
      BY CalmFacts
    <2>3. /\ Op = "ebreak" => ~debug_mode_q
          /\ Op = "wfi" => illegal_insn
          /\ Op = "dret" /\ ~illegal_insn => debug_mode_q
      BY DEF illegal_insn, DebugOnly
    <2>4. Modes'
      BY <2>2, <2>3 DEF Modes
    <2> QED BY <2>1, <2>4
  <1>5. Executing'
    BY <1>2, CalmFacts DEF Executing, Bubble
  <1>6. RefInv'
    BY <1>4, <1>5 DEF RefInv, Calm, Leaves, Moves
  <1>7. Trapping' \/ Op' \in {"mret", "dret"}
    BY CalmFacts DEF Trapping
  <1>8. pc' = pc /\ ~stepped /\ ~stepped'
    <2>1. PcFacts' /\ SteppedFacts'
      BY <1>6, PcByNextState
    <2> QED BY <1>7, <2>1, CalmFacts DEF PcFacts, SteppedFacts
  <1>9. stepped' = stepped
    BY <1>8 DEF stepped
  <1> QED
    BY <1>3, <1>6, <1>8, <1>9, Stutters DEF Refines

(* The event load enters EX. *)
LEMMA ElwRefines ==
  ASSUME NEW c, NEW o, Calm(c, o), o.ns = "ELW_EXE", o.halt_if, Op = "elw", ~illegal_insn,
         ~(single_step /\ ~debug_mode_q)
  PROVE  Refines
  <1>1. ex' = instr_id /\ ex'.op = "elw" /\ effects' = effects
    BY IssuedEx, ExOfFacts DEF Calm, Op
  <1>2. Still
    BY <1>1, SameRegisters DEF Calm, Leaves, CsrOps
  <1>3. Addresses' /\ Modes' /\ Entering'
    BY CalmFacts DEF Addresses, Modes, Entering
  <1>4. Executing'
    BY <1>1, CalmFacts DEF Executing
  <1>5. RefInv'
    BY <1>3, <1>4 DEF RefInv, Calm, Leaves, Moves
  <1>6. pc' = pc /\ ~stepped /\ ~stepped'
    <2>1. PcFacts' /\ SteppedFacts'
      BY <1>5, PcByNextState
    <2> QED BY <2>1, CalmFacts DEF PcFacts, SteppedFacts
  <1>7. stepped' = stepped
    BY <1>6 DEF stepped
  <1> QED
    BY <1>2, <1>5, <1>6, <1>7, Stutters DEF Refines

(* ebreak goes to Debug Mode, ready to leave ID or not. *)
LEMMA EbreakRefines ==
  ASSUME NEW c, NEW o, Moves(c, o), Plain(o), Ready(c), o.ns = "DBG_FLUSH", o.halt_if,
         ~o.halt_id, o.decoding, o.set = NoPC, Op = "ebreak", debug_mode_q \/ ebrk_force
  PROVE  Refines
  <1>1. effects' = effects /\ (ex' = Bubble \/ ex' = ex) /\ ex'.op # "branch"
    <2>1. CASE IdReady(c)
      <3>1. ex' = Bubble /\ effects' = effects
        BY <2>1, IssuedEx, ExOfFacts DEF Leaves, Op, CsrOps
      <3> QED BY <3>1 DEF Bubble
    <2>2. CASE ~IdReady(c)
      BY <2>2, QuietEx DEF Issues
    <2> QED BY <2>1, <2>2
  <1>2. Still
    BY <1>1, SameRegisters DEF Bubble, CsrOps
  <1>3. /\ ctrl_fsm_cs' = "DBG_FLUSH" /\ ~debug_req_entry_q' /\ ~debug_force_wakeup_q'
        /\ debug_mode_q' = debug_mode_q /\ pc_id' = pc_id /\ Op' = Op
    BY ControlFrame, FetchFrame DEF Plain, Ready, Moves, RefInv, Entering
  <1>4. BeforeID'
    BY <1>3, DebugFrame DEF BeforeID, ebrk_force, Plain
  <1>5. Addresses' /\ Modes' /\ Entering'
    BY <1>3, <1>4 DEF Addresses, Modes, Entering
  <1>6. Executing'
    BY <1>1, <1>3 DEF Executing, Moves, RefInv, Bubble
  <1>7. RefInv'
    BY <1>5, <1>6 DEF RefInv, Moves
  <1>8. pc' = pc /\ ~stepped /\ ~stepped'
    <2>1. PcFacts' /\ SteppedFacts'
      BY <1>7, PcByNextState
    <2> QED BY <1>3, <1>4, <2>1, ReadyFacts DEF PcFacts, SteppedFacts
  <1>9. stepped' = stepped
    BY <1>8 DEF stepped
  <1> QED
    BY <1>2, <1>7, <1>8, <1>9, Stutters DEF Refines

(* What EX may hold after an issue *)
LEMMA IssuedExecuting ==
  ASSUME NEW c, NEW o, Calm(c, o), ~illegal_insn, o.ns # "DECODE" => o.halt_if,
         o.ns \in {"DECODE", "FLUSH_EX", "DBG_FLUSH", "DBG_WAIT_BRANCH"},
         o.ns \in {"FLUSH_EX", "DBG_FLUSH"} => Op # "branch",
         o.ns = "FLUSH_EX" => ~o.illegal /\ Op \notin {"csr_mie", "csr_tdata1", "elw"}
  PROVE  Executing'
  <1>1. ex'.op # Op => ex' = Bubble
    BY IssuedInstr DEF Calm
  <1>2. Op # "branch" => ex' = Bubble \/ ex' = instr_id
    BY IssuedInstr DEF Calm
  <1>a. ctrl_fsm_cs' = o.ns /\ debug_mode_q' = debug_mode_q /\ Bubble.op = "bubble"
    BY CalmFacts DEF Bubble
  <1>3. ex'.op = "branch" => ctrl_fsm_cs' \in {"DECODE", "DBG_WAIT_BRANCH"}
    BY <1>1, <1>a
  <1>4. ex'.op \in {"csr_dcsr", "csr_dpc"} => debug_mode_q'
    BY <1>1, <1>a DEF illegal_insn, DebugOnly
  <1>5. ctrl_fsm_cs' = "FLUSH_EX" =>
          ex' = Bubble \/ (ex' = instr_id' /\ csr_status' /\ ~illegal_insn_q')
    <2>1. ASSUME ctrl_fsm_cs' = "FLUSH_EX", Op \notin {"csr_mstatus", "csr_mepc", "csr_dpc", "csr_dcsr"}
          PROVE  ex' = Bubble
      <3>1. Op \notin CsrOps \cup {"elw", "branch"}
        BY <2>1, CalmFacts DEF CsrOps
      <3> QED BY <3>1, IssuedEx, ExOfFacts DEF Calm, Op
    <2>2. Op \in {"csr_mstatus", "csr_mepc", "csr_dpc", "csr_dcsr"} => csr_status
      BY DEF csr_status
    <2>3. ctrl_fsm_cs' = "FLUSH_EX" => instr_id' = instr_id /\ (csr_status' <=> csr_status)
      BY CalmFacts DEF csr_status
    <2> QED BY <1>2, <2>1, <2>2, <2>3, CalmFacts
  <1>6. ctrl_fsm_cs' \notin {"ELW_EXE", "IRQ_FLUSH_ELW"}
    BY CalmFacts
  <1> QED
    BY <1>3, <1>4, <1>5, <1>6 DEF Executing

(* What a machine step to NextPC sets, outside a single step *)
LEMMA NoStep ==
  ASSUME RefInv, ~(single_step /\ ~debug_mode_q)
  PROVE  (dcsr.step /\ ~debug) = FALSE
  <1>1. ~debug_mode_q => dcsr = dcsr_q
    BY DEF RefInv, Executing, dcsr
  <1> QED
    BY <1>1 DEF single_step, debug

(* Executed, the pipeline to be emptied behind it *)
LEMMA FlushIssueRefines ==
  ASSUME NEW c, NEW o, Calm(c, o), ~illegal_insn, ~o.illegal, o.ns = "FLUSH_EX", o.halt_if,
         ~(single_step /\ ~debug_mode_q), wfi_active(c) \/ csr_status \/ Op = "fencei"
  PROVE  Refines
  <1>1. Op \in {"wfi", "fencei", "csr_mstatus", "csr_mepc", "csr_dcsr", "csr_dpc"}
        /\ (Op = "wfi" => ~debug_mode_q)
    BY DEF wfi_active, csr_status
  <1>2. Addresses' /\ Modes' /\ Entering'
    BY <1>1, CalmFacts DEF Addresses, Modes, Entering
  <1>3. RefInv'
    BY <1>1, <1>2, IssuedExecuting DEF RefInv, Calm, Leaves, Moves
  <1>4. ~Trapping'
    BY <1>1, CalmFacts DEF Trapping
  <1>5. pc' = NextPC(pc_id) /\ ~stepped'
    <2>1. PcFacts' /\ SteppedFacts'
      BY <1>3, PcByNextState
    <2> QED BY <1>1, <1>4, <2>1, CalmFacts DEF PcFacts, SteppedFacts
  <1>6. pc' \in PC
    BY <1>5, AddressTypes DEF Calm, Leaves, Moves, RefInv, CtrlInv, TypeOK
  <1>7. stepped' = (dcsr.step /\ ~debug)
    BY <1>5, NoStep DEF stepped, Calm, Leaves, Moves
  <1> QED
    BY <1>1, <1>3, <1>5, <1>6, <1>7, ExecuteRefines DEF Calm

(* Executed, the next instruction fetched or on its way *)
LEMMA IssueRefines ==
  ASSUME NEW c, NEW o, Calm(c, o), ~illegal_insn, o.ns = "DECODE", ~o.halt_if,
         ~(single_step /\ ~debug_mode_q), Op \notin {"elw", "ecall", "ebreak", "mret", "dret"}
  PROVE  Refines
  <1>1. \/ instr_valid_id' /\ o.set = NoPC /\ pc_id' = pc_if /\ pc_if' = NextPC(pc_if)
        \/ ~instr_valid_id' /\ (o.set = NoPC => pc_if' = pc_if)
    BY DEF Calm, Leaves, Moves, Edge, FetchEdge
  <1>2. Addresses' /\ Modes' /\ Entering'
    BY <1>1, CalmFacts DEF Addresses, Modes, Entering
  <1>3. RefInv'
    BY <1>2, IssuedExecuting DEF RefInv, Calm, Leaves, Moves
  <1>4. /\ pc' = IF BranchTaken' THEN ex'.arg ELSE IF instr_valid_id' THEN pc_id' ELSE pc_if'
        /\ ~stepped'
    BY <1>3, PcByNextState, CalmFacts DEF PcFacts, SteppedFacts
  <1>5. pc' \in PC
    BY <1>4, IssuedEx DEF Calm, Leaves, Moves, CtrlInv, TypeOK
  <1>6. Op \notin {"jump", "branch"} => pc' = NextPC(pc_id)
    <2>1. Op \notin {"jump", "branch"} => ~BranchTaken'
      BY IssuedInstr DEF BranchTaken, Calm, Bubble
    <2> QED BY <1>1, <1>4, <2>1, CalmFacts DEF Calm
  <1>7. stepped' = (dcsr.step /\ ~debug)
    BY <1>4, NoStep DEF stepped, Calm, Leaves, Moves
  <1> QED
    BY <1>3, <1>5, <1>6, <1>7, ExecuteRefines DEF Calm

(* Executed, single-stepped: Debug Mode is entered behind it. *)
LEMMA StepIssueRefines ==
  ASSUME NEW c, NEW o, Calm(c, o), ~illegal_insn, single_step, ~debug_mode_q, o.halt_if,
         o.ns = IF Op = "branch" THEN "DBG_WAIT_BRANCH" ELSE "DBG_FLUSH",
         Op \notin {"ecall", "ebreak", "mret", "dret"}
  PROVE  Refines
  <1>1. /\ ctrl_fsm_cs' = o.ns /\ o.ns # "DECODE" /\ ~debug_mode_q' /\ single_step'
        /\ ~debug_req_entry_q' /\ ~debug_force_wakeup_q' /\ ~trigger_match'
        /\ ~instr_valid_id' /\ Op' = Op /\ pc = pc_id
        /\ Op # "jump" => pc_if' = NextPC(pc_id)
    BY CalmFacts
  <1>2. Op # "elw"
    BY <1>1 DEF Calm, Leaves, Moves, WellUsed
  <1>3. ~BeforeID'
    BY <1>1, <1>2 DEF BeforeID
  <1>4. Addresses' /\ Modes' /\ Entering'
    BY <1>1 DEF Addresses, Modes, Entering
  <1>5. RefInv'
    BY <1>4, IssuedExecuting DEF RefInv, Calm, Leaves, Moves
  <1>6. /\ pc' = IF BranchTaken' /\ Op = "branch" THEN ex'.arg ELSE pc_if'
        /\ stepped'
    BY <1>1, <1>3, <1>5, PcByNextState DEF PcFacts, SteppedFacts
  <1>7. pc' \in PC
    BY <1>6, IssuedEx DEF Calm, Leaves, Moves, CtrlInv, TypeOK
  <1>8. Op \notin {"jump", "branch"} => pc' = NextPC(pc_id)
    BY <1>1, <1>6
  <1>9. stepped' = (dcsr.step /\ ~debug)
    <2>1. dcsr.step /\ ~debug
      BY DebugFrame DEF Calm, Leaves, single_step, debug
    <2> QED BY <1>6, <2>1 DEF stepped
  <1> QED
    BY <1>2, <1>5, <1>7, <1>8, <1>9, ExecuteRefines DEF Calm

-----------------------------------------------------------------------------
(* What DECODE asks for, instruction by instruction *)

ToDebug == Op = "ebreak" /\ (debug_mode_q \/ ebrk_force)

(* All but the next state *)
Asks(c, o) ==
  /\ Plain(o) /\ o.decoding /\ ~o.halt_id /\ (o.illegal <=> illegal_insn)
  /\ o.set # NoPC => Op = "jump"
  /\ o.ns # "DECODE" => o.halt_if

LEMMA DecodingFields ==
  ASSUME ctrl_fsm_cs = "DECODE"
  PROVE  /\ Plain(Decoding) /\ Decoding.decoding /\ ~Decoding.halt_id /\ ~Decoding.illegal
         /\ Decoding.set = NoPC /\ Decoding.ns = "DECODE" /\ ~Decoding.halt_if
  BY DEF Decoding, Default, Plain

LEMMA FlushedFields ==
  ASSUME ctrl_fsm_cs = "DECODE", NEW c, NEW ns
  PROVE  /\ Plain(Flushed(c, ns)) /\ Flushed(c, ns).decoding /\ ~Flushed(c, ns).halt_id
         /\ ~Flushed(c, ns).illegal /\ Flushed(c, ns).halt_if /\ Flushed(c, ns).set = NoPC
         /\ Flushed(c, ns).ns = IF IdReady(c) THEN ns ELSE "DECODE"
  BY DEF Flushed, Decoding, Default, Plain

LEMMA DecodeAsks ==
  ASSUME TypeOK, ctrl_fsm_cs = "DECODE", NEW c \in Input
  PROVE  LET o == DecodeOut(c) IN
         /\ Asks(c, o)
         /\ o.ns = IF ToDebug THEN "DBG_FLUSH"
                   ELSE IF ~IdReady(c) THEN "DECODE"
                   ELSE IF illegal_insn \/ Op \in {"ecall", "ebreak", "mret", "dret"}
                   THEN "FLUSH_EX"
                   ELSE IF wfi_active(c) \/ csr_status \/ Op = "fencei" THEN "FLUSH_EX"
                   ELSE IF Op = "elw" THEN "ELW_EXE" ELSE "DECODE"
         /\ o.ns = "DECODE" /\ IdReady(c) => ~o.halt_if
  <1> DEFINE o == DecodeOut(c)
             ns == IF ToDebug THEN "DBG_FLUSH"
                   ELSE IF ~IdReady(c) THEN "DECODE"
                   ELSE IF illegal_insn \/ Op \in {"ecall", "ebreak", "mret", "dret"}
                   THEN "FLUSH_EX"
                   ELSE IF wfi_active(c) \/ csr_status \/ Op = "fencei" THEN "FLUSH_EX"
                   ELSE IF Op = "elw" THEN "ELW_EXE" ELSE "DECODE"
             Goal == /\ Asks(c, o) /\ o.ns = ns
                     /\ o.ns = "DECODE" /\ IdReady(c) => ~o.halt_if
  <1>1. ASSUME illegal_insn
        PROVE  Goal
    <2> DEFINE f == Flushed(c, "FLUSH_EX")
    <2>1. o = [f EXCEPT !.illegal = TRUE] /\ f \in Outputs
      BY <1>1, FlushedFacts, Names DEF DecodeOut
    <2>2. /\ f.ns = ns /\ f.halt_if /\ f.decoding /\ ~f.halt_id /\ f.set = NoPC /\ Plain(f)
          /\ IdReady(c) => ns = "FLUSH_EX"
      BY <1>1, FlushedFields DEF ToDebug, illegal_insn, DebugOnly
    <2> HIDE DEF f, ns
    <2>3. /\ o.ns = f.ns /\ o.halt_if = f.halt_if /\ o.decoding = f.decoding /\ o.set = f.set
          /\ o.halt_id = f.halt_id /\ o.save = f.save /\ o.restore = f.restore
          /\ o.debug_mode = f.debug_mode /\ o.entry = f.entry /\ o.wakeup = f.wakeup /\ o.illegal
      BY <2>1 DEF Outputs
    <2> HIDE DEF o
    <2> QED BY <1>1, <2>2, <2>3 DEF Asks, Plain
  <1>2. ASSUME ~illegal_insn /\ Op = "jump" /\ ~c.jr_stall /\ ~jump_done_q
        PROVE  Goal
    <2>1. o = [Decoding EXCEPT !.set = instr_id.arg, !.jump_done = TRUE] /\ Decoding \in Outputs
      BY <1>2, DefaultType DEF DecodeOut
    <2>2. /\ Plain(Decoding) /\ Decoding.decoding /\ ~Decoding.halt_id /\ ~Decoding.illegal
          /\ Decoding.ns = "DECODE" /\ ~Decoding.halt_if
      BY DecodingFields
    <2>3. LET f == Decoding IN
          /\ o.ns = f.ns /\ o.halt_if = f.halt_if /\ o.decoding = f.decoding
          /\ o.halt_id = f.halt_id /\ o.save = f.save /\ o.restore = f.restore
          /\ o.debug_mode = f.debug_mode /\ o.entry = f.entry /\ o.wakeup = f.wakeup
          /\ o.illegal = f.illegal
      BY <2>1 DEF Outputs
    <2>4. ns = "DECODE"
      BY <1>2 DEF ToDebug, wfi_active, csr_status
    <2> HIDE DEF o, ns
    <2> QED BY <1>2, <2>2, <2>3, <2>4 DEF Asks, Plain
  <1>3. ASSUME ~illegal_insn /\ ToDebug
        PROVE  Goal
    <2>1. o = [Decoding EXCEPT !.halt_if = TRUE, !.ns = "DBG_FLUSH"] /\ Decoding \in Outputs
      BY <1>3, DefaultType DEF DecodeOut, ToDebug
    <2>2. /\ Plain(Decoding) /\ Decoding.decoding /\ ~Decoding.halt_id /\ ~Decoding.illegal
          /\ Decoding.set = NoPC
      BY DecodingFields
    <2>3. LET f == Decoding IN
          /\ o.ns = "DBG_FLUSH" /\ o.halt_if /\ o.decoding = f.decoding /\ o.set = f.set
          /\ o.halt_id = f.halt_id /\ o.save = f.save /\ o.restore = f.restore
          /\ o.debug_mode = f.debug_mode /\ o.entry = f.entry /\ o.wakeup = f.wakeup
          /\ o.illegal = f.illegal
      BY <2>1 DEF Outputs
    <2>4. ns = "DBG_FLUSH"
      BY <1>3
    <2> HIDE DEF o, ns
    <2> QED BY <1>3, <2>2, <2>3, <2>4 DEF Asks, Plain
  <1>4. ASSUME NEW x \in {"FLUSH_EX", "ELW_EXE"}, ~illegal_insn, o = Flushed(c, x),
               ns = IF IdReady(c) THEN x ELSE "DECODE"
        PROVE  Goal
    <2>1. /\ Plain(o) /\ o.decoding /\ ~o.halt_id /\ ~o.illegal /\ o.halt_if /\ o.set = NoPC
          /\ o.ns = IF IdReady(c) THEN x ELSE "DECODE"
      BY <1>4, FlushedFields
    <2> HIDE DEF o, ns
    <2> QED BY <1>4, <2>1 DEF Asks
  <1>5. ASSUME ~illegal_insn /\ o = Decoding /\ ns = "DECODE"
        PROVE  Goal
    <2> HIDE DEF o, ns
    <2> QED BY <1>5, DecodingFields DEF Asks
  <1>6. ASSUME ~illegal_insn, ~ToDebug, Op # "jump"
        PROVE  \/ /\ o = Flushed(c, "FLUSH_EX")
                  /\ ns = IF IdReady(c) THEN "FLUSH_EX" ELSE "DECODE"
               \/ /\ o = Flushed(c, "ELW_EXE")
                  /\ ns = IF IdReady(c) THEN "ELW_EXE" ELSE "DECODE"
               \/ o = Decoding /\ ns = "DECODE"
    BY <1>6 DEF DecodeOut, ToDebug, wfi_active, csr_status
  <1>7. Op = "jump" /\ ~illegal_insn /\ (c.jr_stall \/ jump_done_q) => o = Decoding /\ ns = "DECODE"
    BY DEF DecodeOut, ToDebug, wfi_active, csr_status
  <1> HIDE DEF o, ns
  <1>8. Goal
    BY <1>1, <1>2, <1>3, <1>4, <1>5, <1>6, <1>7 DEF ToDebug
  <1> QED
    BY <1>8 DEF o, ns

LEMMA StepAsks ==
  ASSUME NEW c, NEW o \in Outputs, Asks(c, o)
  PROVE  LET s == SingleStepOut(c, o) IN
         /\ Asks(c, s) /\ s.halt_if
         /\ s.ns = IF ~IdReady(c) THEN o.ns
                   ELSE IF illegal_insn \/ Op \in {"ecall", "mret"} \/ (Op = "ebreak" /\ ~ebrk_force)
                   THEN "FLUSH_EX"
                   ELSE IF Op = "branch" THEN "DBG_WAIT_BRANCH" ELSE "DBG_FLUSH"
  <1> DEFINE s == SingleStepOut(c, o)
             ns == IF ~IdReady(c) THEN o.ns
                   ELSE IF illegal_insn \/ Op \in {"ecall", "mret"} \/ (Op = "ebreak" /\ ~ebrk_force)
                   THEN "FLUSH_EX"
                   ELSE IF Op = "branch" THEN "DBG_WAIT_BRANCH" ELSE "DBG_FLUSH"
  <1>1. s = [o EXCEPT !.halt_if = TRUE, !.ns = ns]
    BY DEF SingleStepOut
  <1> HIDE DEF ns
  <1>2. /\ s.ns = ns /\ s.halt_if /\ s.decoding = o.decoding /\ s.set = o.set
        /\ s.halt_id = o.halt_id /\ s.save = o.save /\ s.restore = o.restore
        /\ s.debug_mode = o.debug_mode /\ s.entry = o.entry /\ s.wakeup = o.wakeup
        /\ s.illegal = o.illegal
    BY <1>1 DEF Outputs
  <1> HIDE DEF s
  <1>3. Asks(c, s) /\ s.halt_if /\ s.ns = ns
    BY <1>2 DEF Asks, Plain
  <1> QED
    BY <1>3 DEF s, ns

-----------------------------------------------------------------------------
(* The steps of the pipeline *)

(* A cycle moves the pipeline with some outputs: c the inputs it is given, *)
(* d those its edge acts on. *)
Context(c) ==
  /\ RefInv /\ WellUsed /\ CtrlInv' /\ WellUsed'
  /\ c \in Input /\ DebugReqEdge(c)

LEMMA DecodeInstrRefines ==
  ASSUME NEW c, Context(c), DecodeInstr(c)
  PROVE  Refines
  <1> DEFINE step == single_step /\ ~debug_mode_q
  <1>1. TypeOK /\ c \in Input /\ Ready(c) /\ ctrl_fsm_cs = "DECODE"
    BY DEF Context, RefInv, CtrlInv, DecodeInstr, Ready
  <1>2. DecodeOut(c) \in Outputs
    BY <1>1, DecodeOutFacts DEF DecodeOk
  <1>3. PICK o :
          /\ Edge(c, o) /\ Asks(c, o)
          /\ step => o.halt_if
          /\ ~step /\ o.ns = "DECODE" /\ IdReady(c) => ~o.halt_if
          /\ o.ns = IF ToDebug THEN "DBG_FLUSH"
                    ELSE IF ~IdReady(c) THEN "DECODE"
                    ELSE IF illegal_insn \/ Op \in {"ecall", "ebreak", "mret", "dret"}
                    THEN "FLUSH_EX"
                    ELSE IF step THEN IF Op = "branch" THEN "DBG_WAIT_BRANCH" ELSE "DBG_FLUSH"
                    ELSE IF wfi_active(c) \/ csr_status \/ Op = "fencei" THEN "FLUSH_EX"
                    ELSE IF Op = "elw" THEN "ELW_EXE" ELSE "DECODE"
    <2>1. CASE ~step
      <3>1. Edge(c, DecodeOut(c))
        BY <2>1 DEF DecodeInstr
      <3> QED BY <1>1, <2>1, <3>1, DecodeAsks
    <2>2. CASE step
      <3> DEFINE s == SingleStepOut(c, DecodeOut(c))
      <3>1. Edge(c, s)
        BY <2>2 DEF DecodeInstr
      <3>2. /\ Asks(c, s) /\ s.halt_if
            /\ s.ns = IF ~IdReady(c) THEN DecodeOut(c).ns
                      ELSE IF illegal_insn \/ Op \in {"ecall", "mret"} \/ (Op = "ebreak" /\ ~ebrk_force)
                      THEN "FLUSH_EX"
                      ELSE IF Op = "branch" THEN "DBG_WAIT_BRANCH" ELSE "DBG_FLUSH"
        BY <1>1, <1>2, DecodeAsks, StepAsks
      <3>3. ~IdReady(c) => DecodeOut(c).ns = IF ToDebug THEN "DBG_FLUSH" ELSE "DECODE"
        BY <1>1, DecodeAsks
      <3>4. Op = "dret" => illegal_insn
        BY <2>2 DEF illegal_insn, DebugOnly
      <3>5. illegal_insn => Op # "ebreak"
        BY DEF illegal_insn, DebugOnly
      <3> HIDE DEF s
      <3> QED BY <2>2, <3>1, <3>2, <3>3, <3>4, <3>5 DEF ToDebug
    <2> QED BY <2>1, <2>2
  <1>4. Moves(c, o) /\ Plain(o) /\ o.decoding /\ ~o.halt_id
    BY <1>1, <1>3 DEF Moves, Context, Asks
  <1>5. CASE ToDebug
    <2>1. o.set = NoPC /\ o.halt_if /\ o.ns = "DBG_FLUSH"
      BY <1>3, <1>5 DEF ToDebug, Asks
    <2> QED BY <1>1, <1>4, <1>5, <2>1, EbreakRefines DEF ToDebug
  <1>6. CASE ~ToDebug /\ ~IdReady(c)
    <2>1. o.ns = "DECODE" /\ ~Issues(c, o) /\ (o.set # NoPC => Op = "jump")
      BY <1>3, <1>6 DEF Issues, Asks
    <2> QED BY <1>1, <1>4, <1>6, <2>1, WaitRefines DEF Ready
  <1>7. CASE ~ToDebug /\ IdReady(c)
    <2>1. Calm(c, o) /\ (o.ns # "DECODE" => o.halt_if) /\ (o.illegal <=> illegal_insn)
      BY <1>1, <1>3, <1>4, <1>7 DEF Calm, Leaves, Asks
    <2>2. CASE illegal_insn \/ Op \in {"ecall", "ebreak", "mret", "dret"}
      <3>1. o.ns = "FLUSH_EX" /\ (Op = "ebreak" => ~debug_mode_q)
        BY <1>3, <1>7, <2>2 DEF ToDebug
      <3> QED BY <2>1, <2>2, <3>1, TrapRefines
    <2>3. CASE ~illegal_insn /\ Op \notin {"ecall", "ebreak", "mret", "dret"} /\ step
      <3>1. o.ns = IF Op = "branch" THEN "DBG_WAIT_BRANCH" ELSE "DBG_FLUSH"
        BY <1>3, <1>7, <2>3
      <3> QED BY <1>3, <2>1, <2>3, <3>1, StepIssueRefines
    <2>4. CASE /\ ~illegal_insn /\ Op \notin {"ecall", "ebreak", "mret", "dret"} /\ ~step
               /\ wfi_active(c) \/ csr_status \/ Op = "fencei"
      <3>1. o.ns = "FLUSH_EX"
        BY <1>3, <1>7, <2>4
      <3> QED BY <2>1, <2>4, <3>1, FlushIssueRefines
    <2>5. CASE /\ ~illegal_insn /\ Op \notin {"ecall", "ebreak", "mret", "dret"} /\ ~step
               /\ ~(wfi_active(c) \/ csr_status \/ Op = "fencei") /\ Op = "elw"
      <3>1. o.ns = "ELW_EXE"
        BY <1>3, <1>7, <2>5
      <3> QED BY <2>1, <2>5, <3>1, ElwRefines
    <2>6. CASE /\ ~illegal_insn /\ Op \notin {"elw", "ecall", "ebreak", "mret", "dret"} /\ ~step
               /\ ~(wfi_active(c) \/ csr_status \/ Op = "fencei")
      <3>1. o.ns = "DECODE" /\ ~o.halt_if
        BY <1>3, <1>7, <2>6
      <3> QED BY <2>1, <2>6, <3>1, IssueRefines
    <2> QED BY <2>2, <2>3, <2>4, <2>5, <2>6
  <1> QED
    BY <1>5, <1>6, <1>7

LEMMA StartRefines ==
  ASSUME NEW c, Context(c), Reset(c) \/ BootSet(c) \/ FirstFetch(c)
  PROVE  Refines
  <1>1. CASE Reset(c)
    <2> DEFINE d == [c EXCEPT !.fetch = FALSE]
               o == [Default EXCEPT !.ns = IF c.fetch_enable THEN "BOOT_SET" ELSE "RESET"]
    <2>1. d \in Input /\ DebugReqEdge(d)
      BY InputTypes DEF Context, DebugReqEdge, Input
    <2>2. Edge(d, o) /\ ctrl_fsm_cs = "RESET"
      BY <1>1 DEF Reset
    <2>3. Plain(o) /\ ~o.decoding /\ o.ns \in {"RESET", "BOOT_SET"}
      BY DEF Default, Plain
    <2> HIDE DEF d, o
    <2>4. Moves(d, o)
      BY <2>1, <2>2 DEF Moves, Context
    <2> QED BY <2>2, <2>3, <2>4, IdleRefines
  <1>2. CASE BootSet(c)
    <2> DEFINE ns == IF debug_req_pending(c) THEN "DBG_TAKEN_IF" ELSE "FIRST_FETCH"
               w  == debug_req_pending(c) \/ debug_force_wakeup_q
               o  == [Default EXCEPT !.set = BootPC, !.ns = ns, !.wakeup = w]
    <2>1. Edge(c, o) /\ ctrl_fsm_cs = "BOOT_SET"
      BY <1>2 DEF BootSet
    <2>2. /\ debug_req_pending(c) => ns = "DBG_TAKEN_IF" /\ w = TRUE
          /\ ~debug_req_pending(c) => ns = "FIRST_FETCH" /\ w = debug_force_wakeup_q
      BY DEF Context, RefInv, CtrlInv, TypeOK
    <2> HIDE DEF ns, w
    <2>3. /\ o.ns = ns /\ o.set = BootPC /\ o.wakeup = w /\ ~o.decoding
          /\ o.save = "no" /\ ~o.restore /\ o.debug_mode = debug_mode_q
          /\ o.entry = debug_req_entry_q
      BY DEF Default
    <2> HIDE DEF o
    <2>4. Moves(c, o)
      BY <2>1 DEF Moves, Context
    <2>5. CASE debug_req_pending(c)
      BY <2>1, <2>2, <2>3, <2>4, <2>5, WakeForDebugRefines
    <2>6. CASE ~debug_req_pending(c)
      BY <2>1, <2>2, <2>3, <2>4, <2>6, IdleRefines DEF Plain
    <2> QED BY <2>5, <2>6
  <1>3. CASE FirstFetch(c)
    <2>1. ctrl_fsm_cs = "FIRST_FETCH"
      BY <1>3 DEF FirstFetch
    <2>2. CASE irq_req /\ ~(debug_req_pending(c) \/ debug_mode_q)
      <3> DEFINE o == Interrupted(pc_if)
      <3>1. Edge(c, o)
        BY <1>3, <2>2 DEF FirstFetch
      <3>2. /\ o.ns = "DECODE" /\ o.set = IrqPC /\ o.halt_id /\ o.save = "trap" /\ ~o.restore
            /\ o.debug_mode = debug_mode_q /\ o.entry = debug_req_entry_q
            /\ o.wakeup = debug_force_wakeup_q /\ o.epc = pc_if
        BY DEF Interrupted, Default
      <3> HIDE DEF o
      <3>3. Moves(c, o)
        BY <3>1 DEF Moves, Context
      <3> QED BY <2>1, <2>2, <3>2, <3>3, IrqRefines
    <2>3. CASE ~(irq_req /\ ~(debug_req_pending(c) \/ debug_mode_q))
      <3> DEFINE o == [Default EXCEPT !.ns = "DECODE"]
      <3>1. Edge(c, o)
        BY <1>3, <2>3 DEF FirstFetch
      <3>2. Plain(o) /\ ~o.decoding /\ o.ns = "DECODE" /\ o.set = NoPC
        BY DEF Default, Plain
      <3> HIDE DEF o
      <3>3. Moves(c, o) /\ ~Issues(c, o)
        BY <3>1, <3>2 DEF Moves, Context, Issues
      <3> QED BY <2>1, <3>2, <3>3, WaitRefines
    <2> QED BY <2>2, <2>3
  <1> QED
    BY <1>1, <1>2, <1>3

LEMMA SleepRefines ==
  ASSUME NEW c, Context(c), WaitSleep(c) \/ Sleep(c)
  PROVE  Refines
  <1> DEFINE Quiet(o) == /\ Edge(c, o) /\ o.set = NoPC /\ o.halt_if /\ ~o.decoding
                         /\ o.save = "no" /\ ~o.restore /\ o.debug_mode = debug_mode_q
                         /\ o.entry = debug_req_entry_q
  <1>1. ASSUME NEW o, Quiet(o), ctrl_fsm_cs \in {"WAIT_SLEEP", "SLEEP"},
               o.ns \in {"SLEEP", "FIRST_FETCH"}, o.wakeup = debug_force_wakeup_q
        PROVE  Refines
    <2>1. Moves(c, o) /\ Plain(o)
      BY <1>1 DEF Moves, Context, Plain
    <2> QED BY <1>1, <2>1, IdleRefines
  <1>2. ASSUME NEW o, Quiet(o), ctrl_fsm_cs = "SLEEP", debug_req_pending(c),
               o.ns = "DBG_TAKEN_IF", o.wakeup = TRUE
        PROVE  Refines
    <2>1. Moves(c, o)
      BY <1>2 DEF Moves, Context
    <2> QED BY <1>2, <2>1, WakeForDebugRefines
  <1>3. CASE WaitSleep(c)
    <2> DEFINE o == [Default EXCEPT !.ns = "SLEEP", !.halt_if = TRUE, !.halt_id = TRUE]
    <2>1. Quiet(o) /\ o.ns = "SLEEP" /\ o.wakeup = debug_force_wakeup_q
      BY <1>3 DEF WaitSleep, Default
    <2>2. ctrl_fsm_cs = "WAIT_SLEEP"
      BY <1>3 DEF WaitSleep
    <2> HIDE DEF o, Quiet
    <2> QED BY <1>1, <2>1, <2>2
  <1>4. CASE Sleep(c)
    <2> DEFINE o == [Default EXCEPT !.halt_if = TRUE, !.halt_id = TRUE]
               f == [o EXCEPT !.ns = "FIRST_FETCH"]
               d == [o EXCEPT !.ns = "DBG_TAKEN_IF", !.wakeup = TRUE]
    <2>1. /\ ctrl_fsm_cs = "SLEEP"
          /\ Edge(c, o) \/ Edge(c, f) \/ (Edge(c, d) /\ debug_req_pending(c))
      BY <1>4 DEF Sleep
    <2>2. CASE Edge(c, o)
      <3>1. Quiet(o) /\ o.ns = "SLEEP" /\ o.wakeup = debug_force_wakeup_q
        BY <2>1, <2>2 DEF Default
      <3> HIDE DEF o, Quiet
      <3> QED BY <1>1, <2>1, <3>1
    <2>3. CASE Edge(c, f)
      <3>1. Quiet(f) /\ f.ns = "FIRST_FETCH" /\ f.wakeup = debug_force_wakeup_q
        BY <2>3 DEF Default
      <3> HIDE DEF f, Quiet
      <3> QED BY <1>1, <2>1, <3>1
    <2>4. CASE Edge(c, d) /\ debug_req_pending(c)
      <3>1. Quiet(d) /\ d.ns = "DBG_TAKEN_IF" /\ d.wakeup = TRUE
        BY <2>4 DEF Default
      <3> HIDE DEF d, Quiet
      <3> QED BY <1>2, <2>1, <2>4, <3>1
    <2> QED BY <2>1, <2>2, <2>3, <2>4
  <1> QED
    BY <1>3, <1>4

LEMMA DecodeRefines ==
  ASSUME NEW c, Context(c),
         DecodeBranchTaken(c) \/ DecodeEmpty(c) \/ DecodeDebug(c) \/ DecodeIrq(c)
  PROVE  Refines
  <1>1. CASE DecodeBranchTaken(c)
    <2> DEFINE o == [Default EXCEPT !.set = ex.arg]
    <2>1. ctrl_fsm_cs = "DECODE" /\ BranchTaken /\ Edge(c, o)
      BY <1>1 DEF DecodeBranchTaken
    <2>2. Plain(o) /\ ~o.decoding /\ o.ns = "DECODE" /\ o.set = ex.arg
      BY <2>1 DEF Default, Plain
    <2> HIDE DEF o
    <2>3. Moves(c, o) /\ ~Issues(c, o)
      BY <2>1, <2>2 DEF Moves, Context, Issues
    <2> QED BY <2>1, <2>2, <2>3, WaitRefines
  <1>2. CASE DecodeEmpty(c)
    <2>1. ctrl_fsm_cs = "DECODE" /\ ~BranchTaken /\ ~instr_valid_id /\ Edge(c, Default)
      BY <1>2 DEF DecodeEmpty
    <2>2. Plain(Default) /\ ~Default.decoding /\ Default.ns = "DECODE" /\ Default.set = NoPC
      BY <2>1 DEF Default, Plain
    <2>3. Moves(c, Default) /\ ~Issues(c, Default)
      BY <2>1, <2>2 DEF Moves, Context, Issues
    <2> QED BY <2>1, <2>2, <2>3, WaitRefines
  <1>3. CASE DecodeDebug(c)
    <2> DEFINE o == [Default EXCEPT !.ns = "DBG_FLUSH", !.halt_if = TRUE, !.halt_id = TRUE,
                                    !.decoding = TRUE, !.illegal = FALSE, !.entry = TRUE]
    <2>1. /\ ctrl_fsm_cs = "DECODE" /\ ~BranchTaken /\ instr_valid_id /\ ~debug_mode_q
          /\ debug_req_pending(c) \/ trigger_match
          /\ Edge(c, o)
      BY <1>3 DEF DecodeDebug
    <2>2. /\ o.ns = "DBG_FLUSH" /\ o.set = NoPC /\ o.halt_if /\ o.halt_id /\ o.save = "no"
          /\ ~o.restore /\ o.debug_mode = debug_mode_q /\ o.entry = TRUE
          /\ o.wakeup = debug_force_wakeup_q
      BY DEF Default
    <2> HIDE DEF o
    <2>3. Moves(c, o)
      BY <2>1 DEF Moves, Context
    <2> QED BY <2>1, <2>2, <2>3, DecodeDebugRefines
  <1>4. CASE DecodeIrq(c)
    <2> DEFINE o == [Interrupted(pc_id) EXCEPT !.illegal = FALSE]
    <2>1. /\ ctrl_fsm_cs = "DECODE" /\ ~BranchTaken /\ instr_valid_id /\ ~debug_mode_q
          /\ irq_req /\ Edge(c, o)
      BY <1>4 DEF DecodeIrq
    <2>2. /\ o.ns = "DECODE" /\ o.set = IrqPC /\ o.halt_id /\ o.save = "trap" /\ ~o.restore
          /\ o.debug_mode = debug_mode_q /\ o.entry = debug_req_entry_q
          /\ o.wakeup = debug_force_wakeup_q /\ o.epc = pc_id
      BY DEF Interrupted, Default
    <2> HIDE DEF o
    <2>3. Moves(c, o)
      BY <2>1 DEF Moves, Context
    <2> QED BY <2>1, <2>2, <2>3, IrqRefines
  <1> QED
    BY <1>1, <1>2, <1>3, <1>4

LEMMA FlushRefines ==
  ASSUME NEW c, Context(c), FlushEx(c)
  PROVE  Refines
  <1> DEFINE Quiet(o) == /\ Edge(c, o) /\ o.halt_if /\ o.halt_id /\ o.set = NoPC
                         /\ ~o.restore /\ o.illegal = illegal_insn_q
                         /\ o.debug_mode = debug_mode_q /\ o.entry = debug_req_entry_q
                         /\ o.wakeup = debug_force_wakeup_q
             h == [Halted EXCEPT !.ns = "FLUSH_WB"]
             save == IF debug_mode_q THEN "no" ELSE "trap"
  <1>1. ctrl_fsm_cs = "FLUSH_EX" /\ (c.ex_valid => ExReady(c))
    BY DEF FlushEx
  <1>2. ASSUME NEW o, Quiet(o), o.ns \in {"FLUSH_EX", "FLUSH_WB"},
               o.ns = "FLUSH_WB" => ExReady(c)
        PROVE  FlushStep(c, o)
    BY <1>1, <1>2 DEF FlushStep, Moves, Context
  <1>3. CASE ~c.ex_valid
    <2>1. Quiet(Halted) /\ Halted.ns = "FLUSH_EX" /\ Halted.save = "no"
      BY <1>1, <1>3 DEF FlushEx, Halted, Default
    <2> HIDE DEF Quiet
    <2> QED BY <1>2, <2>1, FlushExRefines
  <1>4. CASE c.ex_valid /\ (illegal_insn_q \/ Op = "ecall")
    <2> DEFINE o == [h EXCEPT !.save = save, !.epc = pc_id]
    <2>1. Edge(c, o)
      BY <1>4 DEF FlushEx
    <2> HIDE DEF save
    <2>2. Quiet(o) /\ o.ns = "FLUSH_WB" /\ o.save = save /\ o.epc = pc_id
      BY <2>1 DEF Halted, Default
    <2> HIDE DEF o, Quiet
    <2>3. FlushStep(c, o)
      BY <1>1, <1>2, <1>4, <2>2
    <2> QED BY <1>4, <2>2, <2>3, ExceptionRefines DEF Trapping, save
  <1>5. CASE c.ex_valid /\ ~(illegal_insn_q \/ Op = "ecall") /\ Op = "ebreak"
    <2> DEFINE o == [h EXCEPT !.save = "trap", !.epc = pc_id]
    <2>1. Edge(c, o)
      BY <1>5 DEF FlushEx
    <2>2. Quiet(o) /\ o.ns = "FLUSH_WB" /\ o.save = "trap" /\ o.epc = pc_id
      BY <2>1 DEF Halted, Default
    <2> HIDE DEF o, Quiet
    <2>3. FlushStep(c, o) /\ ~debug_mode_q
      BY <1>1, <1>2, <1>5, <2>2 DEF Context, RefInv, Modes
    <2> QED BY <1>5, <2>2, <2>3, ExceptionRefines DEF Trapping
  <1>6. CASE c.ex_valid /\ ~(illegal_insn_q \/ Op = "ecall") /\ Op # "ebreak"
    <2>1. Edge(c, h)
      BY <1>6 DEF FlushEx
    <2>2. Quiet(h) /\ h.ns = "FLUSH_WB" /\ h.save = "no"
      BY <2>1 DEF Halted, Default
    <2> HIDE DEF h, Quiet
    <2>3. FlushStep(c, h)
      BY <1>1, <1>2, <1>6, <2>2
    <2> QED BY <1>6, <2>2, <2>3, FlushExRefines DEF Trapping
  <1> QED
    BY <1>3, <1>4, <1>5, <1>6

LEMMA WriteBackRefines ==
  ASSUME NEW c, Context(c), FlushWb(c)
  PROVE  Refines
  <1> DEFINE Quiet(o) == /\ Edge(c, o) /\ o.halt_if /\ o.halt_id /\ ~o.decoding /\ o.save = "no"
                         /\ o.debug_mode = debug_mode_q /\ o.entry = debug_req_entry_q
             set == IF debug_mode_q /\ (illegal_insn_q \/ Op = "ecall") THEN DbgExcPC ELSE ExcPC
             ns  == IF single_step /\ ~debug_mode_q THEN "DBG_TAKEN_IF" ELSE "DECODE"
             ret == ~debug_mode_q
  <1>1. ctrl_fsm_cs = "FLUSH_WB"
    BY DEF FlushWb
  <1>2. \A o : Quiet(o) => Moves(c, o)
    BY DEF Moves, Context
  <1>3. CASE Trapping
    <2> DEFINE o == [Halted EXCEPT !.set = set, !.ns = ns, !.illegal = FALSE]
    <2>1. Edge(c, o)
      BY <1>3 DEF FlushWb, Trapping
    <2> HIDE DEF set, ns
    <2>2. Quiet(o) /\ Plain(o) /\ o.ns = ns /\ o.set = set
      BY <2>1 DEF Halted, Default, Plain
    <2> HIDE DEF o
    <2>3. Moves(c, o) /\ ~o.decoding
      BY <1>2, <2>2
    <2> HIDE DEF Quiet
    <2> QED BY <1>1, <1>3, <2>2, <2>3, HandlerRefines DEF set, ns
  <1>4. CASE ~Trapping /\ Op = "mret"
    <2> DEFINE o == [Halted EXCEPT !.ns = "XRET_JUMP", !.restore = ret]
    <2>1. Edge(c, o)
      BY <1>4 DEF FlushWb, Trapping
    <2> HIDE DEF ret
    <2>2. /\ Quiet(o) /\ o.ns = "XRET_JUMP" /\ o.set = NoPC /\ o.restore = ret
          /\ o.wakeup = debug_force_wakeup_q
      BY <2>1 DEF Halted, Default
    <2> HIDE DEF o
    <2>3. Moves(c, o)
      BY <1>2, <2>2
    <2> QED BY <1>1, <1>4, <2>2, <2>3, MretRefines DEF ret
  <1>5. CASE ~Trapping /\ Op = "dret"
    <2> DEFINE o == [Halted EXCEPT !.ns = "XRET_JUMP"]
    <2>1. Edge(c, o)
      BY <1>5 DEF FlushWb, Trapping
    <2>2. Quiet(o) /\ Plain(o) /\ o.ns = "XRET_JUMP" /\ o.set = NoPC
      BY <2>1 DEF Halted, Default, Plain
    <2> HIDE DEF o
    <2>3. Moves(c, o)
      BY <1>2, <2>2
    <2> QED BY <1>1, <1>5, <2>2, <2>3, DretWfiRefines
  <1>6. CASE ~Trapping /\ Op = "wfi"
    <2>1. CASE debug_req_pending(c)
      <3> DEFINE o == [Halted EXCEPT !.ns = "DBG_TAKEN_IF", !.wakeup = TRUE]
      <3>1. Edge(c, o)
        BY <1>6, <2>1 DEF FlushWb, Trapping
      <3>2. Quiet(o) /\ o.ns = "DBG_TAKEN_IF" /\ o.wakeup = TRUE /\ o.set = NoPC /\ ~o.restore
        BY <3>1 DEF Halted, Default
      <3> HIDE DEF o
      <3>3. Moves(c, o)
        BY <1>2, <3>2
      <3> QED BY <1>1, <1>6, <2>1, <3>2, <3>3, WakeForDebugRefines
    <2>2. CASE ~debug_req_pending(c)
      <3> DEFINE o == [Halted EXCEPT !.ns = "WAIT_SLEEP"]
      <3>1. Edge(c, o)
        BY <1>6, <2>2 DEF FlushWb, Trapping
      <3>2. Quiet(o) /\ Plain(o) /\ o.ns = "WAIT_SLEEP" /\ o.set = NoPC
        BY <3>1 DEF Halted, Default, Plain
      <3> HIDE DEF o
      <3>3. Moves(c, o)
        BY <1>2, <3>2
      <3> QED BY <1>1, <1>6, <3>2, <3>3, DretWfiRefines
    <2> QED BY <2>1, <2>2
  <1>7. CASE ~Trapping /\ Op = "fencei"
    <2> DEFINE o == [Halted EXCEPT !.ns = "DECODE", !.set = NextPC(pc_id)]
    <2>1. Edge(c, o)
      BY <1>7 DEF FlushWb, Trapping
    <2>2. Quiet(o) /\ Plain(o) /\ o.ns = "DECODE" /\ o.set = NextPC(pc_id)
      BY <2>1 DEF Halted, Default, Plain
    <2> HIDE DEF o
    <2>3. Moves(c, o)
      BY <1>2, <2>2
    <2> QED BY <1>1, <1>7, <2>2, <2>3, FlushWbRefines
  <1>8. CASE ~Trapping /\ Op \notin {"mret", "dret", "wfi", "fencei"}
    <2> DEFINE o == [Halted EXCEPT !.ns = "DECODE"]
    <2>1. Edge(c, o)
      BY <1>8 DEF FlushWb, Trapping
    <2>2. Quiet(o) /\ Plain(o) /\ o.ns = "DECODE" /\ o.set = NoPC
      BY <2>1 DEF Halted, Default, Plain
    <2> HIDE DEF o
    <2>3. Moves(c, o)
      BY <1>2, <2>2
    <2> QED BY <1>1, <1>8, <2>2, <2>3, FlushWbRefines
  <1> QED
    BY <1>3, <1>4, <1>5, <1>6, <1>7, <1>8

LEMMA ReturnRefines ==
  ASSUME NEW c, Context(c), XretJump(c)
  PROVE  Refines
  <1> DEFINE ns == IF single_step /\ ~debug_mode_q THEN "DBG_TAKEN_IF" ELSE "DECODE"
             d  == [Default EXCEPT !.ns = ns]
             set == IF debug_mode_q THEN DbgExcPC ELSE mepc_q
             mret == [d EXCEPT !.set = set]
             dret == [d EXCEPT !.set = depc_q, !.debug_mode = FALSE]
  <1>1. ctrl_fsm_cs = "XRET_JUMP"
    BY DEF XretJump
  <1>2. (Op = "mret" /\ Edge(c, mret)) \/ (Op = "dret" /\ Edge(c, dret))
    BY DEF XretJump
  <1>3. CASE Op = "mret" /\ Edge(c, mret)
    <2> HIDE DEF ns, set
    <2>1. Plain(mret) /\ ~mret.decoding /\ mret.ns = ns /\ mret.set = set
      BY DEF Default, Plain
    <2>2. Moves(c, mret)
      BY <1>3 DEF Moves, Context
    <2> HIDE DEF mret
    <2> QED BY <1>1, <1>3, <2>1, <2>2, MretJumpRefines DEF ns, set
  <1>4. CASE Op = "dret" /\ Edge(c, dret)
    <2>a. ns = "DECODE"
      BY <1>1, <1>4 DEF Context, RefInv, Modes
    <2> HIDE DEF ns
    <2>1. /\ dret.ns = ns /\ dret.set = depc_q /\ dret.debug_mode = FALSE /\ ~dret.decoding
          /\ dret.save = "no" /\ ~dret.restore
          /\ dret.entry = debug_req_entry_q /\ dret.wakeup = debug_force_wakeup_q
      BY DEF Default
    <2>2. Moves(c, dret)
      BY <1>4 DEF Moves, Context
    <2> HIDE DEF dret
    <2> QED BY <1>1, <1>4, <2>a, <2>1, <2>2, DretJumpRefines
  <1> QED
    BY <1>2, <1>3, <1>4

LEMMA DebugRefines ==
  ASSUME NEW c, Context(c), DbgWaitBranch(c) \/ DbgFlush(c) \/ DbgTakenId(c) \/ DbgTakenIf(c)
  PROVE  Refines
  <1>1. CASE DbgWaitBranch(c)
    <2> DEFINE set == IF BranchTaken THEN ex.arg ELSE NoPC
               o == [Default EXCEPT !.ns = "DBG_FLUSH", !.halt_if = TRUE, !.set = set]
    <2>1. ctrl_fsm_cs = "DBG_WAIT_BRANCH" /\ Edge(c, o)
      BY <1>1 DEF DbgWaitBranch
    <2> HIDE DEF set
    <2>2. Plain(o) /\ ~o.decoding /\ o.ns = "DBG_FLUSH" /\ o.halt_if /\ o.set = set
      BY DEF Default, Plain
    <2>3. Moves(c, o)
      BY <2>1 DEF Moves, Context
    <2> HIDE DEF o
    <2> QED BY <2>1, <2>2, <2>3, DbgWaitBranchRefines DEF set
  <1>2. CASE DbgFlush(c)
    <2> DEFINE ns == IF \/ debug_mode_q \/ trigger_match \/ (ebrk_force /\ Op = "ebreak")
                        \/ Op = "elw" \/ debug_req_entry_q
                     THEN "DBG_TAKEN_ID" ELSE "DBG_TAKEN_IF"
               o == [Halted EXCEPT !.ns = ns]
    <2>1. ctrl_fsm_cs = "DBG_FLUSH" /\ Edge(c, o)
      BY <1>2 DEF DbgFlush
    <2>2. ns = IF BeforeID THEN "DBG_TAKEN_ID" ELSE "DBG_TAKEN_IF"
      BY <2>1 DEF BeforeID
    <2> HIDE DEF ns
    <2>3. Plain(o) /\ ~o.decoding /\ o.ns = ns /\ o.halt_if /\ o.halt_id /\ o.set = NoPC
      BY DEF Halted, Default, Plain
    <2>4. Moves(c, o)
      BY <2>1 DEF Moves, Context
    <2> HIDE DEF o
    <2> QED BY <2>1, <2>2, <2>3, <2>4, DbgFlushRefines
  <1>3. CASE DbgTakenId(c)
    <2> DEFINE save  == IF debug_mode_q THEN "no" ELSE "debug"
               cause == IF trigger_match THEN "trigger"
                        ELSE IF ebrk_force /\ (Op = "ebreak") THEN "ebreak"
                        ELSE IF debug_req_entry_q THEN "haltreq" ELSE "ebreak"
               o == [Default EXCEPT !.ns = "DECODE", !.set = DbgPC, !.entry = FALSE,
                                    !.debug_mode = TRUE, !.save = save, !.epc = pc_id,
                                    !.cause = cause]
    <2>1. ctrl_fsm_cs = "DBG_TAKEN_ID" /\ Edge(c, o)
      BY <1>3 DEF DbgTakenId
    <2> HIDE DEF save, cause
    <2>2. /\ o.ns = "DECODE" /\ o.set = DbgPC /\ ~o.entry /\ o.debug_mode = TRUE /\ ~o.decoding
          /\ o.save = save /\ o.epc = pc_id /\ o.cause = cause /\ ~o.restore
          /\ o.wakeup = debug_force_wakeup_q
      BY DEF Default
    <2>3. Moves(c, o) /\ ~debug_force_wakeup_q
      BY <2>1 DEF Moves, Context, RefInv, Entering
    <2> HIDE DEF o
    <2>4. CASE debug_mode_q
      BY <2>1, <2>2, <2>3, <2>4, EbreakInDebugRefines DEF save
    <2>5. CASE ~debug_mode_q
      BY <2>1, <2>2, <2>3, <2>5, EnterDebugRefines DEF save, cause
    <2> QED BY <2>4, <2>5
  <1>4. CASE DbgTakenIf(c)
    <2> DEFINE cause == IF debug_force_wakeup_q THEN "haltreq"
                        ELSE IF single_step THEN "step" ELSE "ebreak"
               o == [Default EXCEPT !.ns = "DECODE", !.set = DbgPC, !.wakeup = FALSE,
                                    !.debug_mode = TRUE, !.save = "debug", !.epc = pc_if,
                                    !.cause = cause]
    <2>1. ctrl_fsm_cs = "DBG_TAKEN_IF" /\ Edge(c, o)
      BY <1>4 DEF DbgTakenIf
    <2> HIDE DEF cause
    <2>2. /\ o.ns = "DECODE" /\ o.set = DbgPC /\ ~o.wakeup /\ o.debug_mode = TRUE /\ ~o.decoding
          /\ o.save = "debug" /\ o.epc = pc_if /\ o.cause = cause /\ ~o.restore
          /\ o.entry = debug_req_entry_q
      BY DEF Default
    <2>3. Moves(c, o) /\ ~debug_req_entry_q
      BY <2>1 DEF Moves, Context, RefInv, Entering
    <2> HIDE DEF o
    <2> QED BY <2>1, <2>2, <2>3, EnterDebugRefines DEF cause
  <1> QED
    BY <1>1, <1>2, <1>3, <1>4

LEMMA EventLoadRefines ==
  ASSUME NEW c, Context(c), ElwExe(c) \/ IrqFlushElw(c)
  PROVE  Refines
  <1>1. CASE ElwExe(c)
    <2> DEFINE ns == IF ~IdReady(c) THEN "ELW_EXE"
                     ELSE IF (debug_req_pending(c) \/ trigger_match) /\ ~debug_mode_q
                     THEN "DBG_FLUSH" ELSE "IRQ_FLUSH_ELW"
               o == [Halted EXCEPT !.ns = ns]
    <2>1. ctrl_fsm_cs = "ELW_EXE" /\ Edge(c, o)
      BY <1>1 DEF ElwExe
    <2>2. ns \in {"ELW_EXE", "IRQ_FLUSH_ELW", "DBG_FLUSH"}
      OBVIOUS
    <2> HIDE DEF ns
    <2>3. Plain(o) /\ ~o.decoding /\ o.ns = ns /\ o.halt_if /\ o.halt_id /\ o.set = NoPC
      BY DEF Halted, Default, Plain
    <2>4. Moves(c, o)
      BY <2>1 DEF Moves, Context
    <2> HIDE DEF o
    <2> QED BY <2>1, <2>2, <2>3, <2>4, ElwWaitRefines
  <1>2. CASE IrqFlushElw(c)
    <2>1. ctrl_fsm_cs = "IRQ_FLUSH_ELW"
      BY <1>2 DEF IrqFlushElw
    <2>2. CASE irq_req /\ ~(debug_req_pending(c) \/ debug_mode_q)
      <3> DEFINE o == Interrupted(pc_id)
      <3>1. Edge(c, o)
        BY <1>2, <2>2 DEF IrqFlushElw
      <3>2. /\ o.ns = "DECODE" /\ o.set = IrqPC /\ o.halt_id /\ o.save = "trap" /\ ~o.restore
            /\ o.debug_mode = debug_mode_q /\ o.entry = debug_req_entry_q
            /\ o.wakeup = debug_force_wakeup_q /\ o.epc = pc_id
        BY DEF Interrupted, Default
      <3> HIDE DEF o
      <3>3. Moves(c, o)
        BY <3>1 DEF Moves, Context
      <3> QED BY <2>1, <2>2, <3>2, <3>3, IrqRefines
    <2>3. CASE ~(irq_req /\ ~(debug_req_pending(c) \/ debug_mode_q))
      <3> DEFINE o == [Halted EXCEPT !.ns = "DECODE"]
      <3>1. Edge(c, o)
        BY <1>2, <2>3 DEF IrqFlushElw
      <3>2. Plain(o) /\ ~o.decoding /\ o.ns = "DECODE" /\ o.set = NoPC
        BY DEF Halted, Default, Plain
      <3> HIDE DEF o
      <3>3. Moves(c, o)
        BY <3>1 DEF Moves, Context
      <3> QED BY <2>1, <3>2, <3>3, ElwDoneRefines
    <2> QED BY <2>2, <2>3
  <1> QED
    BY <1>1, <1>2

LEMMA CycleRefines ==
  ASSUME NEW c, Context(c), Cycle(c)
  PROVE  Refines
  BY StartRefines, SleepRefines, DecodeRefines, DecodeInstrRefines, FlushRefines,
     WriteBackRefines, ReturnRefines, DebugRefines, EventLoadRefines DEF Cycle

LEMMA InitRefines == Init => Machine!Init
  <1> SUFFICES ASSUME Init PROVE Machine!Init
    OBVIOUS
  <1>1. pc = BootPC /\ stepped = FALSE
    BY DEF Init, pc, stepped
  <1>2. mstatus = Machine!ResetMStatus /\ dcsr = Machine!ResetDCsr
    BY DEF Init, mstatus, dcsr, Bubble, ResetMStatus, ResetDCsr, MStatusOf, DCsrOf, Bit,
           Machine!ResetMStatus, Machine!ResetDCsr, Machine!MStatusOf, Machine!DCsrOf, Machine!Bit
  <1>3. mepc = 0 /\ mie = FALSE /\ debug = FALSE /\ dpc = 0 /\ tdata1 = FALSE
        /\ dreq = FALSE /\ irq = FALSE /\ effects = FALSE
    BY DEF Init, mepc, mie, mie_bypass, debug, dpc, tdata1, dreq, irq, Bubble
  <1> QED
    BY <1>1, <1>2, <1>3 DEF Machine!Init

LEMMA StepRefines ==
  ASSUME RefInv, WellUsed, WellUsed', [Next]_vars
  PROVE  RefInv' /\ [Machine!Step /\ Machine!Requests]_(Machine!vars)
  <1>1. CASE Next
    <2>1. PICK c \in Input : Cycle(c) /\ DebugReqEdge(c)
      BY <1>1 DEF Next
    <2>2. CtrlInv'
      BY CtrlInvStep DEF RefInv
    <2>3. Context(c)
      BY <2>1, <2>2 DEF Context
    <2>4. RefInv' /\ Machine!Step
      BY <2>1, <2>3, CycleRefines DEF Refines
    <2>5. Machine!Requests
      BY <2>1, <2>2 DEF Machine!Requests, CtrlInv, TypeOK, DebugReqEdge, dreq, irq, debug
    <2> QED BY <2>4, <2>5
  <1>2. CASE UNCHANGED vars
    <2> USE DEF vars, clocked, ctrlVars, pipeVars, csrVars
    <2>1. UNCHANGED <<Op, trigger_match, ebrk_force, single_step, csr_status, BeforeID, BranchTaken,
                      Trapping>>
      BY <1>2 DEF Op, trigger_match, ebrk_force, single_step, csr_status, BeforeID, BranchTaken, Trapping
    <2>2. CtrlInv'
      BY CtrlInvStep DEF RefInv
    <2>3. RefInv'
      BY <1>2, <2>1, <2>2 DEF RefInv, Addresses, Executing, Modes, Entering
    <2>4. UNCHANGED <<pc, stepped>>
      BY <1>2, <2>1 DEF pc, stepped
    <2>5. UNCHANGED <<mstatus, mepc, mie, dcsr, dpc, tdata1, debug, dreq, irq>>
      BY <1>2 DEF mstatus, mepc, mie, mie_bypass, dcsr, dpc, tdata1, debug, dreq, irq
    <2> QED BY <1>2, <2>3, <2>4, <2>5 DEF Machine!vars, Machine!regs
  <1> QED
    BY <1>1, <1>2

(* The pipeline implements the machine of Isa.tla: through every flush,    *)
(* stall, redirect and debug entry of controller.sv, instructions take     *)
(* effect once and in order, traps are precise and a single step is one    *)
(* instruction, in every program that keeps to WellUsed.                   *)
THEOREM PipelineImplementsIsa == Spec /\ []WellUsed => ImplementsIsa
  <1>1. Init => RefInv /\ Machine!Init
    BY RefInvInit, InitRefines
  <1>2. RefInv /\ WellUsed /\ WellUsed' /\ [Next]_vars
          => RefInv' /\ [Machine!Step /\ Machine!Requests]_(Machine!vars)
    BY StepRefines
  <1> QED
    BY <1>1, <1>2, PTL DEF Spec, ImplementsIsa, Machine!Machine
=============================================================================
