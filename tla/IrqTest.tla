------------------------------- MODULE IrqTest -------------------------------
(***************************************************************************)
(* The interrupt test program (example_tb/core/interrupt) on the core, with *)
(* the testbench's interrupt generator.  Software and generator talk       *)
(* through two memory mapped registers and the interrupt lines, with       *)
(* several cycles between a store and its effect on the core, and the      *)
(* handlers share the globals with main.                                   *)
(*                                                                         *)
(* One step is one clock cycle, in which the program executes one          *)
(* statement or is stalled.  A statement takes as many cycles as it likes, *)
(* but at least one; calls and loop conditions take none.                  *)
(***************************************************************************)
EXTENDS Integers, Sequences, FiniteSetsExt

CONSTANTS Bits,          \* bits of an interrupt word that are looked at
          MIN_ID, MAX_ID,  \* IRQ_MIN_ID, IRQ_MAX_ID of the testbench
          MatSteps,      \* steps of the matrix multiplication
          MaxWords       \* bound: random interrupt words during the test

Implemented == Bits \cap ({3, 7, 11} \cup 16 .. 31)    \* STD_IRQ_MASK, IRQ_MASK

ASSUME IrqTestAssumption ==
  /\ Bits \subseteq 0 .. 31
  /\ Implemented # {} /\ Bits # Implemented
  /\ \E b \in Implemented : b \in MIN_ID .. MAX_ID
  /\ MatSteps \in Nat /\ MaxWords \in Nat

STANDARD == 1
RANDOM == 2
SOFTWARE_DEFINED == 4

VARIABLES
  pc, ret, mepc,      \* statement, return label of a call, of the interrupt
  handler,            \* the handler of the interrupt taken last
  test, i,            \* test being run, loop variable of main
  g,                  \* the C globals
  csr,                \* mstatus.MIE, mstatus.MPIE, mie
  reg,                \* testbench registers 10 (mode) and 14 (lines)
  irq_mode_q, irq_lines_q, irq_q,    \* registers of generator and core
  sd, irq_sd_lines,                  \* SOFTWARE_DEFINED process
  rnd, irq_rnd_lines,                \* RANDOM process
  words                              \* history: random words put on the lines

progVars == <<pc, ret, mepc, handler, test, i, g, csr, reg>>
genVars  == <<irq_mode_q, irq_lines_q, irq_q, sd, irq_sd_lines, rnd, irq_rnd_lines, words>>
vars     == <<progVars, genVars>>

-----------------------------------------------------------------------------
(* The interrupt lines.                                                    *)

IRQ_ID_PRIORITY == <<31, 30, 29, 28, 27, 26, 25, 24, 23, 22, 21, 20, 19, 18, 17, 16, 11, 3, 7>>

irq_idTimerFirst(w) ==    \* mutant: timer before software
  IF w \cap 16 .. 31 # {} THEN Max(w)
  ELSE IF 11 \in w THEN 11 ELSE Min(w \ {3})

irq_id(w) ==    \* priorities of the core's int_controller
  IF w \cap 16 .. 31 # {} THEN Max(w)
  ELSE CHOOSE id \in {11, 3, 7} :
         /\ id \in w
         /\ (11 \in w => id = 11) /\ (3 \in w => id # 7)

vector_table == [id \in Implemented |-> id]    \* the handler is known by its id

irq_lines_n(sdLines, rndLines) ==
  CASE irq_mode_q = RANDOM           -> rndLines
    [] irq_mode_q = SOFTWARE_DEFINED -> sdLines
    [] OTHER                         -> {}

(* Where the process is after an edge: blocked until the mode is           *)
(* SOFTWARE_DEFINED, waiting for an edge, or for the edge that samples.    *)
(* `wait' sees what registers become in this edge, the others what they    *)
(* have been.                                                              *)
SdWaits == IF irq_mode_q' # SOFTWARE_DEFINED THEN "wait"
           ELSE IF reg'.lines # {} THEN "sample" ELSE "edge"

SdProcess ==
  /\ irq_sd_lines' = IF sd = "sample" THEN reg.lines \cap Implemented ELSE irq_sd_lines
  /\ sd' = CASE sd = "sample"                                 ->
                  IF reg.lines # {} THEN "sample" ELSE "edge"
             [] sd = "edge" /\ irq_mode_q = SOFTWARE_DEFINED  ->
                  IF reg.lines # {} THEN "sample" ELSE "edge"
             [] OTHER                                         -> SdWaits

RandWords == (SUBSET (Implemented \cap MIN_ID .. MAX_ID)) \ {{}}

(* The random number of cycles between two words is left open.  driven:    *)
(* what the lines are at the edge, before STANDARD mode clears them.       *)
RndProcess(driven) ==
  \/ /\ rnd = "idle" /\ driven = irq_rnd_lines
     /\ rnd' = IF RANDOM \in {irq_mode_q, irq_mode_q'} THEN "count" ELSE "idle"
     /\ UNCHANGED <<irq_rnd_lines, words>>
  \/ /\ rnd = "count" /\ driven = irq_rnd_lines
     /\ UNCHANGED <<rnd, irq_rnd_lines, words>>
  \/ /\ rnd = "count" /\ words < MaxWords
     /\ driven \in RandWords
     /\ words' = words + 1
     /\ IF STANDARD \in {irq_mode_q, irq_mode_q'}
        THEN rnd' = "idle" /\ irq_rnd_lines' = {}
        ELSE rnd' = "drive" /\ irq_rnd_lines' = driven
  \/ /\ rnd = "drive" /\ driven = irq_rnd_lines
     /\ IF irq_mode_q' = STANDARD
        THEN rnd' = "idle" /\ irq_rnd_lines' = {}
        ELSE UNCHANGED <<rnd, irq_rnd_lines>>
     /\ UNCHANGED words

(* The two processes assign the lines at the edge at which irq_lines_q is  *)
(* clocked: which of the two is first is a race.                           *)
GeneratorEdge ==
  /\ irq_mode_q' = reg.mode
  /\ SdProcess
  /\ \E driven \in RandWords \cup {irq_rnd_lines} :
       /\ RndProcess(driven)
       /\ \/ irq_lines_q' = irq_lines_n(irq_sd_lines, irq_rnd_lines)
          \/ irq_lines_q' = irq_lines_n(irq_sd_lines', driven)
  /\ irq_q' = irq_lines_q

-----------------------------------------------------------------------------
(* The program.  Labels are the statements to be executed next.            *)

Goto(from, to)       == pc = from /\ pc' = to /\ UNCHANGED <<ret, test, i>>
Call(from, fn, back) == pc = from /\ pc' = fn /\ ret' = back /\ UNCHANGED <<test, i>>

Assign(globals) == g' = globals /\ UNCHANGED <<csr, reg, mepc, handler>>
Csrw(csrs)      == csr' = csrs /\ UNCHANGED <<g, reg, mepc, handler>>
Writew(regs)    == reg' = regs /\ UNCHANGED <<g, csr, mepc, handler>>
Nothing         == UNCHANGED <<g, csr, reg, mepc, handler>>

mstatus == [MIE |-> csr.MIE, MPIE |-> csr.MPIE]

WriteMstatus == Csrw([csr EXCEPT !.MIE = g.mmstatus.MIE, !.MPIE = g.mmstatus.MPIE])

Return(from) == pc = from /\ pc' = ret /\ UNCHANGED <<ret, test, i>>

mstatus_enable ==
  \/ Goto("en_csrr", "en_or")  /\ Assign([g EXCEPT !.mmstatus = mstatus])
  \/ Goto("en_or", "en_csrw")  /\ Assign([g EXCEPT !.mmstatus.MIE = TRUE])
  \/ Return("en_csrw")         /\ WriteMstatus

mstatus_disable ==
  \/ Goto("dis_csrr", "dis_and") /\ Assign([g EXCEPT !.mmstatus = mstatus])
  \/ Goto("dis_and", "dis_csrw") /\ Assign([g EXCEPT !.mmstatus.MIE = FALSE])
  \/ Return("dis_csrw")          /\ WriteMstatus

(* interrupt handlers: FAST_IRQ_GENERIC *)

IsRnd == g.irq_mode = RANDOM

AcknowledgeRndNoPulse ==    \* mutant: the generator is not told to clear its lines
  \/ Goto("h_served", "h_rnd") /\ Assign([g EXCEPT !.irq_served = @ + 1])
  \/ Goto("h_rnd", "h_rnd_w")  /\ Assign([g EXCEPT !.irq_mode = RANDOM])
  \/ Goto("h_rnd_w", "h_mret") /\ Writew([reg EXCEPT !.mode = g.irq_mode])

AcknowledgeRnd ==
  \/ Goto("h_served", "h_std")  /\ Assign([g EXCEPT !.irq_served = @ + 1])
  \/ Goto("h_std", "h_std_w")   /\ Assign([g EXCEPT !.irq_mode = STANDARD])
  \/ Goto("h_std_w", "h_rnd")   /\ Writew([reg EXCEPT !.mode = g.irq_mode])
  \/ Goto("h_rnd", "h_rnd_w")   /\ Assign([g EXCEPT !.irq_mode = RANDOM])
  \/ Goto("h_rnd_w", "h_mret")  /\ Writew([reg EXCEPT !.mode = g.irq_mode])

DisableAfterReturn ==    \* so that main gets to see each interrupt
  \/ Goto("h_csrr", "h_and")   /\ Assign([g EXCEPT !.mmstatus = mstatus])
  \/ Goto("h_and", "h_csrw")   /\ Assign([g EXCEPT !.mmstatus.MPIE = FALSE])
  \/ Goto("h_csrw", "h_mret")  /\ WriteMstatus

FAST_IRQ_GENERIC ==
  \/ /\ Goto("h_id", IF IsRnd THEN "h_mip" ELSE "h_clear")
     /\ Assign([g EXCEPT !.irq_id = handler])
  \/ Goto("h_mip", "h_clear") /\ Assign([g EXCEPT !.irq_pending32_std = irq_q])
  \/ /\ Goto("h_clear", "h_write")
     /\ Assign([g EXCEPT !.irq_pending32_std = @ \ {g.irq_id}])
  \/ /\ Goto("h_write", IF IsRnd THEN "h_served" ELSE "h_csrr")
     /\ Writew([reg EXCEPT !.lines = g.irq_pending32_std])
  \/ AcknowledgeRnd
  \/ DisableAfterReturn

Mret ==
  /\ Goto("h_mret", mepc)
  /\ Csrw([csr EXCEPT !.MIE = csr.MPIE, !.MPIE = TRUE])

-----------------------------------------------------------------------------
(* main *)

IRQ_NUM == Len(IRQ_ID_PRIORITY)

(* The loop of tests 2 and 3 over IRQ_ID_PRIORITY: from position j, the    *)
(* next interrupt expected (test 2 waits for every line there is), or the  *)
(* end of the test.                                                        *)
NextIrq(t, j, toTest) ==
  {k \in j .. IRQ_NUM :
     IRQ_ID_PRIORITY[k] \in IF t = 2 THEN Implemented ELSE toTest}

ServeFrom(from, t, j) ==
  LET next == NextIrq(t, j, g.irq_to_test32_std)
  IN  /\ pc = from /\ test' = t
      /\ IF next # {} THEN pc' = "sample" /\ i' = Min(next)
                      ELSE pc' = (IF t = 2 THEN "t3_reset" ELSE "t3_final") /\ i' = i
      /\ UNCHANGED ret

ServeNext ==
  \/ /\ Call("sample", "en_csrr", "wait")
     /\ Assign([g EXCEPT !.prev_irq_pending32_std = g.irq_pending32_std])
  \/ /\ g.prev_irq_pending32_std = g.irq_pending32_std
     /\ Goto("wait", "wait") /\ Nothing
  \/ /\ g.prev_irq_pending32_std # g.irq_pending32_std
     /\ Goto("wait", "check") /\ Nothing
  \/ /\ IRQ_ID_PRIORITY[i] # g.irq_id
     /\ Goto("check", "end") /\ Assign([g EXCEPT !.code = test])
  \/ /\ IRQ_ID_PRIORITY[i] = g.irq_id
     /\ ServeFrom("check", test, i + 1) /\ Nothing

EnableAll(mask, mie, next) ==
  \/ Goto(mask, mie) /\ Assign([g EXCEPT !.ie_mask32_std = Bits])
  \/ Goto(mie, next) /\ Csrw([csr EXCEPT !.mie = g.ie_mask32_std \cap Implemented])

Test1 ==
  \/ EnableAll("t1_mask", "t1_mie", "t1_mode")
  \/ Call("t1_mode", "dis_csrr", "t2_mask") /\ Writew([reg EXCEPT !.mode = SOFTWARE_DEFINED])

Test2 ==
  \/ EnableAll("t2_mask", "t2_mie", "t2_pending")
  \/ /\ Call("t2_pending", "dis_csrr", "t2_write")
     /\ Assign([g EXCEPT !.irq_pending32_std = Bits])
  \/ ServeFrom("t2_write", 2, 1) /\ Writew([reg EXCEPT !.lines = g.irq_pending32_std])

random_words == {w \cap Implemented : w \in (SUBSET Bits) \ {{}}}

to_testUnmasked(pending, mask) == pending    \* mutant: masked interrupts are waited for

to_test(pending, mask) == pending \cap mask

Test3 ==
  \/ /\ Goto("t3_reset", "t3_mask")
     /\ Assign([g EXCEPT !.irq_id = 0, !.ie_mask32_std = {}, !.irq_pending32_std = {}])
  \/ /\ Goto("t3_mask", "t3_mie")
     /\ \E w \in random_words : Assign([g EXCEPT !.ie_mask32_std = w])
  \/ Goto("t3_mie", "t3_pending") /\ Csrw([csr EXCEPT !.mie = g.ie_mask32_std])
  \/ /\ Goto("t3_pending", "t3_first")
     /\ \E w \in random_words : Assign([g EXCEPT !.irq_pending32_std = w])
  \/ /\ Goto("t3_first", "t3_test")
     /\ Assign([g EXCEPT !.first_irq_pending32_std = g.irq_pending32_std])
  \/ /\ Call("t3_test", "dis_csrr", "t3_write")
     /\ Assign([g EXCEPT !.irq_to_test32_std =
                  @ \cup to_test(g.first_irq_pending32_std, g.ie_mask32_std)])
  \/ ServeFrom("t3_write", 3, 1) /\ Writew([reg EXCEPT !.lines = g.irq_pending32_std])
  \/ LET good == g.irq_pending32_std = g.first_irq_pending32_std \ g.ie_mask32_std
     IN  \/ ~good /\ Goto("t3_final", "end") /\ Assign([g EXCEPT !.code = 3])
         \/ good /\ Call("t3_final", "dis_csrr", "t5_mask") /\ Nothing

mat_mult ==
  \/ g.mat < MatSteps /\ Goto("mat", "mat") /\ Assign([g EXCEPT !.mat = @ + 1])
  \/ g.mat = MatSteps /\ Call("mat", "dis_csrr", "t5_print") /\ Nothing

Test5 ==
  \/ EnableAll("t5_mask", "t5_mie", "t5_mode")
  \/ Goto("t5_mode", "t5_mode_w") /\ Assign([g EXCEPT !.irq_mode = RANDOM])
  \/ Goto("t5_mode_w", "t5_served") /\ Writew([reg EXCEPT !.mode = g.irq_mode])
  \/ Call("t5_served", "en_csrr", "mat") /\ Assign([g EXCEPT !.irq_served = 0])
  \/ mat_mult
  \/ Goto("t5_print", "t5_check") /\ Assign([g EXCEPT !.irq_served = 0])
  \/ /\ Goto("t5_check", "end")
     /\ Assign([g EXCEPT !.code = IF g.mat = MatSteps THEN 0 ELSE 5])

-----------------------------------------------------------------------------
Init ==
  /\ pc = "t1_mask" /\ ret = "t1_mask" /\ mepc = "t1_mask" /\ handler = 0
  /\ test = 1 /\ i = 1
  /\ g = [irq_id |-> 0, irq_pending32_std |-> {}, prev_irq_pending32_std |-> {},
          first_irq_pending32_std |-> {}, irq_to_test32_std |-> {}, ie_mask32_std |-> {},
          mmstatus |-> [MIE |-> FALSE, MPIE |-> FALSE],
          irq_mode |-> 0, irq_served |-> 0, mat |-> 0, code |-> 0]
  /\ csr = [MIE |-> FALSE, MPIE |-> FALSE, mie |-> {}]
  /\ reg = [mode |-> 0, lines |-> {}]
  /\ irq_mode_q = 0 /\ irq_lines_q = {} /\ irq_q = {}
  /\ sd = "wait" /\ irq_sd_lines = {} /\ rnd = "idle" /\ irq_rnd_lines = {}
  /\ words = 0

Statement ==
  \/ Test1 \/ Test2 \/ Test3 \/ Test5 \/ ServeNext
  \/ mstatus_enable \/ mstatus_disable \/ FAST_IRQ_GENERIC \/ Mret

irq_req == csr.MIE /\ irq_q \cap csr.mie # {}

(* The core takes an interrupt between two statements.  It may come too    *)
(* late for the statement that is already on its way through the pipeline. *)
TakeIrq ==
  /\ irq_req /\ pc # "end"
  /\ mepc' = pc /\ pc' = "h_id"
  /\ handler' = vector_table[irq_id(irq_q \cap csr.mie)]
  /\ csr' = [csr EXCEPT !.MPIE = csr.MIE, !.MIE = FALSE]
  /\ UNCHANGED <<ret, test, i, g, reg>>

Stall == UNCHANGED progVars

Execute   == Statement /\ GeneratorEdge
Interrupt == TakeIrq /\ GeneratorEdge
Wait      == Stall /\ GeneratorEdge

Next == Execute \/ Interrupt \/ Wait

(* A stall ends, and an interrupt that can be taken is.                    *)
Spec == Init /\ [][Next]_vars /\ WF_vars(Execute) /\ WF_vars(Interrupt)

-----------------------------------------------------------------------------
(* Tests 2 and 3 find each interrupt served in its turn, exactly the       *)
(* enabled ones, although handler, main and generator change the pending   *)
(* word and the lines cycles apart from one another.                       *)
NoError == g.code = 0

(* An interrupt is taken only for a request the software still waits for:  *)
(* not from a line that an earlier handler has already taken back, and in  *)
(* test 5 once for each random word.                                       *)
ServedOnce ==
  pc = "h_id" =>
    IF g.irq_mode = RANDOM THEN g.irq_served + 1 = words
                           ELSE handler \in g.irq_pending32_std

(* The program ends: no interrupt it waits for is lost between sampling    *)
(* the pending word and waiting for it to change.                          *)
Terminates == <>(pc = "end")
=============================================================================
