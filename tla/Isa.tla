--------------------------------- MODULE Isa ---------------------------------
(***************************************************************************)
(* What the core promises to software and to a debugger: instructions take *)
(* effect one at a time and in program order, interrupts and exceptions    *)
(* are precise, and Debug Mode is entered between two instructions with    *)
(* the program counter to resume at in dpc.                                *)
(*                                                                         *)
(* docs/source/exceptions_interrupts.rst and debug.rst describe it in      *)
(* words; the definitions are those of the machine the pipeline of         *)
(* Controller.tla implements.                                              *)
(***************************************************************************)
EXTENDS IsaDefs

VARIABLES pc, effects, mstatus, mepc, mie, debug, dcsr, dpc, tdata1,
          stepped,                             \* a single step is complete
          dreq, irq                            \* debug and interrupt request pending

regs  == <<effects, mstatus, mepc, mie, debug, dcsr, dpc, tdata1>>
vars  == <<pc, regs, stepped, dreq, irq>>

Init ==
  /\ pc = BootPC /\ stepped = FALSE /\ effects = FALSE
  /\ mstatus = ResetMStatus /\ mepc = 0 /\ mie = FALSE
  /\ debug = FALSE /\ dcsr = ResetDCsr /\ dpc = 0 /\ tdata1 = FALSE
  /\ dreq = FALSE /\ irq = FALSE

(* The instruction boundary after which the debugger's single step is done. *)
Goto(p) == pc' = p /\ stepped' = (dcsr.step /\ ~debug)

IrqEnabled == irq /\ mie /\ mstatus.mie /\ ~(dcsr.step /\ ~dcsr.stepie)
Triggered  == tdata1 /\ pc = TriggerPC

-----------------------------------------------------------------------------
(* An instruction that does not trap runs to completion.  It is never the  *)
(* next thing to happen outside Debug Mode if an enabled interrupt, a      *)
(* trigger or a debug request (which counts in the very cycle it is made)  *)
(* is there to be taken instead.                                           *)
MayExecute == ~stepped /\ (debug \/ ~(IrqEnabled \/ Triggered \/ dreq'))

Alu    == MayExecute /\ Goto(NextPC(pc)) /\ effects' = ~effects
          /\ UNCHANGED <<mstatus, mepc, mie, debug, dcsr, dpc, tdata1>>
Other  == MayExecute /\ Goto(NextPC(pc)) /\ UNCHANGED regs      \* wfi, fencei, branch not taken
Branch == MayExecute /\ (\E p \in PC : Goto(p)) /\ UNCHANGED regs

CsrWrite ==
  /\ MayExecute /\ Goto(NextPC(pc))
  /\ UNCHANGED <<effects, debug>>
  /\ \/ /\ \E v \in 0 .. 3 : mstatus' = MStatusOf(v)
        /\ UNCHANGED <<mepc, mie, dcsr, dpc, tdata1>>
     \/ mepc' \in PC /\ UNCHANGED <<mstatus, mie, dcsr, dpc, tdata1>>
     \/ mie' \in BOOLEAN /\ UNCHANGED <<mstatus, mepc, dcsr, dpc, tdata1>>
     \/ /\ debug /\ \E v \in 0 .. 7 : dcsr' = DCsrOf(v, dcsr.cause)
        /\ UNCHANGED <<mstatus, mepc, mie, dpc, tdata1>>
     \/ debug /\ dpc' \in PC /\ UNCHANGED <<mstatus, mepc, mie, dcsr, tdata1>>
     \/ debug /\ tdata1' \in BOOLEAN /\ UNCHANGED <<mstatus, mepc, mie, dcsr, dpc>>

(* An event load has executed and the core sleeps on it; if an interrupt   *)
(* or the debugger interrupts it, it is the instruction to resume at.      *)
EventLoad == ~stepped /\ Goto(NextPC(pc)) /\ UNCHANGED regs

-----------------------------------------------------------------------------
(* Traps, returns and Debug Mode *)

Save ==
  /\ mepc' = pc
  /\ mstatus' = [mie |-> FALSE, mpie |-> mstatus.mie]
  /\ UNCHANGED <<effects, mie, debug, dcsr, dpc, tdata1>>

Exception ==                                    \* ecall, ebreak, illegal
  /\ ~stepped
  /\ \/ ~debug /\ Goto(ExcPC) /\ Save
     \/ debug /\ Goto(DbgExcPC) /\ UNCHANGED regs

TakeIrq ==
  /\ ~stepped /\ ~debug /\ IrqEnabled
  /\ pc' = IrqPC /\ Save /\ UNCHANGED stepped

Mret ==
  /\ ~stepped
  /\ \/ /\ ~debug /\ Goto(mepc)
        /\ mstatus' = [mie |-> mstatus.mpie, mpie |-> TRUE]
        /\ UNCHANGED <<effects, mepc, mie, debug, dcsr, dpc, tdata1>>
     \/ debug /\ Goto(DbgExcPC) /\ UNCHANGED regs

Dret ==
  /\ debug /\ Goto(dpc) /\ debug' = FALSE
  /\ UNCHANGED <<effects, mstatus, mepc, mie, dcsr, dpc, tdata1>>

EbreakInDebug == debug /\ Goto(DbgPC) /\ UNCHANGED regs

EnterDebug(cause) ==
  /\ ~debug
  /\ CASE cause = "trigger" -> Triggered
       [] cause = "ebreak"  -> dcsr.ebreakm
       [] cause = "haltreq" -> dreq
       [] cause = "step"    -> stepped
  /\ stepped => cause \in {"step", "haltreq"}
  /\ pc' = DbgPC /\ dpc' = pc /\ debug' = TRUE /\ stepped' = FALSE
  /\ dcsr' = [dcsr EXCEPT !.cause = cause]
  /\ UNCHANGED <<effects, mstatus, mepc, mie, tdata1>>

Step ==
  \/ Alu \/ Other \/ Branch \/ CsrWrite \/ EventLoad
  \/ Exception \/ TakeIrq \/ Mret \/ Dret \/ EbreakInDebug
  \/ \E cause \in {"trigger", "ebreak", "haltreq", "step"} : EnterDebug(cause)
  \/ UNCHANGED <<pc, regs, stepped>>

(* A debug request pends until Debug Mode has been entered; an interrupt   *)
(* request is a level.                                                     *)
Requests ==
  /\ dreq' \in BOOLEAN /\ irq' \in BOOLEAN
  /\ dreq /\ ~dreq' => debug

Machine == Init /\ [][Step /\ Requests]_vars
=============================================================================
