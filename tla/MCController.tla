---------------------------- MODULE MCController ----------------------------
EXTENDS Controller, TLC

I(op, arg) == [op |-> op, arg |-> arg]

(* Interrupts and exceptions: 0 and 1 program, 2 exception and 3 interrupt *)
(* handler.  The event load is illegal without COREV_CLUSTER.              *)
TrapCode ==
  0 :> {I("alu", 0), I("jump", 1), I("branch", 1), I("csr_mstatus", 1), I("csr_mie", 1),
        I("elw", 0)}
  @@ 1 :> {I("ecall", 0), I("ebreak", 0), I("illegal", 0), I("dret", 0), I("fencei", 0),
           I("csr_mie", 0), I("csr_mstatus", 2), I("wfi", 0)}
  @@ 2 :> {I("csr_mepc", 0), I("alu", 0), I("mret", 0)}
  @@ 3 :> {I("mret", 0), I("csr_mepc", 1)}

(* A debugger that halts, steps, sets triggers and returns, with wfi,      *)
(* exceptions and an interrupt: 0 program, 1 handlers, 2 and 3 debug ROM,  *)
(* 3 also its exception entry.                                             *)
DebugCode ==
  0 :> {I("jump", 0), I("branch", 0), I("csr_mie", 1), I("wfi", 0), I("ebreak", 0)}
  @@ 1 :> {I("mret", 0), I("dret", 0)}
  @@ 2 :> {I("csr_dcsr", 1), I("csr_dcsr", 7), I("csr_dcsr", 4), I("csr_tdata1", 1),
           I("csr_dpc", 1), I("ecall", 0)}
  @@ 3 :> {I("dret", 0), I("ebreak", 0)}

(* A program that writes a trigger register: 0 program, 1 and 2 debug ROM. *)
TriggerCode ==
  0 :> {I("alu", 0), I("csr_tdata1", 1)} @@ 1 :> {I("csr_tdata1", 0)} @@ 2 :> {I("dret", 0)}
=============================================================================
