----------------------------- MODULE MCSleepUnit -----------------------------
EXTENDS SleepUnit, TLC

I(op, arg) == [op |-> op, arg |-> arg]

(* 0 program, 1 what follows wfi and the handlers, 2 debug ROM. *)
SleepCode ==
  0 :> {I("csr_mie", 1), I("csr_mstatus", 1), I("wfi", 0)}
  @@ 1 :> {I("mret", 0)}
  @@ 2 :> {I("dret", 0)}
=============================================================================
