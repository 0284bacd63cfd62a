------------------------------ MODULE MCExecute ------------------------------
EXTENDS Execute

(* One instruction of each kind over registers 1 and 2, chosen so that     *)
(* each kind of result is read, overwritten or passed by another.  In the  *)
(* build the addition lane of the FPU has latency 1, the comparison lane   *)
(* latency 2 and the divider a variable one.                               *)
I(op, rs, rd) == [op |-> op, rs |-> rs, rd |-> rd, inc |-> FALSE, mis |-> FALSE, lat |-> 0]
Inc(i) == [i EXCEPT !.inc = TRUE]
Mis(i) == [i EXCEPT !.mis = TRUE]
F(rs, rd, lat) == [I("fpu", rs, rd) EXCEPT !.lat = lat]

Few ==
  {I("alu", 2, 1), I("mulh", 1, 1), Mis(I("load", 1, 2)), Inc(I("store", 1, 0)),
   I("div", 1, 1), I("jalr", 1, 0), I("jalr", 2, 1), I("csr", 1, 1), I("branch", 1, 0)}
  \cup {F(1, 2, lat) : lat \in 1 .. 3}
Latencies == {1 .. 3}
=============================================================================
