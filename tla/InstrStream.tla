---------------------------- MODULE InstrStream ----------------------------
(***************************************************************************)
(* What the fetch stage promises the decode stage: from the target of the  *)
(* last redirect on, the instructions of the program one after the other,  *)
(* whatever their sizes, each once and with its own address.  A hardware   *)
(* loop jump takes effect after one more instruction, the one at HWLP_END. *)
(*                                                                         *)
(* ports is what can be seen from outside, cycle by cycle: whether the     *)
(* controller redirects or a loop jumps, and where to, and whether an      *)
(* instruction is written to IF/ID.  pc follows from it and the program.   *)
(***************************************************************************)
EXTENDS Halfwords

VARIABLES mem,    \* the program
          pc,     \* address of the instruction to be handed over next
          loop,   \* the pending loop start: {} or one address
          instr,  \* the instruction handed over last, with its address
          ports   \* the last cycle: target of a redirect, target of a loop
                  \* jump, whether handed over; turn tells equal cycles apart

streamVars == <<mem, pc, loop, instr, ports>>

Init ==
  /\ mem \in Image
  /\ pc = Lo(0) /\ loop = {} /\ instr = [pc |-> Lo(0), halves |-> <<>>]
  /\ ports = [turn |-> FALSE, branch |-> {}, hwlp |-> {}, handed |-> FALSE]

Cycle(branch, hwlp) ==
  /\ ports' = [turn |-> ~ports.turn, branch |-> branch, hwlp |-> hwlp, handed |-> FALSE]
  /\ UNCHANGED instr

(* A cycle that hands over the instruction at pc *)
HandOver(branch, hwlp) ==
  /\ ports' = [turn |-> ~ports.turn, branch |-> branch, hwlp |-> hwlp, handed |-> TRUE]
  /\ instr' = [pc |-> pc, halves |-> InstrAt(mem, pc)]

Wait == Cycle({}, {}) /\ UNCHANGED <<pc, loop>>

Redirect(a) == Cycle({a}, {}) /\ pc' = a /\ loop' = {}

LoopJump(a) == loop = {} /\ Cycle({}, {a}) /\ loop' = {a} /\ UNCHANGED pc

Deliver ==
  /\ HandOver({}, {})
  /\ loop' = {}
  /\ IF loop = {} THEN pc' = InstrAfter(mem, pc) ELSE pc' \in loop

(* HWLP_END is handed over in the very cycle of the loop jump. *)
LoopDeliver(a) == loop = {} /\ HandOver({}, {a}) /\ pc' = a /\ UNCHANGED loop

Next ==
  /\ UNCHANGED mem
  /\ \/ Deliver
     \/ Wait
     \/ \E a \in Half : Redirect(a) \/ LoopJump(a) \/ LoopDeliver(a)

Spec == Init /\ [][Next]_streamVars
============================================================================
