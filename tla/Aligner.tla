------------------------------ MODULE Aligner ------------------------------
(***************************************************************************)
(* The aligner of CV32E40P (rtl/cv32e40p_aligner.sv) in the fetch stage    *)
(* (rtl/cv32e40p_if_stage.sv): it cuts the words of the prefetcher into    *)
(* 16 and 32-bit instructions and keeps the program counter.               *)
(*                                                                         *)
(* The prefetcher is its abstract specification, FetchStream.  A halfword  *)
(* is represented by its address.  One step is one clock edge, c the       *)
(* inputs of the cycle.                                                    *)
(***************************************************************************)
EXTENDS Halfwords

VARIABLES
  mem,                     \* the program
  state, r_instr_h, pc_q, hwlp_addr_q, aligner_ready_q, hwlp_update_pc_q,
  id,                      \* IF/ID: pc_id_o, instr_rdata_id_o
  next, loop, last,        \* prefetcher: see FetchStream
  ports                    \* history: what the ports of the last cycle carried

alignerVars == <<state, r_instr_h, pc_q, hwlp_addr_q, aligner_ready_q, hwlp_update_pc_q>>
wordVars    == <<next, loop, last>>
vars        == <<mem, alignerVars, id, wordVars, ports>>

Words == INSTANCE FetchStream

(* The inputs of a cycle.  A valid word is the next one, and none is valid *)
(* while redirecting; what an invalid rdata is matters only then, whether  *)
(* the decode stage would accept an instruction only otherwise.  A loop    *)
(* jump comes while HWLP_END is the next instruction, 32 bits long and     *)
(* aligned like HWLP_START (docs/source/corev_hw_loop.rst), not with a     *)
(* redirect and not twice (a_hwlp_update_pc).                              *)
Inputs(valid, words, branch, hwlp, targets) ==
  [fetch_valid : valid,
   rdata       : words,         \* the word on fetch_rdata_i
   accept      : valid,         \* id_ready_i && !halt_if_i
   branch      : {branch},      \* pc_set_i
   hwlp        : {hwlp},        \* hwlp_jump_i
   target      : targets]       \* branch_addr_n, hwlp_target_i

Redirects == Inputs({FALSE}, Word, TRUE, FALSE, Half)
LoopJumps == IF state = "ALIGNED32" /\ mem[pc_q] /\ ~hwlp_update_pc_q
             THEN Inputs(BOOLEAN, {next}, FALSE, TRUE, {Lo(w) : w \in Word})
             ELSE {}
Plain     == Inputs(BOOLEAN, {next}, FALSE, FALSE, {pc_q})

if_valid(c) == c.accept /\ c.fetch_valid

(* Default outputs *)
Default(c) ==
  [valid |-> c.fetch_valid, ready |-> TRUE, update |-> if_valid(c),
   first |-> Lo(c.rdata), second |-> Hi(c.rdata), pc_n |-> pc_q, ns |-> state]

(* The loop start to continue with, if there is one. *)
LoopOr(c, p) == IF c.hwlp THEN c.target ELSE IF hwlp_update_pc_q THEN hwlp_addr_q ELSE p

Aligned32Skips(c) ==       \* mutant: goes on to the next word, whatever the size
  [Default(c) EXCEPT !.pc_n = LoopOr(c, Plus4(pc_q))]

Aligned32(c) ==
  IF mem[Lo(c.rdata)]
  THEN [Default(c) EXCEPT !.pc_n = LoopOr(c, Plus4(pc_q))]
  ELSE [Default(c) EXCEPT !.pc_n = Plus2(pc_q), !.ns = "MISALIGNED32"]

Misaligned32Greedy(c) ==   \* mutant: the word is taken although none of it is used
  IF mem[r_instr_h]
  THEN [Default(c) EXCEPT !.pc_n = Plus4(pc_q), !.first = r_instr_h, !.second = Lo(c.rdata)]
  ELSE [Default(c) EXCEPT !.pc_n = Plus2(pc_q), !.first = r_instr_h,
                          !.ns = "MISALIGNED16", !.valid = TRUE]

(* The upper half of the last word is still to be used. *)
Misaligned32(c) ==
  IF mem[r_instr_h]
  THEN [Default(c) EXCEPT !.pc_n = Plus4(pc_q), !.first = r_instr_h, !.second = Lo(c.rdata)]
  ELSE [Default(c) EXCEPT !.pc_n = Plus2(pc_q), !.first = r_instr_h,
                          !.ns = "MISALIGNED16", !.valid = TRUE, !.ready = ~c.fetch_valid]

Misaligned16Fresh(c) ==    \* mutant: waits for a word although one is held
  LET o == [Default(c) EXCEPT !.valid = aligner_ready_q /\ c.fetch_valid,
                              !.update = aligner_ready_q /\ if_valid(c)]
  IN IF mem[Lo(c.rdata)]
     THEN [o EXCEPT !.pc_n = Plus4(pc_q), !.ns = "ALIGNED32"]
     ELSE [o EXCEPT !.pc_n = Plus2(pc_q), !.ns = "MISALIGNED32"]

(* The word was there already and has been held back. *)
Misaligned16(c) ==
  LET there == ~aligner_ready_q \/ c.fetch_valid
      o == [Default(c) EXCEPT !.valid = there, !.update = there /\ if_valid(c)]
  IN IF mem[Lo(c.rdata)]
     THEN [o EXCEPT !.pc_n = Plus4(pc_q), !.ns = "ALIGNED32"]
     ELSE [o EXCEPT !.pc_n = Plus2(pc_q), !.ns = "MISALIGNED32"]

(* The lower half of the word is not wanted. *)
BranchMisaligned(c) ==
  IF mem[Hi(c.rdata)]
  THEN [Default(c) EXCEPT !.valid = FALSE, !.ns = "MISALIGNED32"]
  ELSE [Default(c) EXCEPT !.pc_n = Plus2(pc_q), !.first = Hi(c.rdata), !.ns = "ALIGNED32"]

Decode(c) ==
  CASE state = "ALIGNED32"         -> Aligned32(c)
    [] state = "MISALIGNED32"      -> Misaligned32(c)
    [] state = "MISALIGNED16"      -> Misaligned16(c)
    [] state = "BRANCH_MISALIGNED" -> BranchMisaligned(c)

Out(c) ==
  IF c.branch
  THEN [Decode(c) EXCEPT !.update = TRUE, !.pc_n = c.target,
                         !.ns = IF c.target.hi THEN "BRANCH_MISALIGNED" ELSE "ALIGNED32"]
  ELSE Decode(c)

FetchReady(c, o) == ~c.branch /\ if_valid(c) /\ o.ready

AlignerEdge(c, o) ==
  \/ /\ o.update
     /\ pc_q' = o.pc_n /\ state' = o.ns
     /\ r_instr_h' = Hi(c.rdata)
     /\ aligner_ready_q' = o.ready
     /\ hwlp_update_pc_q' = FALSE
     /\ UNCHANGED hwlp_addr_q
  \/ /\ ~o.update
     /\ hwlp_addr_q' = IF c.hwlp THEN c.target ELSE hwlp_addr_q
     /\ hwlp_update_pc_q' = (c.hwlp \/ hwlp_update_pc_q)
     /\ UNCHANGED <<pc_q, state, r_instr_h, aligner_ready_q>>

(* The IF/ID registers *)
HandsOver(c, o) == if_valid(c) /\ o.valid

IdEdge(c, o) ==
  id' = IF HandsOver(c, o)
        THEN [pc |-> pc_q, halves |-> Decoded(mem, o.first, o.second)]
        ELSE id

(* The prefetcher *)
WordEdge(c, o) ==
  IF c.branch THEN Words!Redirect(c.target.word)
  ELSE IF c.hwlp
  THEN IF FetchReady(c, o) THEN Words!LoopDeliver(c.target.word) ELSE Words!LoopJump(c.target.word)
  ELSE IF FetchReady(c, o) THEN Words!Deliver ELSE UNCHANGED wordVars

(* What the neighbours see: redirects and loop jumps with their targets,   *)
(* and writes to IF/ID.  Two equal cycles differ in turn.                  *)
PortsEdge(c, o) ==
  ports' = [turn   |-> ~ports.turn,
            branch |-> IF c.branch THEN {c.target} ELSE {},
            hwlp   |-> IF c.hwlp THEN {c.target} ELSE {},
            handed |-> HandsOver(c, o)]

Cycle(c) ==
  LET o == Out(c)
  IN AlignerEdge(c, o) /\ IdEdge(c, o) /\ WordEdge(c, o) /\ PortsEdge(c, o) /\ UNCHANGED mem

Init ==
  /\ mem \in Image
  /\ state = "ALIGNED32" /\ r_instr_h = Lo(0) /\ pc_q = Lo(0) /\ hwlp_addr_q = Lo(0)
  /\ aligner_ready_q = FALSE /\ hwlp_update_pc_q = FALSE
  /\ id = [pc |-> Lo(0), halves |-> <<>>]
  /\ Words!Init
  /\ ports = [turn |-> FALSE, branch |-> {}, hwlp |-> {}, handed |-> FALSE]

Branch   == \E c \in Redirects : Cycle(c)
LoopJump == \E c \in LoopJumps : Cycle(c)
Fetch    == \E c \in Plain : Cycle(c)

Next == Branch \/ LoopJump \/ Fetch

Spec == Init /\ [][Next]_vars

(* The prefetcher offers a word and the decode stage accepts an            *)
(* instruction again and again.                                            *)
Taken(inputs) == \E c \in inputs : if_valid(c) /\ Cycle(c)

Fairness == WF_vars(Taken(Plain) \/ Taken(LoopJumps))

FairSpec == Spec /\ Fairness

-----------------------------------------------------------------------------
(* Properties *)

TypeOK ==
  /\ mem \in Image
  /\ state \in {"ALIGNED32", "MISALIGNED32", "MISALIGNED16", "BRANCH_MISALIGNED"}
  /\ {r_instr_h, pc_q, hwlp_addr_q} \subseteq Half
  /\ aligner_ready_q \in BOOLEAN /\ hwlp_update_pc_q \in BOOLEAN
  /\ next \in Word /\ last \in Word
  /\ loop \subseteq Word
  /\ ports \in [turn : BOOLEAN, branch : SUBSET Half, hwlp : SUBSET Half, handed : BOOLEAN]

(* The state, the held half, the program counter and the prefetcher agree: *)
(* the next word is the first the next instruction still needs, the held   *)
(* half is the one the program counter points at, a word is held back only *)
(* when MISALIGNED16 knows of it, and both sides remember the same loop    *)
(* jump.                                                                   *)
InStep ==
  /\ CASE state = "ALIGNED32"         -> pc_q = Lo(next)
       [] state = "MISALIGNED32"      -> /\ pc_q.hi /\ next = NextWord(pc_q.word)
                                         /\ r_instr_h = pc_q
       [] state = "MISALIGNED16"      -> pc_q = Lo(next) /\ ~aligner_ready_q
       [] state = "BRANCH_MISALIGNED" -> pc_q = Hi(next)
  /\ IF hwlp_update_pc_q
     THEN /\ state = "ALIGNED32" /\ mem[pc_q]
          /\ ~hwlp_addr_q.hi /\ loop = {hwlp_addr_q.word}
     ELSE loop = {}

(* The fetch stage implements InstrStream: the decode stage gets every     *)
(* instruction of the program once, in order, put together from its own    *)
(* two halves and with its own address, for every mixture of sizes.  It    *)
(* goes on elsewhere only in the cycle of a redirect, or after one more    *)
(* instruction in that of a loop jump, and only at the target given then.  *)
Instrs == INSTANCE InstrStream
            WITH pc    <- pc_q,
                 loop  <- IF hwlp_update_pc_q THEN {hwlp_addr_q} ELSE {},
                 instr <- id

InstrStreamSpec == Instrs!Spec

(* Once the core stops branching, instructions keep coming: the aligner    *)
(* never swallows words or waits for one it holds back itself.             *)
InstrProgress ==
  <>[](ports.branch = {}) => []<><<ports'.handed>>_vars
=============================================================================
