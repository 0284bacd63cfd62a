--------------------------- MODULE AlignerProofs ---------------------------
(***************************************************************************)
(* Theorems about Aligner.tla, for every size of the address space and     *)
(* every program: the types, the invariant InStep, and that the aligner    *)
(* over the prefetcher's word stream implements the instruction stream.    *)
(***************************************************************************)
EXTENDS Aligner, TLAPS

Inv == TypeOK /\ InStep

States == {"ALIGNED32", "MISALIGNED32", "MISALIGNED16", "BRANCH_MISALIGNED"}

OutType == [valid : BOOLEAN, ready : BOOLEAN, update : BOOLEAN,
            first : Half, second : Half, pc_n : Half, ns : States]

InputType == [fetch_valid : BOOLEAN, rdata : Word, accept : BOOLEAN,
              branch : BOOLEAN, hwlp : BOOLEAN, target : Half]

AllInputs == Redirects \cup LoopJumps \cup Plain

(* What the neighbours guarantee *)
Legal(c) ==
  /\ c.branch => ~c.fetch_valid /\ ~c.hwlp
  /\ ~c.branch => c.rdata = next
  /\ c.hwlp => /\ state = "ALIGNED32" /\ mem[pc_q] /\ ~hwlp_update_pc_q
               /\ ~c.target.hi

-----------------------------------------------------------------------------
(* Addresses *)

LEMMA NextWordType ==
  ASSUME NEW w \in Word
  PROVE  NextWord(w) \in Word
  BY HalfwordsAssumption DEF NextWord, Word

LEMMA HalfTypes ==
  ASSUME NEW w \in Word, NEW p \in Half
  PROVE  /\ Lo(w) \in Half /\ Hi(w) \in Half
         /\ Plus2(p) \in Half /\ Plus4(p) \in Half
         /\ p.word \in Word /\ p.hi \in BOOLEAN
  <1>1. p.word \in Word /\ p.hi \in BOOLEAN
    BY DEF Half
  <1>2. NextWord(p.word) \in Word
    BY <1>1, NextWordType
  <1> QED
    BY <1>1, <1>2 DEF Half, Lo, Hi, Plus2, Plus4

LEMMA HalfCases ==
  ASSUME NEW p \in Half
  PROVE  p = IF p.hi THEN Hi(p.word) ELSE Lo(p.word)
  BY DEF Half, Lo, Hi

LEMMA ZeroWord == 0 \in Word
  BY HalfwordsAssumption DEF Word

-----------------------------------------------------------------------------
(* The wires of a cycle *)

LEMMA InputFacts ==
  ASSUME Inv, NEW c \in AllInputs
  PROVE  c \in InputType /\ Legal(c)
  <1>1. /\ next \in Word /\ pc_q \in Half
        /\ \A w \in Word : Lo(w) \in Half /\ ~Lo(w).hi
    BY HalfTypes DEF Inv, TypeOK, Lo
  <1>2. ASSUME c \in Redirects PROVE c \in InputType /\ Legal(c)
    BY <1>2 DEF Redirects, Inputs, InputType, Legal
  <1>3. ASSUME c \in LoopJumps PROVE c \in InputType /\ Legal(c)
    BY <1>1, <1>3 DEF LoopJumps, Inputs, InputType, Legal
  <1>4. ASSUME c \in Plain PROVE c \in InputType /\ Legal(c)
    BY <1>1, <1>4 DEF Plain, Inputs, InputType, Legal
  <1> QED
    BY <1>2, <1>3, <1>4 DEF AllInputs

LEMMA DefaultType ==
  ASSUME TypeOK, NEW c \in InputType
  PROVE  Default(c) \in OutType
  BY HalfTypes DEF TypeOK, InputType, Default, OutType, States, if_valid

LEMMA DecodeType ==
  ASSUME TypeOK, NEW c \in InputType
  PROVE  Decode(c) \in OutType
  <1> DEFINE d == Default(c)
  <1>1. d \in OutType
    BY DefaultType
  <1>2. /\ Lo(c.rdata) \in Half /\ Hi(c.rdata) \in Half /\ r_instr_h \in Half
        /\ pc_q \in Half /\ Plus2(pc_q) \in Half /\ Plus4(pc_q) \in Half
        /\ LoopOr(c, Plus4(pc_q)) \in Half
        /\ c.fetch_valid \in BOOLEAN /\ if_valid(c) \in BOOLEAN
    BY HalfTypes DEF TypeOK, InputType, LoopOr, if_valid
  <1> HIDE DEF d
  <1>3. Aligned32(c) \in OutType
    BY <1>1, <1>2 DEF Aligned32, OutType, States, d
  <1>4. Misaligned32(c) \in OutType
    BY <1>1, <1>2 DEF Misaligned32, OutType, States, d
  <1>5. Misaligned16(c) \in OutType
    BY <1>1, <1>2 DEF Misaligned16, OutType, States, d
  <1>6. BranchMisaligned(c) \in OutType
    BY <1>1, <1>2 DEF BranchMisaligned, OutType, States, d
  <1> QED
    BY <1>3, <1>4, <1>5, <1>6 DEF Decode, TypeOK

-----------------------------------------------------------------------------
(* What a cycle does *)

PortsType == [turn : BOOLEAN, branch : SUBSET Half, hwlp : SUBSET Half, handed : BOOLEAN]

Seen(branch, hwlp, handed) ==
  ports' = [turn |-> ~ports.turn, branch |-> branch, hwlp |-> hwlp, handed |-> handed]

HwlpPort(c) == IF c.hwlp THEN {c.target} ELSE {}

(* What is seen of a cycle from outside *)
LEMMA PortsStep ==
  ASSUME Inv, NEW c \in AllInputs, Cycle(c)
  PROVE  /\ ports' \in PortsType
         /\ c.branch => Seen({c.target}, {}, FALSE)
         /\ ~c.branch /\ ~if_valid(c) => Seen({}, HwlpPort(c), FALSE)
         /\ ~c.branch /\ if_valid(c) => Seen({}, HwlpPort(c), Decode(c).valid)
  <1>1. c \in InputType /\ Legal(c) /\ Decode(c).valid \in BOOLEAN
    BY InputFacts, DecodeType DEF Inv, OutType
  <1> DEFINE o == Out(c)
             b == IF c.branch THEN {c.target} ELSE {}
             h == HandsOver(c, o)
  <1>2. ports' = [turn |-> ~ports.turn, branch |-> b, hwlp |-> HwlpPort(c), handed |-> h]
    BY DEF Cycle, PortsEdge, HwlpPort
  <1>3. b \subseteq Half /\ HwlpPort(c) \subseteq Half /\ (~ports.turn) \in BOOLEAN
        /\ h \in BOOLEAN
    BY <1>1 DEF InputType, HwlpPort, HandsOver
  <1>4. ports' \in PortsType
    <2> HIDE DEF b, h
    <2> QED
      BY <1>2, <1>3 DEF PortsType
  <1>5. ASSUME c.branch PROVE b = {c.target} /\ HwlpPort(c) = {} /\ h = FALSE
    BY <1>1, <1>5 DEF Legal, HwlpPort, HandsOver, if_valid
  <1>6. ASSUME ~c.branch PROVE b = {}
    BY <1>6
  <1>7. ASSUME ~if_valid(c) PROVE h = FALSE
    BY <1>7 DEF HandsOver
  <1>8. ASSUME ~c.branch, if_valid(c) PROVE h = Decode(c).valid
    BY <1>1, <1>8 DEF HandsOver, Out
  <1> HIDE DEF b, h
  <1> QED
    BY <1>2, <1>4, <1>5, <1>6, <1>7, <1>8 DEF Seen

(* A redirect overrides everything. *)
LEMMA BranchStep ==
  ASSUME Inv, NEW c \in AllInputs, Cycle(c), c.branch
  PROVE  /\ pc_q' = c.target
         /\ state' = IF c.target.hi THEN "BRANCH_MISALIGNED" ELSE "ALIGNED32"
         /\ hwlp_update_pc_q' = FALSE /\ aligner_ready_q' \in BOOLEAN
         /\ r_instr_h' \in Half
         /\ next' = c.target.word /\ loop' = {}
         /\ UNCHANGED <<mem, id, hwlp_addr_q, last>>
  <1> DEFINE d == Decode(c)
  <1>1. c \in InputType /\ Legal(c) /\ d \in OutType
    BY InputFacts, DecodeType DEF Inv
  <1>2. ~if_valid(c) /\ ~c.fetch_valid
    BY <1>1 DEF if_valid, Legal
  <1>3. Out(c) = [d EXCEPT !.update = TRUE, !.pc_n = c.target,
                           !.ns = IF c.target.hi THEN "BRANCH_MISALIGNED" ELSE "ALIGNED32"]
    BY DEF Out
  <1> HIDE DEF d
  <1>4. /\ Out(c).update = TRUE /\ Out(c).pc_n = c.target /\ Out(c).ready \in BOOLEAN
        /\ Out(c).ns = IF c.target.hi THEN "BRANCH_MISALIGNED" ELSE "ALIGNED32"
    BY <1>1, <1>3 DEF OutType
  <1>5. /\ pc_q' = c.target /\ state' = Out(c).ns /\ r_instr_h' = Hi(c.rdata)
        /\ aligner_ready_q' = Out(c).ready /\ hwlp_update_pc_q' = FALSE
        /\ UNCHANGED hwlp_addr_q
    BY <1>4 DEF Cycle, AlignerEdge
  <1>6. Hi(c.rdata) \in Half
    BY <1>1, HalfTypes DEF InputType
  <1>7. next' = c.target.word /\ loop' = {} /\ UNCHANGED last
    BY DEF Cycle, WordEdge, Words!Redirect
  <1>8. UNCHANGED <<mem, id>>
    BY <1>2 DEF Cycle, IdEdge, HandsOver
  <1> QED
    BY <1>4, <1>5, <1>6, <1>7, <1>8

(* Without a word to work on nothing moves, except that a loop jump is     *)
(* remembered, here and in the prefetcher.                                 *)
LEMMA StallStep ==
  ASSUME Inv, NEW c \in AllInputs, Cycle(c), ~c.branch, ~if_valid(c)
  PROVE  /\ UNCHANGED <<mem, pc_q, state, r_instr_h, aligner_ready_q, id, next, last>>
         /\ c.hwlp => /\ hwlp_update_pc_q' = TRUE /\ hwlp_addr_q' = c.target
                      /\ loop = {} /\ loop' = {c.target.word}
         /\ ~c.hwlp => UNCHANGED <<hwlp_update_pc_q, hwlp_addr_q, loop>>
  <1>1. c \in InputType /\ Legal(c)
    BY InputFacts
  <1>2. Default(c) \in OutType /\ Default(c).update = FALSE
    BY <1>1, DefaultType DEF Inv, Default
  <1> DEFINE d == Default(c)
  <1>3. d \in OutType /\ d.update = FALSE
    BY <1>2
  <1> HIDE DEF d
  <1>4. Decode(c).update = FALSE
    <2>1. Aligned32(c).update = FALSE
      BY <1>3 DEF Aligned32, OutType, d
    <2>2. Misaligned32(c).update = FALSE
      BY <1>3 DEF Misaligned32, OutType, d
    <2>3. Misaligned16(c).update = FALSE
      BY <1>3 DEF Misaligned16, OutType, d
    <2>4. BranchMisaligned(c).update = FALSE
      BY <1>3 DEF BranchMisaligned, OutType, d
    <2> QED
      BY <2>1, <2>2, <2>3, <2>4 DEF Decode, Inv, TypeOK
  <1>5. Out(c).update = FALSE
    BY <1>4 DEF Out
  <1>6. /\ UNCHANGED <<pc_q, state, r_instr_h, aligner_ready_q>>
        /\ hwlp_addr_q' = IF c.hwlp THEN c.target ELSE hwlp_addr_q
        /\ hwlp_update_pc_q' = (c.hwlp \/ hwlp_update_pc_q)
    BY <1>5 DEF Cycle, AlignerEdge
  <1>7. UNCHANGED <<mem, id>>
    BY DEF Cycle, IdEdge, HandsOver
  <1>8. ~FetchReady(c, Out(c))
    BY DEF FetchReady
  <1>9. /\ c.hwlp => loop = {} /\ loop' = {c.target.word} /\ UNCHANGED <<next, last>>
        /\ ~c.hwlp => UNCHANGED <<next, loop, last>>
    BY <1>8 DEF Cycle, WordEdge, Words!LoopJump, wordVars
  <1> QED
    BY <1>1, <1>6, <1>7, <1>9 DEF InputType, Inv, TypeOK

(* With a word the aligner takes the outputs of its state. *)
LEMMA TakeStep ==
  ASSUME Inv, NEW c \in AllInputs, Cycle(c), ~c.branch, if_valid(c), Decode(c).update
  PROVE  /\ pc_q' = Decode(c).pc_n /\ state' = Decode(c).ns
         /\ r_instr_h' = Hi(next) /\ aligner_ready_q' = Decode(c).ready
         /\ hwlp_update_pc_q' = FALSE
         /\ UNCHANGED <<mem, hwlp_addr_q>>
         /\ id' = IF Decode(c).valid
                  THEN [pc |-> pc_q,
                        halves |-> Decoded(mem, Decode(c).first, Decode(c).second)]
                  ELSE id
         /\ IF Decode(c).ready
            THEN /\ last' = next
                 /\ c.hwlp => loop = {} /\ next' = c.target.word /\ loop' = {}
                 /\ ~c.hwlp /\ loop = {} => next' = NextWord(next) /\ loop' = {}
                 /\ ~c.hwlp /\ loop # {} => next' \in loop /\ loop' = {}
            ELSE ~c.hwlp => UNCHANGED <<next, loop, last>>
  <1>1. c \in InputType /\ Legal(c)
    BY InputFacts
  <1>2. Out(c) = Decode(c) /\ c.rdata = next
    BY <1>1 DEF Out, Legal
  <1>3. /\ pc_q' = Decode(c).pc_n /\ state' = Decode(c).ns
        /\ r_instr_h' = Hi(next) /\ aligner_ready_q' = Decode(c).ready
        /\ hwlp_update_pc_q' = FALSE /\ UNCHANGED hwlp_addr_q
    BY <1>2 DEF Cycle, AlignerEdge
  <1>4. /\ UNCHANGED mem
        /\ id' = IF Decode(c).valid
                 THEN [pc |-> pc_q,
                       halves |-> Decoded(mem, Decode(c).first, Decode(c).second)]
                 ELSE id
    BY <1>2 DEF Cycle, IdEdge, HandsOver
  <1>5. FetchReady(c, Out(c)) <=> Decode(c).ready
    BY <1>2 DEF FetchReady
  <1>6. ASSUME Decode(c).ready
        PROVE  /\ last' = next
               /\ c.hwlp => loop = {} /\ next' = c.target.word /\ loop' = {}
               /\ ~c.hwlp /\ loop = {} => next' = NextWord(next) /\ loop' = {}
               /\ ~c.hwlp /\ loop # {} => next' \in loop /\ loop' = {}
    BY <1>5, <1>6 DEF Cycle, WordEdge, Words!LoopDeliver, Words!Deliver, NextWord
  <1>7. ASSUME ~Decode(c).ready, ~c.hwlp
        PROVE  UNCHANGED <<next, loop, last>>
    BY <1>5, <1>7 DEF Cycle, WordEdge, wordVars
  <1> QED
    BY <1>3, <1>4, <1>6, <1>7

-----------------------------------------------------------------------------
(* The outputs with a word, state by state *)

LEMMA Aligned32Out ==
  ASSUME Inv, NEW c \in AllInputs, ~c.branch, if_valid(c), state = "ALIGNED32"
  PROVE  /\ Decode(c).valid = TRUE /\ Decode(c).ready = TRUE /\ Decode(c).update = TRUE
         /\ Decode(c).first = Lo(next) /\ Decode(c).second = Hi(next)
         /\ Decode(c).pc_n = IF mem[Lo(next)] THEN LoopOr(c, Plus4(pc_q)) ELSE Plus2(pc_q)
         /\ Decode(c).ns = IF mem[Lo(next)] THEN "ALIGNED32" ELSE "MISALIGNED32"
  <1>1. c \in InputType /\ c.rdata = next /\ Default(c) \in OutType
    BY InputFacts, DefaultType DEF Legal, Inv
  <1>2. /\ Default(c).valid = TRUE /\ Default(c).ready = TRUE /\ Default(c).update = TRUE
        /\ Default(c).first = Lo(next) /\ Default(c).second = Hi(next)
        /\ Default(c).ns = "ALIGNED32"
    BY <1>1 DEF Default, if_valid, InputType
  <1> DEFINE d == Default(c)
  <1>3. Decode(c) = IF mem[Lo(next)] THEN [d EXCEPT !.pc_n = LoopOr(c, Plus4(pc_q))]
                    ELSE [d EXCEPT !.pc_n = Plus2(pc_q), !.ns = "MISALIGNED32"]
    BY <1>1 DEF Decode, Aligned32
  <1>4. /\ d \in OutType
        /\ d.valid = TRUE /\ d.ready = TRUE /\ d.update = TRUE
        /\ d.first = Lo(next) /\ d.second = Hi(next) /\ d.ns = "ALIGNED32"
    BY <1>1, <1>2
  <1> HIDE DEF d
  <1> QED
    BY <1>3, <1>4 DEF OutType

LEMMA Misaligned32Out ==
  ASSUME Inv, NEW c \in AllInputs, ~c.branch, if_valid(c), state = "MISALIGNED32"
  PROVE  /\ Decode(c).valid = TRUE /\ Decode(c).ready = mem[r_instr_h]
         /\ Decode(c).update = TRUE
         /\ Decode(c).first = r_instr_h
         /\ mem[r_instr_h] => Decode(c).second = Lo(next)
         /\ Decode(c).pc_n = IF mem[r_instr_h] THEN Plus4(pc_q) ELSE Plus2(pc_q)
         /\ Decode(c).ns = IF mem[r_instr_h] THEN "MISALIGNED32" ELSE "MISALIGNED16"
  <1>1. c \in InputType /\ c.rdata = next /\ Default(c) \in OutType
    BY InputFacts, DefaultType DEF Legal, Inv
  <1>2. /\ Default(c).valid = TRUE /\ Default(c).ready = TRUE /\ Default(c).update = TRUE
        /\ Default(c).ns = "MISALIGNED32" /\ c.fetch_valid = TRUE
    BY <1>1 DEF Default, if_valid, InputType
  <1> DEFINE d == Default(c)
  <1>3. Decode(c) = IF mem[r_instr_h]
                    THEN [d EXCEPT !.pc_n = Plus4(pc_q), !.first = r_instr_h,
                                   !.second = Lo(next)]
                    ELSE [d EXCEPT !.pc_n = Plus2(pc_q), !.first = r_instr_h,
                                   !.ns = "MISALIGNED16", !.valid = TRUE, !.ready = FALSE]
    BY <1>1, <1>2 DEF Decode, Misaligned32
  <1>4. /\ d \in OutType
        /\ d.valid = TRUE /\ d.ready = TRUE /\ d.update = TRUE /\ d.ns = "MISALIGNED32"
    BY <1>1, <1>2
  <1>5. mem[r_instr_h] \in BOOLEAN
    BY DEF Inv, TypeOK, Image
  <1> HIDE DEF d
  <1> QED
    BY <1>3, <1>4, <1>5 DEF OutType

LEMMA Misaligned16Out ==
  ASSUME Inv, NEW c \in AllInputs, ~c.branch, if_valid(c), state = "MISALIGNED16"
  PROVE  /\ Decode(c).valid = TRUE /\ Decode(c).ready = TRUE /\ Decode(c).update = TRUE
         /\ Decode(c).first = Lo(next) /\ Decode(c).second = Hi(next)
         /\ Decode(c).pc_n = IF mem[Lo(next)] THEN Plus4(pc_q) ELSE Plus2(pc_q)
         /\ Decode(c).ns = IF mem[Lo(next)] THEN "ALIGNED32" ELSE "MISALIGNED32"
  <1>1. c \in InputType /\ c.rdata = next /\ Default(c) \in OutType
    BY InputFacts, DefaultType DEF Legal, Inv
  <1>2. /\ Default(c).ready = TRUE
        /\ Default(c).first = Lo(next) /\ Default(c).second = Hi(next)
        /\ c.fetch_valid
    BY <1>1 DEF Default, if_valid, InputType
  <1> DEFINE d == Default(c)
  <1> DEFINE o == [d EXCEPT !.valid = TRUE, !.update = TRUE]
  <1>3. Decode(c) = IF mem[Lo(next)] THEN [o EXCEPT !.pc_n = Plus4(pc_q), !.ns = "ALIGNED32"]
                    ELSE [o EXCEPT !.pc_n = Plus2(pc_q), !.ns = "MISALIGNED32"]
    <2>1. (~aligner_ready_q \/ c.fetch_valid) = TRUE
      BY <1>2
    <2>2. ((~aligner_ready_q \/ c.fetch_valid) /\ if_valid(c)) = TRUE
      BY <1>2
    <2> QED
      BY <1>1, <2>1, <2>2 DEF Decode, Misaligned16
  <1>4. d \in OutType /\ d.ready = TRUE /\ d.first = Lo(next) /\ d.second = Hi(next)
    BY <1>1, <1>2
  <1> HIDE DEF d
  <1> QED
    BY <1>3, <1>4 DEF OutType

LEMMA BranchMisalignedOut ==
  ASSUME Inv, NEW c \in AllInputs, ~c.branch, if_valid(c), state = "BRANCH_MISALIGNED"
  PROVE  /\ Decode(c).valid = ~mem[Hi(next)] /\ Decode(c).ready = TRUE
         /\ Decode(c).update = TRUE
         /\ Decode(c).first = IF mem[Hi(next)] THEN Lo(next) ELSE Hi(next)
         /\ Decode(c).pc_n = IF mem[Hi(next)] THEN pc_q ELSE Plus2(pc_q)
         /\ Decode(c).ns = IF mem[Hi(next)] THEN "MISALIGNED32" ELSE "ALIGNED32"
  <1>1. c \in InputType /\ c.rdata = next /\ Default(c) \in OutType
    BY InputFacts, DefaultType DEF Legal, Inv
  <1>2. /\ Default(c).valid = TRUE /\ Default(c).ready = TRUE /\ Default(c).update = TRUE
        /\ Default(c).first = Lo(next) /\ Default(c).pc_n = pc_q
    BY <1>1 DEF Default, if_valid, InputType
  <1> DEFINE d == Default(c)
  <1>3. Decode(c) = IF mem[Hi(next)] THEN [d EXCEPT !.valid = FALSE, !.ns = "MISALIGNED32"]
                    ELSE [d EXCEPT !.pc_n = Plus2(pc_q), !.first = Hi(next),
                                   !.ns = "ALIGNED32"]
    BY <1>1 DEF Decode, BranchMisaligned
  <1>4. /\ d \in OutType /\ d.valid = TRUE /\ d.ready = TRUE /\ d.update = TRUE
        /\ d.first = Lo(next) /\ d.pc_n = pc_q
    BY <1>1, <1>2
  <1>5. mem[Hi(next)] \in BOOLEAN
    BY HalfTypes DEF Inv, TypeOK, Image
  <1> HIDE DEF d
  <1> QED
    BY <1>3, <1>4, <1>5 DEF OutType

-----------------------------------------------------------------------------
(* Every step keeps the invariant and is a step of the instruction stream *)

LEMMA Arithmetic ==
  ASSUME NEW w \in Word
  PROVE  /\ Plus2(Lo(w)) = Hi(w) /\ Plus2(Hi(w)) = Lo(NextWord(w))
         /\ Plus4(Lo(w)) = Lo(NextWord(w)) /\ Plus4(Hi(w)) = Hi(NextWord(w))
         /\ Lo(w).word = w /\ Hi(w).word = w /\ ~Lo(w).hi /\ Hi(w).hi
  BY DEF Plus2, Plus4, Lo, Hi

(* The loop of InstrStream and its steps, spelled out *)
LoopBar == IF hwlp_update_pc_q THEN {hwlp_addr_q} ELSE {}

GivesInstr == id' = [pc |-> pc_q, halves |-> InstrAt(mem, pc_q)]

RedirectBar(a) == Seen({a}, {}, FALSE) /\ UNCHANGED id /\ pc_q' = a /\ LoopBar' = {}

LoopJumpBar(a) ==
  LoopBar = {} /\ Seen({}, {a}, FALSE) /\ UNCHANGED <<id, pc_q>> /\ LoopBar' = {a}

LoopDeliverBar(a) ==
  LoopBar = {} /\ Seen({}, {a}, TRUE) /\ GivesInstr /\ pc_q' = a /\ UNCHANGED LoopBar

DeliverBar ==
  /\ Seen({}, {}, TRUE) /\ GivesInstr /\ LoopBar' = {}
  /\ IF LoopBar = {} THEN pc_q' = InstrAfter(mem, pc_q) ELSE pc_q' \in LoopBar

WaitBar == Seen({}, {}, FALSE) /\ UNCHANGED <<id, pc_q, LoopBar>>

Refines ==
  /\ UNCHANGED mem
  /\ \/ \E a \in Half : RedirectBar(a) \/ LoopJumpBar(a) \/ LoopDeliverBar(a)
     \/ DeliverBar
     \/ WaitBar
     \/ UNCHANGED <<id, pc_q, LoopBar, ports>>

streamBar == <<mem, pc_q, LoopBar, id, ports>>

LEMMA RefinesIsStep ==
  Refines => [Instrs!Next]_streamBar
  <1> USE DEF Instrs!Next, Instrs!Cycle, Instrs!HandOver, Seen, GivesInstr, LoopBar,
          InstrAt, InstrAfter, Decoded, Instrs!InstrAt, Instrs!InstrAfter, Instrs!Decoded,
          Half, Word, Instrs!Half, Instrs!Word, Plus2, Plus4, Instrs!Plus2, Instrs!Plus4,
          NextWord, Instrs!NextWord, Lo, Hi, Instrs!Lo, Instrs!Hi
  <1> SUFFICES ASSUME Refines PROVE [Instrs!Next]_streamBar
    OBVIOUS
  <1>1. ASSUME NEW a \in Half, RedirectBar(a) PROVE Instrs!Redirect(a)
    BY <1>1 DEF RedirectBar, Instrs!Redirect
  <1>2. ASSUME NEW a \in Half, LoopJumpBar(a) PROVE Instrs!LoopJump(a)
    BY <1>2 DEF LoopJumpBar, Instrs!LoopJump
  <1>3. ASSUME NEW a \in Half, LoopDeliverBar(a) PROVE Instrs!LoopDeliver(a)
    BY <1>3 DEF LoopDeliverBar, Instrs!LoopDeliver
  <1>4. ASSUME DeliverBar PROVE Instrs!Deliver
    BY <1>4 DEF DeliverBar, Instrs!Deliver
  <1>5. ASSUME WaitBar PROVE Instrs!Wait
    BY <1>5 DEF WaitBar, Instrs!Wait
  <1> QED
    BY <1>1, <1>2, <1>3, <1>4, <1>5 DEF Refines, streamBar

LEMMA BranchKeeps ==
  ASSUME Inv, NEW c \in AllInputs, Cycle(c), c.branch
  PROVE  Inv' /\ Refines
  <1>1. c \in InputType
    BY InputFacts
  <1>2. /\ c.target \in Half /\ c.target.word \in Word /\ c.target.hi \in BOOLEAN
        /\ c.target = IF c.target.hi THEN Hi(c.target.word) ELSE Lo(c.target.word)
    BY <1>1, HalfTypes, HalfCases DEF InputType
  <1>3. TypeOK'
    BY <1>2, BranchStep, PortsStep DEF Inv, TypeOK, PortsType
  <1>4. InStep'
    BY <1>2, BranchStep DEF InStep
  <1>5. Refines
    BY <1>2, BranchStep, PortsStep DEF Refines, RedirectBar, LoopBar
  <1> QED
    BY <1>3, <1>4, <1>5 DEF Inv

LEMMA StallKeeps ==
  ASSUME Inv, NEW c \in AllInputs, Cycle(c), ~c.branch, ~if_valid(c)
  PROVE  Inv' /\ Refines
  <1>1. c \in InputType /\ Legal(c)
    BY InputFacts
  <1>2. ASSUME c.hwlp PROVE Inv' /\ Refines
    <2>1. /\ hwlp_update_pc_q' = TRUE /\ hwlp_addr_q' = c.target
          /\ loop' = {c.target.word}
          /\ UNCHANGED <<mem, pc_q, state, r_instr_h, aligner_ready_q, id, next, last>>
          /\ Seen({}, {c.target}, FALSE) /\ ports' \in PortsType
      BY <1>2, StallStep, PortsStep DEF HwlpPort
    <2>2. /\ state = "ALIGNED32" /\ mem[pc_q] /\ ~hwlp_update_pc_q /\ ~c.target.hi
          /\ c.target \in Half /\ c.target.word \in Word
      BY <1>1, <1>2, HalfTypes DEF Legal, InputType
    <2>3. TypeOK'
      BY <2>1, <2>2 DEF Inv, TypeOK, PortsType
    <2>4. InStep'
      BY <2>1, <2>2 DEF Inv, InStep
    <2>5. Refines
      BY <2>1, <2>2 DEF Refines, LoopJumpBar, LoopBar
    <2> QED
      BY <2>3, <2>4, <2>5 DEF Inv
  <1>3. ASSUME ~c.hwlp PROVE Inv' /\ Refines
    <2>1. UNCHANGED <<mem, alignerVars, id, wordVars>>
      BY <1>3, StallStep DEF alignerVars, wordVars
    <2>2. Seen({}, {}, FALSE) /\ ports' \in PortsType
      BY <1>3, PortsStep DEF HwlpPort
    <2>3. Inv'
      BY <2>1, <2>2 DEF Inv, TypeOK, InStep, PortsType, alignerVars, wordVars
    <2>4. Refines
      BY <2>1, <2>2 DEF Refines, WaitBar, LoopBar, alignerVars
    <2> QED
      BY <2>3, <2>4
  <1> QED
    BY <1>2, <1>3

LEMMA Aligned32Keeps ==
  ASSUME Inv, NEW c \in AllInputs, Cycle(c), ~c.branch, if_valid(c), state = "ALIGNED32"
  PROVE  Inv' /\ Refines
  <1>1. c \in InputType /\ Legal(c)
    BY InputFacts
  <1>2. /\ pc_q = Lo(next) /\ next \in Word /\ NextWord(next) \in Word
        /\ mem \in Image /\ Lo(next) \in Half /\ Hi(next) \in Half
        /\ hwlp_addr_q \in Half /\ hwlp_addr_q.word \in Word
        /\ c.target \in Half /\ c.target.word \in Word
    BY <1>1, NextWordType, HalfTypes DEF Inv, TypeOK, InStep, InputType
  <1>3. /\ r_instr_h' = Hi(next) /\ aligner_ready_q' = TRUE /\ hwlp_update_pc_q' = FALSE
        /\ UNCHANGED <<mem, hwlp_addr_q>>
        /\ id' = [pc |-> pc_q, halves |-> Decoded(mem, Lo(next), Hi(next))]
        /\ last' = next /\ loop' = {}
        /\ pc_q' = IF mem[Lo(next)] THEN LoopOr(c, Plus4(pc_q)) ELSE Plus2(pc_q)
        /\ state' = IF mem[Lo(next)] THEN "ALIGNED32" ELSE "MISALIGNED32"
        /\ Seen({}, HwlpPort(c), TRUE) /\ ports' \in PortsType
    BY Aligned32Out, TakeStep, PortsStep DEF Inv, InStep
  <1>4. GivesInstr
    BY <1>2, <1>3, Arithmetic DEF GivesInstr, InstrAt
  <1>5. LoopBar' = {}
    BY <1>3 DEF LoopBar
  <1>6. ASSUME c.hwlp PROVE Inv' /\ Refines
    <2>1. mem[Lo(next)] /\ ~hwlp_update_pc_q /\ c.target = Lo(c.target.word)
      BY <1>1, <1>2, <1>6, HalfCases DEF Legal
    <2>2. pc_q' = c.target /\ state' = "ALIGNED32" /\ next' = c.target.word
      BY <1>3, <1>6, <2>1, Aligned32Out, TakeStep DEF LoopOr
    <2>3. TypeOK'
      BY <1>2, <1>3, <2>2 DEF Inv, TypeOK, PortsType
    <2>4. InStep'
      BY <1>3, <2>1, <2>2 DEF InStep
    <2>5. Refines
      BY <1>2, <1>3, <1>4, <1>5, <1>6, <2>1, <2>2 DEF Refines, LoopDeliverBar, HwlpPort, LoopBar
    <2> QED
      BY <2>3, <2>4, <2>5 DEF Inv
  <1>7. ASSUME ~c.hwlp, hwlp_update_pc_q PROVE Inv' /\ Refines
    <2>1. /\ mem[Lo(next)] /\ ~hwlp_addr_q.hi /\ loop = {hwlp_addr_q.word}
          /\ hwlp_addr_q = Lo(hwlp_addr_q.word)
      BY <1>2, <1>7, HalfCases DEF Inv, InStep
    <2>2. pc_q' = hwlp_addr_q /\ state' = "ALIGNED32" /\ next' = hwlp_addr_q.word
      BY <1>3, <1>7, <2>1, Aligned32Out, TakeStep DEF LoopOr
    <2>3. TypeOK'
      BY <1>2, <1>3, <2>2 DEF Inv, TypeOK, PortsType
    <2>4. InStep'
      BY <1>3, <2>1, <2>2 DEF InStep
    <2>5. Refines
      BY <1>3, <1>4, <1>5, <1>7, <2>2 DEF Refines, DeliverBar, HwlpPort, LoopBar
    <2> QED
      BY <2>3, <2>4, <2>5 DEF Inv
  <1>8. ASSUME ~c.hwlp, ~hwlp_update_pc_q PROVE Inv' /\ Refines
    <2>1. loop = {}
      BY <1>8 DEF Inv, InStep
    <2>2. next' = NextWord(next)
      BY <1>8, <2>1, Aligned32Out, TakeStep
    <2>3. pc_q' = IF mem[Lo(next)] THEN Lo(NextWord(next)) ELSE Hi(next)
      BY <1>2, <1>3, <1>8, Arithmetic DEF LoopOr
    <2>4. pc_q' = InstrAfter(mem, pc_q)
      BY <1>2, <2>3, Arithmetic DEF InstrAfter
    <2>5. pc_q' \in Half
      BY <1>2, <2>3, HalfTypes
    <2>6. TypeOK'
      BY <1>2, <1>3, <2>2, <2>5 DEF Inv, TypeOK, PortsType
    <2>7. InStep'
      BY <1>2, <1>3, <2>2, <2>3, Arithmetic DEF InStep
    <2>8. Refines
      BY <1>3, <1>4, <1>5, <1>8, <2>4 DEF Refines, DeliverBar, HwlpPort, LoopBar
    <2> QED
      BY <2>6, <2>7, <2>8 DEF Inv
  <1> QED
    BY <1>6, <1>7, <1>8

LEMMA Misaligned32Keeps ==
  ASSUME Inv, NEW c \in AllInputs, Cycle(c), ~c.branch, if_valid(c), state = "MISALIGNED32"
  PROVE  Inv' /\ Refines
  <1>1. c \in InputType /\ Legal(c)
    BY InputFacts
  <1> DEFINE w == pc_q.word
  <1>2. /\ pc_q = Hi(w) /\ w \in Word /\ next = NextWord(w) /\ next \in Word
        /\ r_instr_h = pc_q /\ NextWord(next) \in Word
        /\ Lo(next) \in Half /\ Hi(next) \in Half /\ pc_q \in Half
        /\ ~hwlp_update_pc_q /\ loop = {} /\ ~c.hwlp
    BY <1>1, NextWordType, HalfTypes, HalfCases DEF Inv, TypeOK, InStep, Legal
  <1> HIDE DEF w
  <1>3. /\ r_instr_h' = Hi(next) /\ aligner_ready_q' = mem[pc_q]
        /\ hwlp_update_pc_q' = FALSE /\ UNCHANGED <<mem, hwlp_addr_q>>
        /\ pc_q' = IF mem[pc_q] THEN Plus4(pc_q) ELSE Plus2(pc_q)
        /\ state' = IF mem[pc_q] THEN "MISALIGNED32" ELSE "MISALIGNED16"
    BY <1>2, Misaligned32Out, TakeStep
  <1>3a. Seen({}, {}, TRUE) /\ ports' \in PortsType
    BY <1>2, Misaligned32Out, PortsStep DEF HwlpPort
  <1>4. mem \in Image /\ mem[pc_q] \in BOOLEAN
    BY <1>2 DEF Inv, TypeOK, Image
  <1>5. GivesInstr
    <2>1. id' = [pc |-> pc_q, halves |-> Decoded(mem, pc_q, Decode(c).second)]
      BY <1>2, Misaligned32Out, TakeStep
    <2>2. Decoded(mem, pc_q, Decode(c).second) = InstrAt(mem, pc_q)
      BY <1>2, Misaligned32Out, Arithmetic DEF InstrAt, Decoded
    <2> QED
      BY <2>1, <2>2 DEF GivesInstr
  <1>6. LoopBar = {} /\ LoopBar' = {}
    BY <1>2, <1>3 DEF LoopBar
  <1>7. pc_q' = InstrAfter(mem, pc_q)
    BY <1>3 DEF InstrAfter
  <1>8. Refines
    BY <1>3, <1>5, <1>6, <1>7, <1>3a DEF Refines, DeliverBar
  <1>9. ASSUME mem[pc_q] PROVE Inv'
    <2>1. next' = NextWord(next) /\ loop' = {} /\ last' = next
      BY <1>2, <1>9, Misaligned32Out, TakeStep
    <2>2. pc_q' = Hi(next) /\ state' = "MISALIGNED32"
      BY <1>2, <1>3, <1>9, Arithmetic
    <2> QED
      BY <1>2, <1>3, <1>4, <2>1, <2>2, <1>3a, Arithmetic DEF Inv, TypeOK, InStep, PortsType
  <1>10. ASSUME ~mem[pc_q] PROVE Inv'
    <2>1. UNCHANGED <<next, loop, last>>
      BY <1>2, <1>10, Misaligned32Out, TakeStep
    <2>2. pc_q' = Lo(next) /\ state' = "MISALIGNED16" /\ aligner_ready_q' = FALSE
      BY <1>2, <1>3, <1>4, <1>10, Arithmetic
    <2> QED
      BY <1>2, <1>3, <1>4, <2>1, <2>2, <1>3a DEF Inv, TypeOK, InStep, PortsType
  <1> QED
    BY <1>8, <1>9, <1>10

LEMMA Misaligned16Keeps ==
  ASSUME Inv, NEW c \in AllInputs, Cycle(c), ~c.branch, if_valid(c), state = "MISALIGNED16"
  PROVE  Inv' /\ Refines
  <1>1. c \in InputType /\ Legal(c)
    BY InputFacts
  <1>2. /\ pc_q = Lo(next) /\ next \in Word /\ NextWord(next) \in Word
        /\ mem \in Image /\ Lo(next) \in Half /\ Hi(next) \in Half
        /\ ~hwlp_update_pc_q /\ loop = {} /\ ~c.hwlp
    BY <1>1, NextWordType, HalfTypes DEF Inv, TypeOK, InStep, Legal
  <1>3. /\ r_instr_h' = Hi(next) /\ aligner_ready_q' = TRUE
        /\ hwlp_update_pc_q' = FALSE /\ UNCHANGED <<mem, hwlp_addr_q>>
        /\ id' = [pc |-> pc_q, halves |-> Decoded(mem, Lo(next), Hi(next))]
        /\ next' = NextWord(next) /\ loop' = {} /\ last' = next
        /\ pc_q' = IF mem[Lo(next)] THEN Plus4(pc_q) ELSE Plus2(pc_q)
        /\ state' = IF mem[Lo(next)] THEN "ALIGNED32" ELSE "MISALIGNED32"
    BY <1>2, Misaligned16Out, TakeStep
  <1>3a. Seen({}, {}, TRUE) /\ ports' \in PortsType
    BY <1>2, Misaligned16Out, PortsStep DEF HwlpPort
  <1>4. GivesInstr /\ LoopBar = {} /\ LoopBar' = {} /\ pc_q' = InstrAfter(mem, pc_q)
    BY <1>2, <1>3, Arithmetic DEF GivesInstr, InstrAt, LoopBar, InstrAfter
  <1>5. Refines
    BY <1>3, <1>4, <1>3a DEF Refines, DeliverBar
  <1>6. pc_q' = IF mem[Lo(next)] THEN Lo(NextWord(next)) ELSE Hi(next)
    BY <1>2, <1>3, Arithmetic
  <1>7. pc_q' \in Half
    BY <1>2, <1>6, HalfTypes
  <1>8. TypeOK'
    BY <1>2, <1>3, <1>7, <1>3a DEF Inv, TypeOK, PortsType
  <1>9. InStep'
    BY <1>2, <1>3, <1>6, Arithmetic DEF InStep
  <1> QED
    BY <1>5, <1>8, <1>9 DEF Inv

LEMMA BranchMisalignedKeeps ==
  ASSUME Inv, NEW c \in AllInputs, Cycle(c), ~c.branch, if_valid(c),
         state = "BRANCH_MISALIGNED"
  PROVE  Inv' /\ Refines
  <1>1. c \in InputType /\ Legal(c)
    BY InputFacts
  <1>2. /\ pc_q = Hi(next) /\ next \in Word /\ NextWord(next) \in Word
        /\ mem \in Image /\ Lo(next) \in Half /\ Hi(next) \in Half
        /\ Lo(NextWord(next)) \in Half
        /\ ~hwlp_update_pc_q /\ loop = {} /\ ~c.hwlp
    BY <1>1, NextWordType, HalfTypes DEF Inv, TypeOK, InStep, Legal
  <1>3. /\ r_instr_h' = Hi(next) /\ aligner_ready_q' = TRUE
        /\ hwlp_update_pc_q' = FALSE /\ UNCHANGED <<mem, hwlp_addr_q>>
        /\ next' = NextWord(next) /\ loop' = {} /\ last' = next
        /\ pc_q' = IF mem[pc_q] THEN pc_q ELSE Plus2(pc_q)
        /\ state' = IF mem[pc_q] THEN "MISALIGNED32" ELSE "ALIGNED32"
    BY <1>2, BranchMisalignedOut, TakeStep
  <1>4. LoopBar = {} /\ LoopBar' = {}
    BY <1>2, <1>3 DEF LoopBar
  <1>4a. Seen({}, {}, ~mem[pc_q]) /\ ports' \in PortsType
    BY <1>2, BranchMisalignedOut, PortsStep DEF HwlpPort
  <1>5. ASSUME mem[pc_q] PROVE Inv' /\ Refines
    <2>1. pc_q' = pc_q /\ state' = "MISALIGNED32" /\ id' = id
      BY <1>2, <1>3, <1>5, BranchMisalignedOut, TakeStep
    <2>2. Refines
      BY <1>3, <1>4, <1>5, <1>4a, <2>1 DEF Refines, WaitBar, Seen
    <2> QED
      BY <1>2, <1>3, <1>4a, <2>1, <2>2, Arithmetic DEF Inv, TypeOK, InStep, PortsType
  <1>6. ASSUME ~mem[pc_q] PROVE Inv' /\ Refines
    <2>1. pc_q' = Lo(NextWord(next)) /\ state' = "ALIGNED32"
      BY <1>2, <1>3, <1>6, Arithmetic
    <2>2. GivesInstr /\ pc_q' = InstrAfter(mem, pc_q)
      BY <1>2, <1>3, <1>6, BranchMisalignedOut, TakeStep
      DEF GivesInstr, InstrAt, InstrAfter, Decoded
    <2>3. Refines
      BY <1>3, <1>4, <1>6, <1>4a, <2>2 DEF Refines, DeliverBar, Seen
    <2> QED
      BY <1>2, <1>3, <1>4a, <2>1, <2>3 DEF Inv, TypeOK, InStep, PortsType
  <1> QED
    BY <1>5, <1>6

LEMMA StepKeeps ==
  ASSUME Inv, [Next]_vars
  PROVE  Inv' /\ Refines
  <1>1. ASSUME UNCHANGED vars PROVE Inv' /\ Refines
    BY <1>1 DEF vars, alignerVars, wordVars, Inv, TypeOK, InStep, Refines, LoopBar
  <1>2. ASSUME NEW c \in AllInputs, Cycle(c) PROVE Inv' /\ Refines
    <2>1. ASSUME c.branch PROVE Inv' /\ Refines
      BY <1>2, <2>1, BranchKeeps
    <2>2. ASSUME ~c.branch, ~if_valid(c) PROVE Inv' /\ Refines
      BY <1>2, <2>2, StallKeeps
    <2>3. ASSUME ~c.branch, if_valid(c) PROVE Inv' /\ Refines
      BY <1>2, <2>3, Aligned32Keeps, Misaligned32Keeps, Misaligned16Keeps,
         BranchMisalignedKeeps DEF Inv, TypeOK
    <2> QED
      BY <2>1, <2>2, <2>3
  <1> QED
    BY <1>1, <1>2 DEF Next, Branch, LoopJump, Fetch, AllInputs

LEMMA InitInv == Init => Inv
  <1> SUFFICES ASSUME Init PROVE Inv
    OBVIOUS
  <1>1. 0 \in Word /\ Lo(0) \in Half
    BY ZeroWord DEF Half, Lo
  <1>2. next = 0 /\ loop = {} /\ last = 0
    BY DEF Init, Words!Init
  <1>3. TypeOK
    BY <1>1, <1>2 DEF Init, TypeOK
  <1>4. InStep
    BY <1>2 DEF Init, InStep
  <1> QED
    BY <1>3, <1>4 DEF Inv

-----------------------------------------------------------------------------
(* Every register of the aligner keeps its type. *)
THEOREM TypeCorrect == Spec => []TypeOK
  <1>1. Init => Inv
    BY InitInv
  <1>2. Inv /\ [Next]_vars => Inv'
    BY StepKeeps
  <1>3. Inv => TypeOK
    BY DEF Inv
  <1> QED
    BY <1>1, <1>2, <1>3, PTL DEF Spec

(* The aligner, its program counter and the prefetcher never get out of    *)
(* step, for every program and every order of words, stalls, redirects and *)
(* loop jumps.                                                             *)
THEOREM InStepCorrect == Spec => []InStep
  <1>1. Init => Inv
    BY InitInv
  <1>2. Inv /\ [Next]_vars => Inv'
    BY StepKeeps
  <1>3. Inv => InStep
    BY DEF Inv
  <1> QED
    BY <1>1, <1>2, <1>3, PTL DEF Spec

(* The decode stage gets the instructions of every program once and in     *)
(* order, each put together from its own halves and with its own address;  *)
(* the order is left only with a redirect or a loop jump of that cycle or  *)
(* a loop jump still pending, for the target that came with it.            *)
THEOREM InstrStreamCorrect == Spec => InstrStreamSpec
  <1>1. Init => Inv
    BY InitInv
  <1>2. Inv /\ [Next]_vars => Inv'
    BY StepKeeps
  <1>3. Init => Instrs!Init
    BY DEF Init, Instrs!Init, Image, Instrs!Image, Half, Instrs!Half, Word, Instrs!Word,
           Lo, Instrs!Lo
  <1>4. Inv /\ [Next]_vars => [Instrs!Next]_streamBar
    BY StepKeeps, RefinesIsStep
  <1>5. Instrs!Spec <=> Instrs!Init /\ [][Instrs!Next]_streamBar
    BY DEF Instrs!Spec, Instrs!streamVars, streamBar, LoopBar
  <1> QED
    BY <1>1, <1>2, <1>3, <1>4, <1>5, PTL DEF Spec, InstrStreamSpec
=============================================================================
