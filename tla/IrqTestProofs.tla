---------------------------- MODULE IrqTestProofs ----------------------------
(***************************************************************************)
(* The interrupt test program never fails: NoError and ServedOnce of       *)
(* IrqTest, for every set of bits, every pending word and mask, any number *)
(* of random words and every delay of program, generator and core.         *)
(***************************************************************************)
EXTENDS IrqTest, TLAPS

-----------------------------------------------------------------------------
(* Where the program is                                                    *)

Handling == {"h_id", "h_mip", "h_clear", "h_write", "h_served", "h_std", "h_std_w",
             "h_rnd", "h_rnd_w", "h_csrr", "h_and", "h_csrw", "h_mret"}

Enabling  == {"en_csrr", "en_or", "en_csrw"}
Disabling == {"dis_csrr", "dis_and", "dis_csrw"}

(* Where main is, in a handler too. *)
Main == IF pc \in Handling THEN mepc ELSE pc

(* Tests 2 and 3 serve one interrupt after the other ...                   *)
Serving == Main \in {"sample", "wait", "check"} \/ (Main \in Enabling /\ ret = "wait")

(* ... and the one whose turn it is has been.                              *)
Served ==
  \/ pc \in {"h_csrr", "h_and", "h_csrw", "check"}
  \/ pc = "h_mret" /\ Serving
  \/ pc = "wait" /\ g.irq_pending32_std # g.prev_irq_pending32_std

Calling(back) == Main \in Disabling /\ ret = back

(* Test 5 runs with interrupts at random, from when they are enabled until *)
(* they are disabled.                                                      *)
Interrupted5 == Main = "mat" \/ Calling("t5_print")

InTest5 == Interrupted5 \/ (Main \in Enabling /\ ret = "mat")

(* Stages of the exchange with the generator.                              *)
Stage ==
  CASE pc \in {"t1_mask", "t1_mie", "t1_mode"}                -> "reset"
    [] pc = "dis_csrr" /\ ret = "t2_mask"                     -> "starting"
    [] pc \in {"h_id", "h_clear", "h_write"} /\ mepc = "wait" -> "taken"
    [] pc = "h_csrr"                                          -> "written"
    [] pc = "h_and"                                           -> "sampled"
    [] pc = "h_csrw"                                          -> "lines"
    [] pc = "t5_served"                                       -> "random"
    [] pc = "en_csrr" /\ ret = "mat"                          -> "random_mode"
    [] pc = "en_or" /\ ret = "mat"                            -> "random_lines"
    [] \/ pc = "mat" \/ (pc = "en_csrw" /\ ret = "mat")
       \/ pc \in Disabling /\ ret = "t5_print"                -> "running"
    [] /\ pc \in {"h_id", "h_mip", "h_clear", "h_write", "h_served"}
       /\ mepc # "wait"                                       -> "word"
    [] pc \in {"h_std", "h_std_w"}                            -> "counted"
    [] pc = "h_rnd"                                           -> "stopping"
    [] pc = "h_rnd_w"                                         -> "stopped"
    [] pc = "h_mret" /\ mepc # "wait"                         -> "again"
    [] pc \in {"t5_print", "t5_check", "end"}                 -> "done"
    [] OTHER                                                  -> "sd"

-----------------------------------------------------------------------------
(* The invariant of the program                                            *)

Globals ==
  [irq_id : Nat, irq_pending32_std : SUBSET Bits, prev_irq_pending32_std : SUBSET Bits,
   first_irq_pending32_std : SUBSET Bits, irq_to_test32_std : SUBSET Bits,
   ie_mask32_std : SUBSET Bits, mmstatus : [MIE : BOOLEAN, MPIE : BOOLEAN],
   irq_mode : Nat, irq_served : Nat, mat : Nat, code : Nat]

Words == SUBSET Implemented

TypeInv ==
  /\ i \in 1 .. IRQ_NUM /\ handler \in Nat
  /\ g \in Globals
  /\ csr \in [MIE : BOOLEAN, MPIE : BOOLEAN, mie : Words]
  /\ reg \in [mode : Nat, lines : SUBSET Bits]
  /\ irq_q \in Words /\ irq_lines_q \in Words /\ irq_sd_lines \in Words /\ irq_rnd_lines \in Words
  /\ words \in Nat

Statements ==
  {"t1_mask", "t1_mie", "t1_mode", "t2_mask", "t2_mie", "t2_pending", "t2_write",
   "sample", "wait", "check", "t3_reset", "t3_mask", "t3_mie", "t3_pending", "t3_first",
   "t3_test", "t3_write", "t3_final", "t5_mask", "t5_mie", "t5_mode", "t5_mode_w",
   "t5_served", "mat", "t5_print", "t5_check", "end"} \cup Enabling \cup Disabling

(* Where calls and interrupts return to. *)
LabelInv ==
  /\ pc \in Statements \cup Handling
  /\ Main \in Enabling => ret \in {"wait", "mat"}
  /\ Main \in Disabling => ret \in {"t2_mask", "t2_write", "t3_write", "t5_mask", "t5_print"}
  /\ pc \in Handling => mepc = "wait" \/ Interrupted5
  /\ pc \in {"h_csrr", "h_and", "h_csrw"} => mepc = "wait"
  /\ pc \in {"h_mip", "h_served", "h_std", "h_std_w", "h_rnd", "h_rnd_w"} => Interrupted5

(* Interrupts are enabled only while main waits, and in test 5.            *)
EnableInv ==
  /\ csr.MIE => \/ pc = "wait" /\ ~Served
                \/ pc \notin Handling /\ Interrupted5
  /\ Main = "dis_csrw" => ~g.mmstatus.MIE
  /\ pc = "h_and" => ~g.mmstatus.MIE
  /\ pc = "h_csrw" => ~g.mmstatus.MIE /\ ~g.mmstatus.MPIE
  /\ pc = "h_mret" /\ Serving => ~csr.MPIE

(* The mode that software has told the generator.                          *)
ModeInv ==
  /\ reg.mode =
       IF pc \in {"t1_mask", "t1_mie", "t1_mode"} THEN 0
       ELSE IF pc \in {"h_rnd", "h_rnd_w"} THEN STANDARD
       ELSE IF InTest5 \/ pc \in {"t5_served", "t5_print", "t5_check"} THEN RANDOM
       ELSE IF pc = "end" THEN reg.mode ELSE SOFTWARE_DEFINED
  /\ g.irq_mode =
       IF pc \in {"h_std_w", "h_rnd"} THEN STANDARD
       ELSE IF InTest5 \/ pc \in {"t5_mode_w", "t5_served", "t5_print", "t5_check"} THEN RANDOM
       ELSE IF pc = "end" THEN g.irq_mode ELSE 0
  /\ Stage \in {"reset", "starting", "sd", "taken", "written", "sampled", "lines", "random"} =>
       g.irq_served = 0

Todo(t, j) == {IRQ_ID_PRIORITY[k] : k \in NextIrq(t, j, g.irq_to_test32_std)}

(* The lines that are raised and enabled are those still to be served, and *)
(* main sees by the pending word that one has been.                        *)
ServeInv ==
  Serving =>
    /\ test \in {2, 3} /\ i \in NextIrq(test, i, g.irq_to_test32_std)
    /\ reg.lines \cap csr.mie = Todo(test, IF Served THEN i + 1 ELSE i)
    /\ g.irq_pending32_std = IF pc = "h_write" THEN reg.lines \ {g.irq_id} ELSE reg.lines
    /\ ~Served /\ pc # "sample" => g.prev_irq_pending32_std = reg.lines
    /\ pc \in {"h_id", "h_clear", "h_write"} => handler = IRQ_ID_PRIORITY[i]
    /\ pc \in {"h_clear", "h_write"} => g.irq_id = handler
    /\ Served => /\ g.irq_id = IRQ_ID_PRIORITY[i]
                 /\ g.irq_id \in g.prev_irq_pending32_std \ reg.lines

InTest2 == pc \in {"t2_pending", "t2_write"} \/ Calling("t2_write") \/ (Serving /\ test = 2)
InTest3 == pc \in {"t3_write"} \/ Calling("t3_write") \/ (Serving /\ test = 3)

(* What is pending and enabled before and after the lines are served.      *)
Test2Inv ==
  /\ InTest2 => csr.mie = Implemented
  /\ pc = "t2_mie" => g.ie_mask32_std = Bits
  /\ pc = "t2_write" \/ Calling("t2_write") => g.irq_pending32_std = Bits

Test3Inv ==
  /\ pc = "t3_mie" => g.ie_mask32_std \in Words
  /\ pc \in {"t3_pending", "t3_first", "t3_test", "t3_final"} \/ InTest3 =>
       csr.mie = g.ie_mask32_std
  /\ pc = "t3_first" => g.irq_pending32_std \in Words
  /\ pc \in {"t3_test", "t3_write"} \/ Calling("t3_write") =>
       g.irq_pending32_std = g.first_irq_pending32_std /\ g.first_irq_pending32_std \in Words
  /\ InTest3 => g.irq_to_test32_std = g.first_irq_pending32_std \cap g.ie_mask32_std
  /\ Serving /\ test = 3 =>
       reg.lines \ g.ie_mask32_std = g.first_irq_pending32_std \ g.ie_mask32_std
  /\ pc = "t3_final" => g.irq_pending32_std = g.first_irq_pending32_std \ g.ie_mask32_std
  /\ pc \in {"t1_mask", "t1_mie", "t1_mode", "t2_mask", "t2_mie", "t2_pending", "t2_write",
             "t3_reset", "t3_mask", "t3_mie", "t3_pending", "t3_first", "t3_test"}
     \/ Calling("t2_mask") \/ Calling("t2_write") \/ (Serving /\ test = 2) =>
       g.irq_to_test32_std = {}

QuietInv ==
  pc \in {"t1_mask", "t1_mie", "t1_mode", "t2_mask", "t2_mie", "t2_pending", "t2_write",
          "t3_reset", "t3_mask", "t3_mie", "t3_pending", "t3_first", "t3_test", "t3_write"}
  \/ Calling("t2_mask") \/ Calling("t2_write") \/ Calling("t3_write") =>
    reg.lines \cap Implemented = {}

Test5Inv ==
  Calling("t5_print") \/ pc \in {"t5_print", "t5_check"} => g.mat = MatSteps

ProgramInv ==
  /\ LabelInv /\ EnableInv /\ ModeInv /\ ServeInv /\ Test2Inv /\ Test3Inv /\ QuietInv
  /\ Test5Inv /\ NoError

-----------------------------------------------------------------------------
(* The invariant of the generator                                          *)

Lines == reg.lines \cap Implemented

(* A word on its way to the core: it has come from one register before it  *)
(* is in the next.                                                         *)
Rising ==
  /\ irq_sd_lines \in {{}, Lines} /\ irq_lines_q \in {{}, Lines} /\ irq_q \in {{}, Lines}
  /\ irq_q # {} => irq_lines_q = Lines
  /\ irq_lines_q # {} => irq_sd_lines = Lines
  /\ sd # "sample" => irq_sd_lines = {}

(* The process has seen the word. *)
Sampled == irq_sd_lines = Lines /\ (sd # "sample" => irq_sd_lines = {})

NoWord == rnd = "idle" /\ irq_rnd_lines = {} /\ words = g.irq_served

(* The word that is driven has not been counted, all others have.          *)
WordInv ==
  /\ rnd \in {"idle", "count", "drive"}
  /\ IF rnd = "drive" THEN words = g.irq_served + 1
                      ELSE words = g.irq_served /\ irq_rnd_lines = {}

LinesOfWord == irq_lines_q # {} => rnd = "drive"
IrqOfWord   == irq_q # {} => rnd = "drive"

GeneratorInv ==
  CASE Stage = "reset"    -> irq_mode_q = 0 /\ sd = "wait" /\ Rising /\ NoWord
    [] Stage = "starting" -> /\ irq_mode_q \in {0, SOFTWARE_DEFINED} /\ Rising /\ NoWord
                             /\ irq_mode_q = SOFTWARE_DEFINED => sd \in {"edge", "sample"}
                             /\ irq_mode_q = 0 => sd = "wait"
    [] Stage \in {"sd", "taken", "written", "sampled", "lines"} ->
         /\ irq_mode_q = SOFTWARE_DEFINED /\ sd \in {"edge", "sample"} /\ NoWord
         /\ Stage \in {"sd", "taken"} => Rising
         /\ Stage = "taken"   => irq_q # {}
         /\ Stage = "written" => sd = "sample" \/ Sampled
         /\ Stage = "sampled" => Sampled
         /\ Stage = "lines"   => Sampled /\ irq_lines_q = Lines
    [] Stage \in {"random", "random_mode", "random_lines", "running"} ->
         /\ WordInv
         /\ IF Stage = "random" THEN irq_mode_q \in {SOFTWARE_DEFINED, RANDOM}
                                ELSE irq_mode_q = RANDOM
         /\ Stage \in {"random_lines", "running"} => LinesOfWord
         /\ Stage = "running" => IrqOfWord
    [] Stage = "word"     -> irq_mode_q = RANDOM /\ rnd = "drive" /\ words = g.irq_served + 1
    [] Stage = "counted"  -> irq_mode_q = RANDOM /\ rnd = "drive" /\ words = g.irq_served
    [] Stage = "stopping" -> /\ words = g.irq_served
                             /\ \/ irq_mode_q = RANDOM /\ rnd = "drive"
                                \/ irq_mode_q = STANDARD /\ rnd = "idle" /\ irq_rnd_lines = {}
    [] Stage = "stopped"  -> irq_mode_q = STANDARD /\ NoWord
    [] Stage = "again"    -> \/ irq_mode_q = STANDARD /\ NoWord /\ irq_lines_q = {}
                             \/ irq_mode_q = RANDOM /\ WordInv /\ LinesOfWord /\ IrqOfWord
    [] OTHER              -> TRUE

IrqTestInv == TypeInv /\ ProgramInv /\ GeneratorInv

-----------------------------------------------------------------------------
(* Priorities                                                              *)

LEMMA Priorities ==
  /\ IRQ_NUM = 19
  /\ \A k \in 1 .. 16 : IRQ_ID_PRIORITY[k] = 32 - k
  /\ IRQ_ID_PRIORITY[17] = 11 /\ IRQ_ID_PRIORITY[18] = 3 /\ IRQ_ID_PRIORITY[19] = 7
  <1>1. IRQ_NUM = 19
    BY DEF IRQ_NUM, IRQ_ID_PRIORITY
  <1>2. \A k \in 1 .. 16 : IRQ_ID_PRIORITY[k] = 32 - k
    <2> SUFFICES ASSUME NEW k \in 1 .. 16 PROVE IRQ_ID_PRIORITY[k] = 32 - k
      OBVIOUS
    <2>1. k \in {1, 2, 3, 4, 5, 6, 7, 8, 9, 10, 11, 12, 13, 14, 15, 16}
      OBVIOUS
    <2> QED BY <2>1 DEF IRQ_ID_PRIORITY
  <1>3. IRQ_ID_PRIORITY[17] = 11 /\ IRQ_ID_PRIORITY[18] = 3 /\ IRQ_ID_PRIORITY[19] = 7
    BY DEF IRQ_ID_PRIORITY
  <1> QED BY <1>1, <1>2, <1>3

(* Every line has its place in the sequence, and one only.                 *)
LEMMA Places ==
  /\ \A b \in Implemented : \E k \in 1 .. IRQ_NUM : IRQ_ID_PRIORITY[k] = b
  /\ \A k \in 1 .. IRQ_NUM : IRQ_ID_PRIORITY[k] \in Nat
  /\ \A j, k \in 1 .. IRQ_NUM : IRQ_ID_PRIORITY[j] = IRQ_ID_PRIORITY[k] => j = k
  <1>1. ASSUME NEW b \in Implemented PROVE \E k \in 1 .. 19 : IRQ_ID_PRIORITY[k] = b
    <2>1. CASE b \in 16 .. 31
      <3>1. 32 - b \in 1 .. 16 /\ 32 - b \in 1 .. 19 /\ 32 - (32 - b) = b
        BY <2>1
      <3> QED BY <3>1, Priorities
    <2>2. CASE b \in {3, 7, 11}
      BY <2>2, Priorities
    <2> QED BY <2>1, <2>2 DEF Implemented
  <1>2. \A k \in 1 .. 19 : k \in 1 .. 16 \/ k = 17 \/ k = 18 \/ k = 19
    OBVIOUS
  <1>3. \A k \in 1 .. 19 : IRQ_ID_PRIORITY[k] \in Nat
    BY <1>2, Priorities
  <1>4. \A j, k \in 1 .. 19 : IRQ_ID_PRIORITY[j] = IRQ_ID_PRIORITY[k] => j = k
    BY <1>2, Priorities
  <1> QED BY <1>1, <1>3, <1>4, Priorities

(* The core serves the lines in the order of the sequence.                 *)
LEMMA HighestFirst ==
  ASSUME NEW w \in Words, NEW k \in 1 .. IRQ_NUM, IRQ_ID_PRIORITY[k] \in w,
         \A j \in 1 .. IRQ_NUM : IRQ_ID_PRIORITY[j] \in w => k <= j
  PROVE  irq_id(w) = IRQ_ID_PRIORITY[k]
  <1>1. \A j \in 1 .. 19 : j \in 1 .. 16 \/ j = 17 \/ j = 18 \/ j = 19
    OBVIOUS
  <1>2. \A b \in w : \E j \in 1 .. 19 : IRQ_ID_PRIORITY[j] = b /\ k <= j
    BY Places, Priorities DEF Words
  <1>3. k \in 1 .. 19
    BY Priorities
  <1>4. CASE k \in 1 .. 16
    <2>1. w \cap 16 .. 31 # {}
      <3>1. 32 - k \in 16 .. 31
        BY <1>4
      <3> QED BY <1>4, <3>1, Priorities
    <2>2. irq_id(w) = CHOOSE x \in w : \A y \in w : x >= y
      BY <2>1 DEF irq_id, Max
    <2>3. \A y \in w : IRQ_ID_PRIORITY[k] >= y /\ y \in Nat
      BY <1>1, <1>2, <1>4, Priorities
    <2>4. \A x \in w : (\A y \in w : x >= y) => x = IRQ_ID_PRIORITY[k]
      BY <2>3, Places
    <2> QED BY <2>2, <2>3, <2>4
  <1>5. CASE k \in {17, 18, 19}
    <2>1. \A b \in w : b \in {11, 3, 7}
      BY <1>1, <1>2, <1>5, Priorities
    <2>2. w \cap 16 .. 31 = {}
      BY <2>1
    <2>3. irq_id(w) = CHOOSE id \in {11, 3, 7} :
                        /\ id \in w
                        /\ (11 \in w => id = 11) /\ (3 \in w => id # 7)
      BY <2>2 DEF irq_id
    <2>4. /\ k = 17 => 11 \in w
          /\ k = 18 => 11 \notin w /\ 3 \in w
          /\ k = 19 => 11 \notin w /\ 3 \notin w /\ 7 \in w
      BY Priorities
    <2>5. \A id \in {11, 3, 7} :
            id \in w /\ (11 \in w => id = 11) /\ (3 \in w => id # 7)
              <=> id = IRQ_ID_PRIORITY[k]
      BY <1>5, <2>4, Priorities
    <2>6. IRQ_ID_PRIORITY[k] \in {11, 3, 7}
      BY <1>5, Priorities
    <2> QED BY <2>3, <2>5, <2>6
  <1> QED BY <1>1, <1>3, <1>4, <1>5

(* Min, for sets of places.                                                *)
LEMMA FirstPlace ==
  ASSUME NEW S \in SUBSET (1 .. IRQ_NUM), S # {}
  PROVE  Min(S) \in S /\ \A k \in S : Min(S) <= k
  <1> DEFINE Before(n) == \A k \in S : k > n
  <1>1. \E x \in S : \A y \in S : x <= y
    <2>1. SUFFICES ASSUME \A x \in S : ~ \A y \in S : x <= y PROVE FALSE
      OBVIOUS
    <2>2. \A n \in 0 .. 18 : Before(n) => Before(n + 1)
      <3> SUFFICES ASSUME NEW n \in 0 .. 18, Before(n) PROVE Before(n + 1)
        OBVIOUS
      <3>1. n + 1 \notin S
        BY <2>1
      <3> QED BY <3>1
    <2>3. Before(0)
      OBVIOUS
    <2> HIDE DEF Before
    <2>4. Before(1) /\ Before(2) /\ Before(3) /\ Before(4) /\ Before(5)
      BY <2>2, <2>3
    <2>5. Before(6) /\ Before(7) /\ Before(8) /\ Before(9) /\ Before(10)
      BY <2>2, <2>4
    <2>6. Before(11) /\ Before(12) /\ Before(13) /\ Before(14) /\ Before(15)
      BY <2>2, <2>5
    <2>7. Before(16) /\ Before(17) /\ Before(18) /\ Before(19)
      BY <2>2, <2>6
    <2>8. \A k \in S : k > 19
      BY <2>7 DEF Before
    <2>9. \A k \in S : k \in 1 .. 19
      BY Priorities
    <2>10. \A k \in S : FALSE
      BY <2>8, <2>9
    <2> QED BY <2>10
  <1> QED BY <1>1 DEF Min

(* The interrupts to be served from place k on, where k is one of them.    *)
LEMMA NextPlaces ==
  ASSUME NEW t, NEW T, NEW j \in 1 .. IRQ_NUM + 1
  PROVE  /\ NextIrq(t, j, T) \in SUBSET (1 .. IRQ_NUM)
         /\ NextIrq(t, j, T) # {} =>
              LET k == Min(NextIrq(t, j, T))
              IN  /\ k \in 1 .. IRQ_NUM /\ k \in NextIrq(t, k, T)
                  /\ NextIrq(t, k, T) = NextIrq(t, j, T)
         /\ j \in NextIrq(t, j, T) =>
              {IRQ_ID_PRIORITY[k] : k \in NextIrq(t, j + 1, T)}
                = {IRQ_ID_PRIORITY[k] : k \in NextIrq(t, j, T)} \ {IRQ_ID_PRIORITY[j]}
  <1> DEFINE Good(k) == IRQ_ID_PRIORITY[k] \in IF t = 2 THEN Implemented ELSE T
  <1>1. \A n : NextIrq(t, n, T) = {k \in n .. IRQ_NUM : Good(k)}
    BY DEF NextIrq
  <1>2. IRQ_NUM = 19
    BY Priorities
  <1> HIDE DEF Good
  <1>3. NextIrq(t, j, T) \in SUBSET (1 .. IRQ_NUM)
    BY <1>1, <1>2
  <1>4. ASSUME NextIrq(t, j, T) # {}, NEW k, k = Min(NextIrq(t, j, T))
        PROVE  /\ k \in 1 .. IRQ_NUM /\ k \in NextIrq(t, k, T)
               /\ NextIrq(t, k, T) = NextIrq(t, j, T)
    <2>1. k \in NextIrq(t, j, T) /\ \A n \in NextIrq(t, j, T) : k <= n
      BY <1>3, <1>4, FirstPlace
    <2>2. k \in 1 .. 19 /\ Good(k) /\ j <= k
      BY <1>1, <1>2, <2>1
    <2>3. \A n : n \in NextIrq(t, k, T) <=> n \in NextIrq(t, j, T)
      BY <1>1, <1>2, <2>1, <2>2
    <2> QED BY <1>2, <2>1, <2>2, <2>3
  <1>5. ASSUME j \in NextIrq(t, j, T)
        PROVE  {IRQ_ID_PRIORITY[k] : k \in NextIrq(t, j + 1, T)}
                 = {IRQ_ID_PRIORITY[k] : k \in NextIrq(t, j, T)} \ {IRQ_ID_PRIORITY[j]}
    <2>1. j \in 1 .. IRQ_NUM /\ Good(j)
      BY <1>1, <1>2, <1>5
    <2>2. \A n : n \in NextIrq(t, j, T) <=> n = j \/ n \in NextIrq(t, j + 1, T)
      BY <1>1, <1>2, <2>1
    <2>3. \A n \in NextIrq(t, j + 1, T) : n \in 1 .. IRQ_NUM /\ n # j
      BY <1>1, <1>2, <2>1
    <2>4. \A n \in NextIrq(t, j + 1, T) : IRQ_ID_PRIORITY[n] # IRQ_ID_PRIORITY[j]
      BY <2>1, <2>3, Places
    <2> QED BY <2>2, <2>4
  <1> QED BY <1>3, <1>4, <1>5

(* Todo, as a set of lines.                                                *)
LEMMA TodoAll ==
  ASSUME NEW T \in Words
  PROVE  /\ {IRQ_ID_PRIORITY[k] : k \in NextIrq(2, 1, T)} = Implemented
         /\ {IRQ_ID_PRIORITY[k] : k \in NextIrq(3, 1, T)} = T
  <1>1. \A b \in Implemented : \E k \in 1 .. IRQ_NUM : IRQ_ID_PRIORITY[k] = b
    BY Places
  <1>2. NextIrq(2, 1, T) = {k \in 1 .. IRQ_NUM : IRQ_ID_PRIORITY[k] \in Implemented}
    BY DEF NextIrq
  <1>3. NextIrq(3, 1, T) = {k \in 1 .. IRQ_NUM : IRQ_ID_PRIORITY[k] \in T}
    BY DEF NextIrq
  <1> QED BY <1>1, <1>2, <1>3 DEF Words

(* The loop of tests 2 and 3 goes to the next interrupt of those to be     *)
(* served, or there are none.                                              *)
LEMMA ServeFromStep ==
  ASSUME NEW from, NEW t, NEW j \in 1 .. IRQ_NUM + 1, ServeFrom(from, t, j)
  PROVE  /\ pc = from /\ test' = t /\ ret' = ret
         /\ \/ pc' = "sample" /\ i' \in 1 .. IRQ_NUM
               /\ i' \in NextIrq(t, i', g.irq_to_test32_std) /\ Todo(t, i') = Todo(t, j)
            \/ /\ pc' = IF t = 2 THEN "t3_reset" ELSE "t3_final"
               /\ i' = i /\ Todo(t, j) = {}
  BY NextPlaces DEF ServeFrom, Todo

-----------------------------------------------------------------------------
(* Every statement keeps the invariant of the program                      *)

LEMMA LabelsKept ==
  ASSUME TypeInv, ProgramInv, Statement
  PROVE  LabelInv'
  <1> USE DEF Goto, Call, Return, ProgramInv, LabelInv, Statements, Main, Handling,
              Enabling, Disabling, Calling, Interrupted5
  <1>1. CASE Test1
    BY <1>1 DEF Test1, EnableAll, Assign, Csrw, Writew
  <1>2. CASE Test2
    BY <1>2 DEF Test2, EnableAll, ServeFrom, Assign, Csrw, Writew
  <1>3. CASE Test3
    BY <1>3 DEF Test3, ServeFrom, Assign, Csrw, Writew, Nothing
  <1>4. CASE Test5
    BY <1>4 DEF Test5, EnableAll, mat_mult, Assign, Csrw, Writew, Nothing
  <1>5. CASE ServeNext
    BY <1>5 DEF ServeNext, ServeFrom, Assign, Nothing
  <1>6. CASE mstatus_enable
    BY <1>6 DEF mstatus_enable, Assign, Csrw, WriteMstatus
  <1>7. CASE mstatus_disable
    BY <1>7 DEF mstatus_disable, Assign, Csrw, WriteMstatus
  <1>8. CASE FAST_IRQ_GENERIC
    <2>1. IsRnd => Interrupted5 \/ pc \notin Handling
      BY DEF ModeInv, IsRnd, RANDOM, InTest5
    <2>2. ~IsRnd /\ pc = "h_write" => mepc = "wait"
      BY DEF ModeInv, IsRnd, RANDOM, InTest5
    <2> QED BY <1>8, <2>1, <2>2
            DEF FAST_IRQ_GENERIC, AcknowledgeRnd, DisableAfterReturn,
                Assign, Csrw, Writew, WriteMstatus
  <1>9. CASE Mret
    BY <1>9 DEF Mret, Csrw
  <1> QED BY <1>1, <1>2, <1>3, <1>4, <1>5, <1>6, <1>7, <1>8, <1>9 DEF Statement

LEMMA EnableKept ==
  ASSUME TypeInv, ProgramInv, Statement
  PROVE  EnableInv'
  <1> USE DEF Goto, Call, Return, ProgramInv, LabelInv, EnableInv, Statements, Main, Handling,
              Enabling, Disabling, Calling, Interrupted5, Served, Serving
  <1>0. /\ csr \in [MIE : BOOLEAN, MPIE : BOOLEAN, mie : Words] /\ g \in Globals
        /\ g.mmstatus \in [MIE : BOOLEAN, MPIE : BOOLEAN]
    BY DEF TypeInv, Globals
  <1>1. CASE Test1
    BY <1>0, <1>1 DEF Test1, EnableAll, Assign, Csrw, Writew, Globals
  <1>2. CASE Test2
    BY <1>0, <1>2 DEF Test2, EnableAll, ServeFrom, Assign, Csrw, Writew, Globals
  <1>3. CASE Test3
    BY <1>0, <1>3 DEF Test3, ServeFrom, Assign, Csrw, Writew, Nothing, Globals
  <1>4. CASE Test5
    BY <1>0, <1>4 DEF Test5, EnableAll, mat_mult, Assign, Csrw, Writew, Nothing, Globals
  <1>5. CASE ServeNext
    BY <1>0, <1>5 DEF ServeNext, ServeFrom, Assign, Nothing, Globals
  <1>6. CASE mstatus_enable
    <2>1. CASE pc \in {"en_csrr", "en_or"}
      BY <1>0, <1>6, <2>1 DEF mstatus_enable, Assign, Globals
    <2>2. CASE pc = "en_csrw"
      BY <1>6, <2>2 DEF mstatus_enable, Csrw, WriteMstatus, ServeInv
    <2> QED BY <1>6, <2>1, <2>2 DEF mstatus_enable
  <1>7. CASE mstatus_disable
    <2>1. CASE pc = "dis_csrr"
      BY <1>0, <1>7, <2>1 DEF mstatus_disable, Assign, Globals
    <2>2. CASE pc = "dis_and"
      <3>1. g' = [g EXCEPT !.mmstatus.MIE = FALSE] /\ csr' = csr /\ pc' = "dis_csrw" /\ ret' = ret
        BY <1>7, <2>2 DEF mstatus_disable, Assign
      <3>2. g'.mmstatus.MIE = FALSE
        BY <1>0, <3>1 DEF Globals
      <3> QED BY <2>2, <3>1, <3>2
    <2>3. CASE pc = "dis_csrw"
      <3>1. csr' = [csr EXCEPT !.MIE = g.mmstatus.MIE, !.MPIE = g.mmstatus.MPIE]
            /\ pc' = ret /\ g' = g
        BY <1>7, <2>3 DEF mstatus_disable, Csrw, WriteMstatus
      <3>2. csr'.MIE = g.mmstatus.MIE
        BY <1>0, <3>1
      <3>3. ~csr'.MIE
        BY <2>3, <3>2
      <3> QED BY <2>3, <3>1, <3>3
    <2> QED BY <1>7, <2>1, <2>2, <2>3 DEF mstatus_disable
  <1>8. CASE FAST_IRQ_GENERIC
    <2>1. CASE pc \notin {"h_csrr", "h_and", "h_csrw"}
      BY <1>0, <1>8, <2>1 DEF FAST_IRQ_GENERIC, AcknowledgeRnd, DisableAfterReturn,
                              Assign, Csrw, Writew, WriteMstatus, Globals
    <2>2. CASE pc = "h_csrr"
      <3>1. g' = [g EXCEPT !.mmstatus = mstatus] /\ csr' = csr /\ pc' = "h_and" /\ ret' = ret
            /\ mepc' = mepc
        BY <1>8, <2>2 DEF FAST_IRQ_GENERIC, AcknowledgeRnd, DisableAfterReturn, Assign
      <3>2. g'.mmstatus.MIE = csr.MIE
        BY <1>0, <3>1 DEF Globals, mstatus
      <3> QED BY <2>2, <3>1, <3>2
    <2>3. CASE pc = "h_and"
      <3>1. g' = [g EXCEPT !.mmstatus.MPIE = FALSE] /\ csr' = csr /\ pc' = "h_csrw" /\ ret' = ret
            /\ mepc' = mepc
        BY <1>8, <2>3 DEF FAST_IRQ_GENERIC, AcknowledgeRnd, DisableAfterReturn, Assign
      <3>2. g'.mmstatus.MIE = g.mmstatus.MIE /\ g'.mmstatus.MPIE = FALSE
        BY <1>0, <3>1 DEF Globals
      <3> QED BY <2>3, <3>1, <3>2
    <2>4. CASE pc = "h_csrw"
      <3>1. csr' = [csr EXCEPT !.MIE = g.mmstatus.MIE, !.MPIE = g.mmstatus.MPIE]
            /\ pc' = "h_mret" /\ g' = g /\ ret' = ret /\ mepc' = mepc
        BY <1>8, <2>4 DEF FAST_IRQ_GENERIC, AcknowledgeRnd, DisableAfterReturn,
                          Csrw, WriteMstatus
      <3>2. csr'.MIE = g.mmstatus.MIE /\ csr'.MPIE = g.mmstatus.MPIE
        BY <1>0, <3>1
      <3>3. ~csr'.MIE /\ ~csr'.MPIE
        BY <2>4, <3>2
      <3> QED BY <2>4, <3>1, <3>3
    <2> QED BY <2>1, <2>2, <2>3, <2>4
  <1>9. CASE Mret
    <2>1. /\ pc = "h_mret" /\ pc' = mepc /\ g' = g /\ ret' = ret /\ mepc' = mepc
          /\ csr' = [csr EXCEPT !.MIE = csr.MPIE, !.MPIE = TRUE]
      BY <1>9 DEF Mret, Csrw
    <2>2. csr'.MIE = csr.MPIE
      BY <1>0, <2>1
    <2> QED BY <2>1, <2>2
  <1> QED BY <1>1, <1>2, <1>3, <1>4, <1>5, <1>6, <1>7, <1>8, <1>9 DEF Statement

LEMMA ModesKept ==
  ASSUME TypeInv, ProgramInv, Statement
  PROVE  ModeInv'
  <1> USE DEF Goto, Call, Return, ProgramInv, LabelInv, ModeInv, Statements, Main, Handling,
              Enabling, Disabling, Calling, Interrupted5, InTest5, Stage,
              RANDOM, STANDARD, SOFTWARE_DEFINED
  <1>0. /\ g \in Globals /\ reg \in [mode : Nat, lines : SUBSET Bits]
    BY DEF TypeInv
  <1>1. CASE Test1
    BY <1>0, <1>1 DEF Test1, EnableAll, Assign, Csrw, Writew, Globals
  <1>2. CASE Test2
    BY <1>0, <1>2 DEF Test2, EnableAll, ServeFrom, Assign, Csrw, Writew, Globals
  <1>3. CASE Test3
    <2>1. CASE pc \in {"t3_reset", "t3_mask", "t3_mie", "t3_pending", "t3_first", "t3_test"}
      <3>1. pc' \in {"t3_mask", "t3_mie", "t3_pending", "t3_first", "t3_test", "dis_csrr"}
            /\ (pc' = "dis_csrr" => ret' = "t3_write")
        BY <1>3, <2>1 DEF Test3, ServeFrom
      <3>2. reg' = reg /\ g'.irq_mode = g.irq_mode /\ g'.irq_served = g.irq_served
        BY <1>0, <1>3, <2>1 DEF Test3, ServeFrom, Assign, Csrw, Nothing, Globals
      <3> QED BY <2>1, <3>1, <3>2
    <2>2. CASE pc = "t3_write"
      BY <1>0, <1>3, <2>2 DEF Test3, ServeFrom, Assign, Csrw, Writew, Nothing, Globals
    <2>3. CASE pc = "t3_final"
      BY <1>0, <1>3, <2>3 DEF Test3, ServeFrom, Assign, Csrw, Writew, Nothing, Globals
    <2> QED BY <1>3, <2>1, <2>2, <2>3 DEF Test3, ServeFrom
  <1>4. CASE Test5
    BY <1>0, <1>4 DEF Test5, EnableAll, mat_mult, Assign, Csrw, Writew, Nothing, Globals
  <1>5. CASE ServeNext
    BY <1>0, <1>5 DEF ServeNext, ServeFrom, Assign, Nothing, Globals
  <1>6. CASE mstatus_enable
    BY <1>0, <1>6 DEF mstatus_enable, Assign, Csrw, WriteMstatus, Globals
  <1>7. CASE mstatus_disable
    BY <1>0, <1>7 DEF mstatus_disable, Assign, Csrw, WriteMstatus, Globals
  <1>8. CASE FAST_IRQ_GENERIC
    <2> USE DEF FAST_IRQ_GENERIC, AcknowledgeRnd, DisableAfterReturn,
                Assign, Csrw, Writew, WriteMstatus, Globals
    <2>1. CASE pc \in {"h_id", "h_mip", "h_clear", "h_write"}
      <3>1. /\ pc' \in {"h_mip", "h_clear", "h_write", "h_served", "h_csrr"}
            /\ pc' = "h_mip" => pc = "h_id"
            /\ pc' = "h_csrr" => mepc = "wait" /\ pc = "h_write"
            /\ ret' = ret /\ mepc' = mepc
        BY <1>8, <2>1 DEF IsRnd
      <3>2. /\ g'.irq_mode = g.irq_mode /\ g'.irq_served = g.irq_served
            /\ reg'.mode = reg.mode
        BY <1>0, <1>8, <2>1
      <3> QED BY <2>1, <3>1, <3>2
    <2>2. CASE pc \in {"h_served", "h_std", "h_std_w", "h_rnd", "h_rnd_w"}
      BY <1>0, <1>8, <2>2
    <2>3. CASE pc \in {"h_csrr", "h_and", "h_csrw"}
      BY <1>0, <1>8, <2>3
    <2> QED BY <1>8, <2>1, <2>2, <2>3
  <1>9. CASE Mret
    BY <1>0, <1>9 DEF Mret, Csrw
  <1> QED BY <1>1, <1>2, <1>3, <1>4, <1>5, <1>6, <1>7, <1>8, <1>9 DEF Statement

(* Statements outside the loop of tests 2 and 3 do not enter it.           *)
LEMMA ServingStays ==
  ASSUME TypeInv, ProgramInv, Statement, Serving'
  PROVE  Serving \/ pc \in {"t2_write", "t3_write"}
  <1> USE DEF Goto, Call, Return, ProgramInv, LabelInv, Statements, Main, Handling,
              Enabling, Disabling, Calling, Interrupted5, Serving
  <1>1. CASE Test1 \/ Test2 \/ Test3
    BY <1>1 DEF Test1, Test2, Test3, EnableAll, ServeFrom
  <1>2. CASE Test5 \/ ServeNext
    BY <1>2 DEF Test5, EnableAll, mat_mult, ServeNext, ServeFrom
  <1>3. CASE mstatus_enable \/ mstatus_disable
    BY <1>3 DEF mstatus_enable, mstatus_disable
  <1>4. CASE FAST_IRQ_GENERIC \/ Mret
    BY <1>4 DEF FAST_IRQ_GENERIC, AcknowledgeRnd, DisableAfterReturn, Mret, Assign, Csrw,
                Writew, WriteMstatus
  <1> QED BY <1>1, <1>2, <1>3, <1>4 DEF Statement

(* Into the loop, or to its next interrupt.                                *)
LEMMA ServeStarts ==
  ASSUME TypeInv, ProgramInv, NEW from, NEW t \in {2, 3}, NEW j \in 1 .. IRQ_NUM + 1,
         ServeFrom(from, t, j), from \in {"t2_write", "t3_write", "check"},
         g' = g, csr' = csr, reg'.lines = g.irq_pending32_std,
         reg'.lines \cap csr.mie = Todo(t, j)
  PROVE  ServeInv'
  <1>1. CASE pc' = "sample"
    <2>1. /\ test' = t /\ ret' = ret /\ i' \in NextIrq(t, i', g.irq_to_test32_std)
          /\ {IRQ_ID_PRIORITY[k] : k \in NextIrq(t, i', g.irq_to_test32_std)} = Todo(t, j)
      BY <1>1, ServeFromStep DEF Todo
    <2>2. ~Served'
      BY <1>1 DEF Served
    <2>3. g'.irq_to_test32_std = g.irq_to_test32_std /\ g'.irq_pending32_std = g.irq_pending32_std
          /\ csr'.mie = csr.mie
      OBVIOUS
    <2>4. reg'.lines \cap csr'.mie =
            {IRQ_ID_PRIORITY[k] : k \in NextIrq(test', i', g'.irq_to_test32_std)}
      BY <2>1, <2>3
    <2>5. test' \in {2, 3} /\ i' \in NextIrq(test', i', g'.irq_to_test32_std)
      BY <2>1, <2>3
    <2> QED BY <1>1, <2>2, <2>3, <2>4, <2>5 DEF ServeInv, Todo
  <1>2. CASE pc' \in {"t3_reset", "t3_final"}
    BY <1>2 DEF ServeInv, Serving, Main, Handling, Enabling
  <1> QED BY <1>1, <1>2, ServeFromStep

(* Every statement leaves the variables of the program in their types.     *)
LEMMA ProgramTypes ==
  ASSUME TypeInv, ProgramInv, Statement
  PROVE  /\ i' \in 1 .. IRQ_NUM /\ handler' \in Nat
         /\ g' \in Globals
         /\ csr' \in [MIE : BOOLEAN, MPIE : BOOLEAN, mie : Words]
         /\ reg' \in [mode : Nat, lines : SUBSET Bits]
  <1> USE DEF Goto, Call, Return, Globals, Words
  <1>0. /\ i \in 1 .. IRQ_NUM /\ handler \in Nat /\ g \in Globals
        /\ csr \in [MIE : BOOLEAN, MPIE : BOOLEAN, mie : Words]
        /\ reg \in [mode : Nat, lines : SUBSET Bits]
        /\ irq_q \in SUBSET Bits /\ Implemented \in SUBSET Bits
        /\ random_words \subseteq Words /\ random_words \subseteq SUBSET Bits
        /\ mstatus \in [MIE : BOOLEAN, MPIE : BOOLEAN]
    BY DEF TypeInv, Implemented, random_words, mstatus
  <1>a. \A a, b \in BOOLEAN : [csr EXCEPT !.MIE = a, !.MPIE = b]
                               \in [MIE : BOOLEAN, MPIE : BOOLEAN, mie : Words]
    BY <1>0
  <1>b. \A m \in [MIE : BOOLEAN, MPIE : BOOLEAN] : [g EXCEPT !.mmstatus = m] \in Globals
    BY <1>0
  <1>c. /\ [g EXCEPT !.mmstatus.MIE = TRUE] \in Globals
        /\ [g EXCEPT !.mmstatus.MIE = FALSE] \in Globals
        /\ [g EXCEPT !.mmstatus.MPIE = FALSE] \in Globals
    BY <1>0
  <1>d. WriteMstatus => /\ csr' \in [MIE : BOOLEAN, MPIE : BOOLEAN, mie : Words]
                        /\ UNCHANGED <<g, reg, handler>>
    BY <1>0, <1>a DEF WriteMstatus, Csrw
  <1>1. CASE Test1
    BY <1>0, <1>1 DEF Test1, EnableAll, Assign, Csrw, Writew, SOFTWARE_DEFINED
  <1>2. CASE Test2
    <2>1. CASE ServeFrom("t2_write", 2, 1)
      <3>1. i' \in 1 .. IRQ_NUM
        BY <1>0, <2>1, Priorities, ServeFromStep
      <3> QED BY <1>0, <1>2, <2>1, <3>1 DEF Test2, EnableAll, ServeFrom, Writew
    <2> QED BY <1>0, <1>2, <2>1 DEF Test2, EnableAll, Assign, Csrw
  <1>3. CASE Test3
    <2>1. CASE ServeFrom("t3_write", 3, 1)
      <3>1. i' \in 1 .. IRQ_NUM
        BY <1>0, <2>1, Priorities, ServeFromStep
      <3> QED BY <1>0, <1>3, <2>1, <3>1 DEF Test3, ServeFrom, Writew
    <2>2. CASE pc = "t3_mie"
      <3>1. g.ie_mask32_std \in Words
        BY <2>2 DEF ProgramInv, Test3Inv
      <3> QED BY <1>0, <1>3, <2>2, <3>1 DEF Test3, ServeFrom, Csrw
    <2>3. CASE pc = "t3_test"
      BY <1>0, <1>3, <2>3 DEF Test3, ServeFrom, Assign, to_test
    <2>4. CASE pc \in {"t3_first", "t3_final"}
      BY <1>0, <1>3, <2>4 DEF Test3, ServeFrom, Assign, Nothing
    <2>7. CASE pc = "t3_reset"
      <3>1. /\ Assign([g EXCEPT !.irq_id = 0, !.ie_mask32_std = {}, !.irq_pending32_std = {}])
            /\ i' = i
        BY <1>3, <2>7 DEF Test3, ServeFrom
      <3> QED BY <1>0, <3>1 DEF Assign
    <2>5. CASE pc = "t3_mask"
      <3>1. PICK w \in random_words : Assign([g EXCEPT !.ie_mask32_std = w]) /\ i' = i
        BY <1>3, <2>5 DEF Test3, ServeFrom
      <3> QED BY <1>0, <3>1 DEF Assign
    <2>6. CASE pc = "t3_pending"
      <3>1. PICK w \in random_words : Assign([g EXCEPT !.irq_pending32_std = w]) /\ i' = i
        BY <1>3, <2>6 DEF Test3, ServeFrom
      <3> QED BY <1>0, <3>1 DEF Assign
    <2> QED BY <1>3, <2>1, <2>2, <2>3, <2>4, <2>5, <2>6, <2>7 DEF Test3
  <1>4. CASE Test5
    BY <1>0, <1>4 DEF Test5, EnableAll, mat_mult, Assign, Csrw, Writew, Nothing, RANDOM
  <1>5. CASE ServeNext
    <2>1. CASE ServeFrom("check", test, i + 1)
      <3>1. i' \in 1 .. IRQ_NUM
        BY <1>0, <2>1, Priorities, ServeFromStep
      <3> QED BY <1>0, <1>5, <2>1, <3>1 DEF ServeNext, ServeFrom, Assign, Nothing
    <2>2. CASE pc = "check" /\ ~ServeFrom("check", test, i + 1)
      <3>1. test \in {2, 3}
        BY <2>2 DEF ProgramInv, ServeInv, Serving, Main, Handling
      <3> QED BY <1>0, <1>5, <2>2, <3>1 DEF ServeNext, Assign
    <2> QED BY <1>0, <1>5, <2>1, <2>2 DEF ServeNext, Assign, Nothing
  <1>6. CASE mstatus_enable
    <2>1. \/ Assign([g EXCEPT !.mmstatus = mstatus])
          \/ Assign([g EXCEPT !.mmstatus.MIE = TRUE])
          \/ WriteMstatus
      BY <1>6 DEF mstatus_enable
    <2>2. i' = i
      BY <1>6 DEF mstatus_enable
    <2> HIDE DEF Globals
    <2> QED BY <1>0, <1>b, <1>c, <1>d, <2>1, <2>2 DEF Assign
  <1>7. CASE mstatus_disable
    <2>1. \/ Assign([g EXCEPT !.mmstatus = mstatus])
          \/ Assign([g EXCEPT !.mmstatus.MIE = FALSE])
          \/ WriteMstatus
      BY <1>7 DEF mstatus_disable
    <2>2. i' = i
      BY <1>7 DEF mstatus_disable
    <2> HIDE DEF Globals
    <2> QED BY <1>0, <1>b, <1>c, <1>d, <2>1, <2>2 DEF Assign
  <1>8. CASE FAST_IRQ_GENERIC
    <2>1. CASE DisableAfterReturn
      <3>1. \/ Assign([g EXCEPT !.mmstatus = mstatus])
            \/ Assign([g EXCEPT !.mmstatus.MPIE = FALSE])
            \/ WriteMstatus
        BY <2>1 DEF DisableAfterReturn
      <3>2. i' = i
        BY <2>1 DEF DisableAfterReturn
      <3> HIDE DEF Globals
      <3> QED BY <1>0, <1>b, <1>c, <1>d, <3>1, <3>2 DEF Assign
    <2>2. CASE AcknowledgeRnd
      BY <1>0, <2>2 DEF AcknowledgeRnd, Assign, Writew, RANDOM, STANDARD
    <2>3. CASE pc \in {"h_id", "h_mip", "h_clear", "h_write"} /\ ~AcknowledgeRnd
               /\ ~DisableAfterReturn
      BY <1>0, <1>8, <2>3 DEF FAST_IRQ_GENERIC, Assign, Writew
    <2> QED BY <1>8, <2>1, <2>2, <2>3 DEF FAST_IRQ_GENERIC
  <1>9. CASE Mret
    BY <1>0, <1>9 DEF Mret, Csrw
  <1> QED BY <1>1, <1>2, <1>3, <1>4, <1>5, <1>6, <1>7, <1>8, <1>9 DEF Statement

LEMMA ServeKept ==
  ASSUME TypeInv, ProgramInv, Statement
  PROVE  ServeInv'
  <1> SUFFICES ASSUME Serving' PROVE ServeInv'
    BY DEF ServeInv
  <1> USE DEF Goto, Call, Return, Statements, Main, Handling, Enabling, Disabling
  <1>0. /\ g \in Globals /\ reg \in [mode : Nat, lines : SUBSET Bits]
        /\ csr \in [MIE : BOOLEAN, MPIE : BOOLEAN, mie : Words]
        /\ IRQ_NUM = 19 /\ i \in 1 .. 19 /\ Implemented \in SUBSET Bits
    BY Priorities DEF TypeInv, Implemented
  <1>1. CASE pc = "t2_write"
    <2>1. ServeFrom("t2_write", 2, 1) /\ reg' = [reg EXCEPT !.lines = g.irq_pending32_std]
          /\ g' = g /\ csr' = csr
      BY <1>1 DEF Statement, Test1, Test2, Test3, Test5, ServeNext, ServeFrom, EnableAll, mat_mult,
           mstatus_enable, mstatus_disable, FAST_IRQ_GENERIC, AcknowledgeRnd, DisableAfterReturn,
           Mret, Writew
    <2>2. reg'.lines = Bits /\ g.irq_pending32_std = Bits /\ csr.mie = Implemented
          /\ g.irq_to_test32_std = {}
      BY <1>0, <1>1, <2>1 DEF ProgramInv, Test2Inv, Test3Inv, InTest2
    <2>3. Todo(2, 1) = Implemented
      BY <2>2, TodoAll DEF Todo, Words
    <2> QED BY <1>0, <2>1, <2>2, <2>3, ServeStarts
  <1>2. CASE pc = "t3_write"
    <2>1. ServeFrom("t3_write", 3, 1) /\ reg' = [reg EXCEPT !.lines = g.irq_pending32_std]
          /\ g' = g /\ csr' = csr
      BY <1>2 DEF Statement, Test1, Test2, Test3, Test5, ServeNext, ServeFrom, EnableAll, mat_mult,
           mstatus_enable, mstatus_disable, FAST_IRQ_GENERIC, AcknowledgeRnd, DisableAfterReturn,
           Mret, Writew
    <2>2. /\ reg'.lines = g.irq_pending32_std /\ csr.mie = g.ie_mask32_std
          /\ g.irq_pending32_std = g.first_irq_pending32_std
          /\ g.irq_to_test32_std = g.first_irq_pending32_std \cap g.ie_mask32_std
          /\ g.first_irq_pending32_std \in Words
      BY <1>0, <1>2, <2>1 DEF ProgramInv, Test3Inv, InTest3
    <2>3. Todo(3, 1) = g.irq_to_test32_std
      <3>1. g.irq_to_test32_std \in Words
        BY <2>2 DEF Words
      <3> QED BY <3>1, TodoAll DEF Todo
    <2> QED BY <1>0, <2>1, <2>2, <2>3, ServeStarts
  <1>3. CASE Serving
    <2>1. /\ test \in {2, 3} /\ i \in NextIrq(test, i, g.irq_to_test32_std)
          /\ reg.lines \cap csr.mie = Todo(test, IF Served THEN i + 1 ELSE i)
          /\ g.irq_pending32_std = IF pc = "h_write" THEN reg.lines \ {g.irq_id} ELSE reg.lines
          /\ ~Served /\ pc # "sample" => g.prev_irq_pending32_std = reg.lines
          /\ pc \in {"h_id", "h_clear", "h_write"} => handler = IRQ_ID_PRIORITY[i]
          /\ pc \in {"h_clear", "h_write"} => g.irq_id = handler
          /\ Served => /\ g.irq_id = IRQ_ID_PRIORITY[i]
                       /\ g.irq_id \in g.prev_irq_pending32_std \ reg.lines
      BY <1>3 DEF ProgramInv, ServeInv
    <2>2. pc \notin Handling => pc \in {"sample", "wait", "check"} \cup Enabling
      BY <1>3 DEF Serving
    <2>3. pc \in Handling => mepc = "wait" /\ ~IsRnd
            /\ pc \in {"h_id", "h_clear", "h_write", "h_csrr", "h_and", "h_csrw", "h_mret"}
      BY <1>3 DEF ProgramInv, LabelInv, ModeInv, Serving, Interrupted5, Calling, InTest5,
                  IsRnd, RANDOM
    <2>4. ServeNext \/ mstatus_enable \/ FAST_IRQ_GENERIC \/ Mret
      BY <2>2, <2>3 DEF Statement, Test1, Test2, Test3, Test5, ServeFrom, EnableAll, mat_mult,
           mstatus_disable
    <2>5. CASE pc = "check"
      <3>1. Served /\ g.irq_id = IRQ_ID_PRIORITY[i]
        BY <2>1, <2>5 DEF Served
      <3>2. ServeFrom("check", test, i + 1) /\ g' = g /\ csr' = csr /\ reg' = reg
        BY <2>4, <2>5, <3>1 DEF ServeNext, mstatus_enable, FAST_IRQ_GENERIC, AcknowledgeRnd,
              DisableAfterReturn, Mret, Nothing
      <3> QED BY <1>0, <2>1, <2>5, <3>1, <3>2, ServeStarts
    <2>6. CASE pc # "check"
      <3>1. test' = test /\ i' = i
        BY <2>4, <2>6 DEF ServeNext, ServeFrom, mstatus_enable, FAST_IRQ_GENERIC,
              AcknowledgeRnd, DisableAfterReturn, Mret
      <3>3. /\ pc \in {"sample", "wait"} \cup Enabling \/ pc \in Handling
            /\ pc \in Enabling => ret = "wait"
        BY <1>3, <2>2, <2>6 DEF Serving
      <3>4. CASE pc = "sample"
        <4>1. /\ pc' = "en_csrr" /\ ret' = "wait" /\ csr' = csr /\ reg' = reg
              /\ g' = [g EXCEPT !.prev_irq_pending32_std = g.irq_pending32_std]
          BY <2>4, <3>4 DEF ServeNext, ServeFrom, mstatus_enable, FAST_IRQ_GENERIC,
               AcknowledgeRnd, DisableAfterReturn, Mret, Assign
        <4>2. ~Served /\ ~Served' /\ Serving'
          BY <3>4, <4>1 DEF Served, Serving
        <4>3. /\ g'.prev_irq_pending32_std = g.irq_pending32_std
              /\ g'.irq_pending32_std = g.irq_pending32_std
              /\ g'.irq_to_test32_std = g.irq_to_test32_std
          BY <1>0, <4>1 DEF Globals
        <4> QED BY <2>1, <3>1, <3>4, <4>1, <4>2, <4>3 DEF ServeInv, Todo
      <3>5. CASE pc = "wait"
        <4>1. /\ pc' = IF g.prev_irq_pending32_std = g.irq_pending32_std THEN "wait" ELSE "check"
              /\ csr' = csr /\ reg' = reg /\ g' = g
          BY <2>4, <3>5 DEF ServeNext, ServeFrom, mstatus_enable, FAST_IRQ_GENERIC,
               AcknowledgeRnd, DisableAfterReturn, Mret, Nothing
        <4>2. Served' = Served
          BY <3>5, <4>1 DEF Served
        <4> QED BY <2>1, <3>1, <3>5, <4>1, <4>2 DEF ServeInv, Todo
      <3>6. CASE pc \in {"en_csrr", "en_or"}
        <4>1. /\ pc' \in {"en_or", "en_csrw"} /\ csr' = csr /\ reg' = reg
              /\ \/ g' = [g EXCEPT !.mmstatus = mstatus]
                 \/ g' = [g EXCEPT !.mmstatus.MIE = TRUE]
          BY <2>4, <3>6 DEF ServeNext, ServeFrom, mstatus_enable, FAST_IRQ_GENERIC,
               AcknowledgeRnd, DisableAfterReturn, Mret, Assign
        <4>2. ~Served' /\ ~Served
          BY <3>6, <4>1 DEF Served
        <4>3. /\ g'.prev_irq_pending32_std = g.prev_irq_pending32_std
              /\ g'.irq_pending32_std = g.irq_pending32_std
              /\ g'.irq_to_test32_std = g.irq_to_test32_std
          BY <1>0, <4>1 DEF Globals
        <4> QED BY <2>1, <3>1, <3>6, <4>1, <4>2, <4>3 DEF ServeInv, Todo
      <3>7. CASE pc = "en_csrw"
        <4>1. /\ pc' = "wait" /\ reg' = reg /\ g' = g /\ WriteMstatus
          BY <2>4, <3>3, <3>7 DEF ServeNext, ServeFrom, mstatus_enable, FAST_IRQ_GENERIC,
               AcknowledgeRnd, DisableAfterReturn, Mret, Csrw, WriteMstatus
        <4>2. csr'.mie = csr.mie
          BY <1>0, <4>1 DEF WriteMstatus, Csrw
        <4>3. ~Served
          BY <3>7 DEF Served
        <4>4. ~Served'
          BY <2>1, <3>7, <4>1, <4>3 DEF Served
        <4> QED BY <2>1, <3>1, <3>7, <4>1, <4>2, <4>3, <4>4 DEF ServeInv, Todo
      <3>8. CASE pc = "h_id"
        <4>1. /\ pc' = "h_clear" /\ csr' = csr /\ reg' = reg
              /\ g' = [g EXCEPT !.irq_id = handler] /\ handler' = handler
          BY <2>3, <2>4, <3>8 DEF ServeNext, ServeFrom, mstatus_enable, FAST_IRQ_GENERIC,
               AcknowledgeRnd, DisableAfterReturn, Mret, Assign
        <4>2. ~Served' /\ ~Served
          BY <3>8, <4>1 DEF Served
        <4>3. /\ g'.prev_irq_pending32_std = g.prev_irq_pending32_std
              /\ g'.irq_pending32_std = g.irq_pending32_std
              /\ g'.irq_to_test32_std = g.irq_to_test32_std /\ g'.irq_id = handler
          BY <1>0, <4>1 DEF Globals
        <4> QED BY <2>1, <3>1, <3>8, <4>1, <4>2, <4>3 DEF ServeInv, Todo
      <3>9. CASE pc = "h_clear"
        <4>1. /\ pc' = "h_write" /\ csr' = csr /\ reg' = reg /\ handler' = handler
              /\ g' = [g EXCEPT !.irq_pending32_std = @ \ {g.irq_id}]
          BY <2>3, <2>4, <3>9 DEF ServeNext, ServeFrom, mstatus_enable, FAST_IRQ_GENERIC,
               AcknowledgeRnd, DisableAfterReturn, Mret, Assign
        <4>2. ~Served' /\ ~Served
          BY <3>9, <4>1 DEF Served
        <4>3. /\ g'.prev_irq_pending32_std = g.prev_irq_pending32_std
              /\ g'.irq_pending32_std = g.irq_pending32_std \ {g.irq_id}
              /\ g'.irq_to_test32_std = g.irq_to_test32_std /\ g'.irq_id = g.irq_id
          BY <1>0, <4>1 DEF Globals
        <4> QED BY <2>1, <3>1, <3>9, <4>1, <4>2, <4>3 DEF ServeInv, Todo
      <3>10. CASE pc = "h_write"
        <4>1. /\ pc' = "h_csrr" /\ csr' = csr /\ g' = g /\ handler' = handler
              /\ reg' = [reg EXCEPT !.lines = g.irq_pending32_std]
          BY <2>3, <2>4, <3>10 DEF ServeNext, ServeFrom, mstatus_enable, FAST_IRQ_GENERIC,
               AcknowledgeRnd, DisableAfterReturn, Mret, Writew
        <4>2. Served' /\ ~Served
          BY <3>10, <4>1 DEF Served
        <4>3. /\ reg'.lines = reg.lines \ {g.irq_id} /\ g.irq_id = IRQ_ID_PRIORITY[i]
              /\ g.irq_pending32_std = reg'.lines /\ g.prev_irq_pending32_std = reg.lines
          BY <1>0, <2>1, <3>10, <4>1, <4>2
        <4>4. {IRQ_ID_PRIORITY[k] : k \in NextIrq(test, i + 1, g.irq_to_test32_std)}
                = {IRQ_ID_PRIORITY[k] : k \in NextIrq(test, i, g.irq_to_test32_std)}
                    \ {IRQ_ID_PRIORITY[i]}
          <5>1. i \in 1 .. IRQ_NUM + 1 /\ i \in NextIrq(test, i, g.irq_to_test32_std)
            BY <1>0, <2>1
          <5> QED BY <5>1, NextPlaces
        <4>5. reg'.lines \cap csr.mie = Todo(test, i + 1)
          BY <2>1, <4>2, <4>3, <4>4 DEF Todo
        <4>6. g.irq_id \in reg.lines
          BY <2>1, <4>2, <4>3 DEF Todo
        <4> QED BY <2>1, <3>1, <4>1, <4>2, <4>3, <4>5, <4>6 DEF ServeInv, Todo
      <3>11. CASE pc \in {"h_csrr", "h_and"}
        <4>1. /\ pc' \in {"h_and", "h_csrw"} /\ csr' = csr /\ reg' = reg
              /\ \/ g' = [g EXCEPT !.mmstatus = mstatus]
                 \/ g' = [g EXCEPT !.mmstatus.MPIE = FALSE]
          BY <2>3, <2>4, <3>11 DEF ServeNext, ServeFrom, mstatus_enable, FAST_IRQ_GENERIC,
               AcknowledgeRnd, DisableAfterReturn, Mret, Assign
        <4>2. Served' /\ Served
          BY <3>11, <4>1 DEF Served
        <4>3. /\ g'.prev_irq_pending32_std = g.prev_irq_pending32_std
              /\ g'.irq_pending32_std = g.irq_pending32_std
              /\ g'.irq_to_test32_std = g.irq_to_test32_std /\ g'.irq_id = g.irq_id
          BY <1>0, <4>1 DEF Globals
        <4> QED BY <2>1, <3>1, <3>11, <4>1, <4>2, <4>3 DEF ServeInv, Todo
      <3>12. CASE pc = "h_csrw"
        <4>1. /\ pc' = "h_mret" /\ reg' = reg /\ g' = g /\ WriteMstatus /\ mepc' = mepc
          BY <2>3, <2>4, <3>12 DEF ServeNext, ServeFrom, mstatus_enable, FAST_IRQ_GENERIC,
               AcknowledgeRnd, DisableAfterReturn, Mret, Csrw, WriteMstatus
        <4>2. csr'.mie = csr.mie
          BY <1>0, <4>1 DEF WriteMstatus, Csrw
        <4>3. Served' /\ Served
          BY <2>3, <3>12, <4>1 DEF Served, Serving
        <4> QED BY <2>1, <3>1, <3>12, <4>1, <4>2, <4>3 DEF ServeInv, Todo
      <3>13. CASE pc = "h_mret"
        <4>1. /\ pc' = "wait" /\ reg' = reg /\ g' = g /\ Mret
          BY <2>3, <2>4, <3>13 DEF ServeNext, ServeFrom, mstatus_enable, FAST_IRQ_GENERIC,
               AcknowledgeRnd, DisableAfterReturn, Mret, Csrw
        <4>2. csr'.mie = csr.mie
          BY <1>0, <4>1 DEF Mret, Csrw
        <4>3. Served
          BY <1>3, <3>13 DEF Served
        <4>4. Served'
          BY <2>1, <3>13, <4>1, <4>3 DEF Served
        <4> QED BY <2>1, <3>1, <3>13, <4>1, <4>2, <4>3, <4>4 DEF ServeInv, Todo
      <3> QED BY <2>2, <2>3, <3>3, <3>4, <3>5, <3>6, <3>7, <3>8, <3>9, <3>10, <3>11, <3>12, <3>13
    <2> QED BY <2>5, <2>6
  <1> QED BY <1>1, <1>2, <1>3, ServingStays

(* Calls, handlers and the loop of tests 2 and 3 leave what is enabled and *)
(* what was pending at first alone, and the pending word to the handlers.  *)
LEMMA LoopLeaves ==
  ASSUME TypeInv, ProgramInv,
         ServeNext \/ mstatus_enable \/ mstatus_disable \/ FAST_IRQ_GENERIC \/ Mret
  PROVE  /\ csr'.mie = csr.mie /\ g'.ie_mask32_std = g.ie_mask32_std
         /\ g'.first_irq_pending32_std = g.first_irq_pending32_std
         /\ g'.irq_to_test32_std = g.irq_to_test32_std /\ g'.mat = g.mat
         /\ g'.code = g.code /\ test' = test
         /\ pc \notin Handling =>
              /\ g'.irq_pending32_std = g.irq_pending32_std
              /\ reg'.lines = reg.lines
  <1> USE DEF Goto, Call, Return, Handling
  <1>0. g \in Globals /\ csr \in [MIE : BOOLEAN, MPIE : BOOLEAN, mie : Words]
        /\ reg \in [mode : Nat, lines : SUBSET Bits]
    BY DEF TypeInv
  <1>1. WriteMstatus => csr'.mie = csr.mie /\ g' = g /\ reg' = reg
    BY <1>0 DEF WriteMstatus, Csrw
  <1>2. CASE ServeNext
    <2>1. CASE pc = "check"
      <3>1. IRQ_ID_PRIORITY[i] = g.irq_id
        BY <2>1 DEF ProgramInv, ServeInv, Serving, Served, Main
      <3> QED BY <1>2, <2>1, <3>1 DEF ServeNext, ServeFrom, Nothing
    <2>2. CASE pc = "sample"
      BY <1>0, <1>2, <2>2 DEF ServeNext, ServeFrom, Assign, Globals
    <2>3. CASE pc = "wait"
      BY <1>2, <2>3 DEF ServeNext, ServeFrom, Nothing
    <2> QED BY <1>2, <2>1, <2>2, <2>3 DEF ServeNext, ServeFrom
  <1>3. CASE mstatus_enable \/ mstatus_disable
    <2>1. test' = test
          /\ \/ Assign([g EXCEPT !.mmstatus = mstatus])
             \/ Assign([g EXCEPT !.mmstatus.MIE = TRUE])
             \/ Assign([g EXCEPT !.mmstatus.MIE = FALSE])
             \/ WriteMstatus
      BY <1>3 DEF mstatus_enable, mstatus_disable
    <2> QED BY <1>0, <1>1, <2>1 DEF Assign, Globals
  <1>4. CASE DisableAfterReturn
    <2>1. /\ test' = test /\ pc \in Handling
          /\ \/ Assign([g EXCEPT !.mmstatus = mstatus])
             \/ Assign([g EXCEPT !.mmstatus.MPIE = FALSE])
             \/ WriteMstatus
      BY <1>4 DEF DisableAfterReturn
    <2> QED BY <1>0, <1>1, <2>1 DEF Assign, Globals
  <1>5. CASE FAST_IRQ_GENERIC /\ ~DisableAfterReturn
    BY <1>0, <1>5 DEF FAST_IRQ_GENERIC, AcknowledgeRnd, Assign, Writew, Globals
  <1>6. CASE Mret
    BY <1>0, <1>6 DEF Mret, Csrw
  <1> QED BY <1>2, <1>3, <1>4, <1>5, <1>6

LEMMA Test2Kept ==
  ASSUME TypeInv, ProgramInv, Statement
  PROVE  Test2Inv'
  <1> USE DEF Goto, Call, Return, ProgramInv, LabelInv, Test2Inv, InTest2, Calling, Serving,
              Statements, Main, Handling, Enabling, Disabling, Interrupted5
  <1>0. g \in Globals /\ csr \in [MIE : BOOLEAN, MPIE : BOOLEAN, mie : Words]
    BY DEF TypeInv
  <1>1. CASE Test1
    BY <1>0, <1>1 DEF Test1, EnableAll, Assign, Csrw, Writew, Globals
  <1>2. CASE Test2
    <2>1. CASE pc = "t2_mask"
      BY <1>0, <1>2, <2>1 DEF Test2, EnableAll, ServeFrom, Assign, Globals
    <2>2. CASE pc = "t2_mie"
      <3>1. pc' = "t2_pending" /\ csr' = [csr EXCEPT !.mie = g.ie_mask32_std \cap Implemented]
        BY <1>2, <2>2 DEF Test2, EnableAll, ServeFrom, Csrw
      <3>2. g.ie_mask32_std \cap Implemented = Implemented
        BY <2>2 DEF Implemented
      <3> QED BY <1>0, <3>1, <3>2
    <2>3. CASE pc = "t2_pending"
      BY <1>0, <1>2, <2>3 DEF Test2, EnableAll, ServeFrom, Assign, Globals
    <2>4. CASE pc = "t2_write"
      BY <1>0, <1>2, <2>4 DEF Test2, EnableAll, ServeFrom, Writew
    <2> QED BY <1>2, <2>1, <2>2, <2>3, <2>4 DEF Test2, EnableAll, ServeFrom
  <1>3. CASE Test3
    BY <1>3 DEF Test3, ServeFrom
  <1>4. CASE Test5
    BY <1>4 DEF Test5, EnableAll, mat_mult
  <1>5. CASE ServeNext
    BY <1>5, LoopLeaves DEF ServeNext, ServeFrom
  <1>6. CASE mstatus_enable
    BY <1>6, LoopLeaves DEF mstatus_enable
  <1>7. CASE mstatus_disable
    BY <1>7, LoopLeaves DEF mstatus_disable
  <1>8. CASE FAST_IRQ_GENERIC
    <2>1. Main' = Main /\ ret' = ret /\ mepc' = mepc /\ pc' \in Handling
      BY <1>8 DEF FAST_IRQ_GENERIC, AcknowledgeRnd, DisableAfterReturn, Assign, Csrw, Writew,
                  WriteMstatus
    <2> QED BY <1>8, <2>1, LoopLeaves
  <1>9. CASE Mret
    <2>1. Main' = Main /\ ret' = ret /\ pc' = mepc /\ pc \in Handling
      BY <1>9 DEF Mret, Csrw
    <2> QED BY <1>9, <2>1, LoopLeaves
  <1> QED BY <1>1, <1>2, <1>3, <1>4, <1>5, <1>6, <1>7, <1>8, <1>9 DEF Statement

LEMMA QuietKept ==
  ASSUME TypeInv, ProgramInv, Statement
  PROVE  QuietInv'
  <1> USE DEF Goto, Call, Return, ProgramInv, LabelInv, QuietInv, Calling, Serving,
              Statements, Main, Handling, Enabling, Disabling, Interrupted5
  <1>0. g \in Globals /\ reg \in [mode : Nat, lines : SUBSET Bits]
    BY DEF TypeInv
  <1>1. CASE Test1
    BY <1>0, <1>1 DEF Test1, EnableAll, Assign, Csrw, Writew
  <1>2. CASE Test2
    <2>1. CASE pc = "t2_write"
      <3>1. ServeFrom("t2_write", 2, 1) /\ reg'.lines = Bits /\ Implemented \subseteq Bits
        BY <1>0, <1>2, <2>1 DEF Test2, EnableAll, ServeFrom, Writew, Test2Inv, Implemented
      <3>2. Todo(2, 1) = Implemented
        <4>1. g.irq_to_test32_std = {}
          BY <2>1 DEF Test3Inv
        <4> QED BY <4>1, TodoAll DEF Todo, Words
      <3>3. pc' = "sample"
        BY <3>1, <3>2, Priorities, ServeFromStep, IrqTestAssumption
      <3> QED BY <3>3
    <2> QED BY <1>2, <2>1 DEF Test2, EnableAll, ServeFrom, Assign, Csrw
  <1>3. CASE Test3
    BY <1>3 DEF Test3, ServeFrom, Assign, Csrw, Nothing
  <1>4. CASE Test5
    BY <1>4 DEF Test5, EnableAll, mat_mult
  <1>5. CASE ServeNext
    <2>1. CASE pc' = "t3_reset"
      <3>1. /\ Served /\ Serving /\ test = 2 /\ reg' = reg
            /\ ServeFrom("check", test, i + 1)
        BY <1>5, <2>1 DEF ServeNext, ServeFrom, Served, Nothing
      <3>2. i + 1 \in 1 .. IRQ_NUM + 1
        BY Priorities DEF TypeInv
      <3>3. Todo(2, i + 1) = {}
        BY <2>1, <3>1, <3>2, ServeFromStep
      <3>4. reg.lines \cap Implemented = {}
        BY <3>1, <3>3 DEF ServeInv, Test2Inv, InTest2
      <3> QED BY <2>1, <3>1, <3>4
    <2> QED BY <1>5, <2>1 DEF ServeNext, ServeFrom
  <1>6. CASE mstatus_enable
    BY <1>6 DEF mstatus_enable
  <1>7. CASE mstatus_disable
    BY <1>7, LoopLeaves DEF mstatus_disable
  <1>8. CASE FAST_IRQ_GENERIC
    BY <1>8 DEF FAST_IRQ_GENERIC, AcknowledgeRnd, DisableAfterReturn, Assign, Csrw, Writew,
                WriteMstatus
  <1>9. CASE Mret
    BY <1>9 DEF Mret, Csrw
  <1> QED BY <1>1, <1>2, <1>3, <1>4, <1>5, <1>6, <1>7, <1>8, <1>9 DEF Statement

LEMMA Test5Kept ==
  ASSUME TypeInv, ProgramInv, Statement
  PROVE  Test5Inv'
  <1> USE DEF Goto, Call, Return, ProgramInv, LabelInv, Test5Inv, Calling,
              Statements, Main, Handling, Enabling, Disabling, Interrupted5
  <1>0. g \in Globals
    BY DEF TypeInv
  <1>1. CASE Test1 \/ Test2 \/ Test3
    BY <1>1 DEF Test1, Test2, Test3, EnableAll, ServeFrom
  <1>2. CASE Test5
    BY <1>0, <1>2 DEF Test5, EnableAll, mat_mult, Assign, Csrw, Writew, Nothing, Globals
  <1>3. CASE ServeNext
    BY <1>3, LoopLeaves DEF ServeNext, ServeFrom
  <1>4. CASE mstatus_enable \/ mstatus_disable
    BY <1>4, LoopLeaves DEF mstatus_enable, mstatus_disable
  <1>5. CASE FAST_IRQ_GENERIC
    <2>1. Main' = Main /\ ret' = ret /\ pc' \in Handling
      BY <1>5 DEF FAST_IRQ_GENERIC, AcknowledgeRnd, DisableAfterReturn, Assign, Csrw, Writew,
                  WriteMstatus
    <2> QED BY <1>5, <2>1, LoopLeaves
  <1>6. CASE Mret
    <2>1. Main' = Main /\ ret' = ret /\ pc' = mepc /\ pc \in Handling
      BY <1>6 DEF Mret, Csrw
    <2> QED BY <1>6, <2>1, LoopLeaves
  <1> QED BY <1>1, <1>2, <1>3, <1>4, <1>5, <1>6 DEF Statement

LEMMA NoErrorKept ==
  ASSUME TypeInv, ProgramInv, Statement
  PROVE  NoError'
  <1> USE DEF Goto, Call, Return, NoError
  <1>0. g \in Globals /\ g.code = 0
    BY DEF TypeInv, ProgramInv
  <1>1. CASE Test1 \/ Test2
    BY <1>0, <1>1 DEF Test1, Test2, EnableAll, ServeFrom, Assign, Csrw, Writew, Globals
  <1>2. CASE Test3
    <2>1. pc = "t3_final" =>
            g.irq_pending32_std = g.first_irq_pending32_std \ g.ie_mask32_std
      BY DEF ProgramInv, Test3Inv
    <2>2. CASE pc = "t3_final"
      BY <1>0, <1>2, <2>1, <2>2 DEF Test3, ServeFrom, Nothing
    <2>3. CASE pc \in {"t3_mask", "t3_pending"}
      BY <1>0, <1>2, <2>3 DEF Test3, ServeFrom, Assign, Globals
    <2>4. CASE pc \notin {"t3_final", "t3_mask", "t3_pending"}
      BY <1>0, <1>2, <2>4 DEF Test3, ServeFrom, Assign, Csrw, Writew, Globals
    <2> QED BY <2>2, <2>3, <2>4
  <1>3. CASE Test5
    BY <1>0, <1>3 DEF Test5, EnableAll, mat_mult, Assign, Csrw, Writew, Nothing, Globals,
                      ProgramInv, Test5Inv
  <1>4. CASE ServeNext \/ mstatus_enable \/ mstatus_disable \/ FAST_IRQ_GENERIC \/ Mret
    BY <1>0, <1>4, LoopLeaves
  <1> QED BY <1>1, <1>2, <1>3, <1>4 DEF Statement

LEMMA Test3Kept ==
  ASSUME TypeInv, ProgramInv, Statement
  PROVE  Test3Inv'
  <1> USE DEF Goto, Call, Return, ProgramInv, LabelInv, Test3Inv, InTest3, Calling, Serving,
              Statements, Main, Handling, Enabling, Disabling, Interrupted5
  <1>0. /\ g \in Globals /\ csr \in [MIE : BOOLEAN, MPIE : BOOLEAN, mie : Words]
        /\ reg \in [mode : Nat, lines : SUBSET Bits] /\ Words \subseteq SUBSET Bits
        /\ random_words \subseteq Words
    BY DEF TypeInv, Words, Implemented, random_words
  <1>1. CASE Test1
    BY <1>0, <1>1 DEF Test1, EnableAll, Assign, Csrw, Writew, Globals
  <1>2. CASE Test2
    <2>1. CASE pc = "t2_write"
      <3>1. pc' \in {"sample", "t3_reset"} /\ test' = 2 /\ g' = g
        BY <1>2, <2>1 DEF Test2, EnableAll, ServeFrom, Writew
      <3> QED BY <2>1, <3>1
    <2> QED BY <1>0, <1>2, <2>1 DEF Test2, EnableAll, ServeFrom, Assign, Csrw, Globals
  <1>3. CASE Test3
    <2>1. CASE pc = "t3_reset"
      BY <1>0, <1>3, <2>1 DEF Test3, ServeFrom, Assign, Globals
    <2>2. CASE pc = "t3_mask"
      <3>1. PICK w \in random_words : Assign([g EXCEPT !.ie_mask32_std = w]) /\ pc' = "t3_mie"
        BY <1>3, <2>2 DEF Test3, ServeFrom
      <3>2. g'.ie_mask32_std = w /\ g'.irq_to_test32_std = g.irq_to_test32_std
        BY <1>0, <3>1 DEF Assign, Globals
      <3> QED BY <1>0, <2>2, <3>1, <3>2
    <2>3. CASE pc = "t3_mie"
      BY <1>0, <1>3, <2>3 DEF Test3, ServeFrom, Csrw
    <2>4. CASE pc = "t3_pending"
      <3>1. PICK w \in random_words :
              Assign([g EXCEPT !.irq_pending32_std = w]) /\ pc' = "t3_first"
        BY <1>3, <2>4 DEF Test3, ServeFrom
      <3>2. /\ g'.irq_pending32_std = w /\ g'.irq_to_test32_std = g.irq_to_test32_std
            /\ g'.ie_mask32_std = g.ie_mask32_std /\ csr' = csr
        BY <1>0, <3>1 DEF Assign, Globals
      <3> QED BY <1>0, <2>4, <3>1, <3>2
    <2>5. CASE pc = "t3_first"
      BY <1>0, <1>3, <2>5 DEF Test3, ServeFrom, Assign, Globals
    <2>6. CASE pc = "t3_test"
      <3>1. /\ pc' = "dis_csrr" /\ ret' = "t3_write" /\ csr' = csr
            /\ g' = [g EXCEPT !.irq_to_test32_std =
                       @ \cup (g.first_irq_pending32_std \cap g.ie_mask32_std)]
        BY <1>3, <2>6 DEF Test3, ServeFrom, Assign, to_test
      <3>2. /\ g'.irq_to_test32_std = g.first_irq_pending32_std \cap g.ie_mask32_std
            /\ g'.irq_pending32_std = g.irq_pending32_std
            /\ g'.first_irq_pending32_std = g.first_irq_pending32_std
            /\ g'.ie_mask32_std = g.ie_mask32_std
        BY <1>0, <2>6, <3>1 DEF Globals
      <3> QED BY <2>6, <3>1, <3>2
    <2>7. CASE pc = "t3_write"
      <3>1. /\ ServeFrom("t3_write", 3, 1) /\ g' = g /\ csr' = csr
            /\ reg'.lines = g.irq_pending32_std
        BY <1>0, <1>3, <2>7 DEF Test3, ServeFrom, Writew
      <3>2. pc' \in {"sample", "t3_final"} /\ test' = 3
        BY <3>1 DEF ServeFrom
      <3>3. CASE pc' = "t3_final"
        <4>1. Todo(3, 1) = {}
          BY <3>1, <3>3, Priorities, ServeFromStep
        <4>2. Todo(3, 1) = g.irq_to_test32_std
          <5>1. g.irq_to_test32_std \in Words
            BY <2>7 DEF Words
          <5> QED BY <5>1, TodoAll DEF Todo
        <4>3. g.first_irq_pending32_std = g.first_irq_pending32_std \ g.ie_mask32_std
          BY <2>7, <4>1, <4>2
        <4> QED BY <2>7, <3>1, <3>3, <4>3
      <3>4. CASE pc' = "sample"
        BY <2>7, <3>1, <3>2, <3>4
      <3> QED BY <3>2, <3>3, <3>4
    <2>8. CASE pc = "t3_final"
      BY <1>0, <1>3, <2>8 DEF Test3, ServeFrom, Assign, Nothing, NoError
    <2> QED BY <1>3, <2>1, <2>2, <2>3, <2>4, <2>5, <2>6, <2>7, <2>8 DEF Test3, ServeFrom
  <1>4. CASE Test5
    BY <1>4 DEF Test5, EnableAll, mat_mult
  <1>5. CASE ServeNext
    <2>1. /\ csr'.mie = csr.mie /\ g'.ie_mask32_std = g.ie_mask32_std
          /\ g'.first_irq_pending32_std = g.first_irq_pending32_std
          /\ g'.irq_to_test32_std = g.irq_to_test32_std
          /\ g'.irq_pending32_std = g.irq_pending32_std
          /\ test' = test /\ reg' = reg
      BY <1>5, LoopLeaves DEF ServeNext, ServeFrom, Assign, Nothing
    <2>2. CASE pc \in {"sample", "wait"}
      BY <1>5, <2>1, <2>2 DEF ServeNext, ServeFrom
    <2>3. CASE pc = "check"
      <3>1. /\ Served /\ Serving /\ test \in {2, 3} /\ IRQ_ID_PRIORITY[i] = g.irq_id
            /\ reg.lines \cap csr.mie = Todo(test, i + 1)
            /\ g.irq_pending32_std = reg.lines
        BY <2>3 DEF ServeInv, Served
      <3>2. ServeFrom("check", test, i + 1)
        BY <1>5, <2>3, <3>1 DEF ServeNext
      <3>3. i + 1 \in 1 .. IRQ_NUM + 1
        BY Priorities DEF TypeInv
      <3>4. \/ pc' = "sample"
            \/ /\ pc' = (IF test = 2 THEN "t3_reset" ELSE "t3_final")
               /\ Todo(test, i + 1) = {}
        BY <3>2, <3>3, ServeFromStep
      <3>5. CASE pc' = "sample"
        BY <2>1, <2>3, <3>5
      <3>6. CASE pc' = "t3_reset" /\ test = 2
        BY <2>1, <2>3, <3>6
      <3>7. CASE pc' = "t3_final" /\ test = 3 /\ Todo(test, i + 1) = {}
        <4>1. reg.lines = g.first_irq_pending32_std \ g.ie_mask32_std
          BY <2>3, <3>1, <3>7
        <4> QED BY <2>1, <2>3, <3>1, <3>7, <4>1
      <3> QED BY <3>1, <3>4, <3>5, <3>6, <3>7
    <2> QED BY <1>5, <2>2, <2>3 DEF ServeNext, ServeFrom
  <1>6. CASE mstatus_enable
    BY <1>6, LoopLeaves DEF mstatus_enable
  <1>7. CASE mstatus_disable
    BY <1>7, LoopLeaves DEF mstatus_disable
  <1>8. CASE FAST_IRQ_GENERIC
    <2>1. /\ Main' = Main /\ ret' = ret /\ mepc' = mepc
          /\ pc \in Handling /\ pc' \in Handling
      BY <1>8 DEF FAST_IRQ_GENERIC, AcknowledgeRnd, DisableAfterReturn, Assign, Csrw, Writew,
                  WriteMstatus
    <2>2. Serving /\ test = 3 =>
            reg'.lines \ g.ie_mask32_std = g.first_irq_pending32_std \ g.ie_mask32_std
      <3>1. CASE pc = "h_write" /\ Serving /\ test = 3
        <4>1. /\ reg'.lines = g.irq_pending32_std
              /\ g.irq_pending32_std = reg.lines \ {g.irq_id} /\ g.irq_id = IRQ_ID_PRIORITY[i]
              /\ i \in NextIrq(test, i, g.irq_to_test32_std)
              /\ reg.lines \cap csr.mie = Todo(test, i) /\ csr.mie = g.ie_mask32_std
          BY <1>0, <1>8, <3>1 DEF FAST_IRQ_GENERIC, AcknowledgeRnd, DisableAfterReturn, Writew,
                                  ServeInv, Served
        <4>2. g.irq_id \in g.ie_mask32_std
          BY <4>1 DEF Todo
        <4> QED BY <3>1, <4>1, <4>2
      <3>2. CASE pc # "h_write" /\ Serving /\ test = 3
        <4>1. pc \notin {"h_std_w", "h_rnd_w"}
          <5>1. ~Interrupted5
            BY <3>2, <2>1
          <5> QED BY <5>1
        <4>2. reg' = reg
          BY <1>8, <3>2, <4>1 DEF FAST_IRQ_GENERIC, AcknowledgeRnd, DisableAfterReturn, Assign,
               Csrw, WriteMstatus
        <4> QED BY <3>2, <4>2
      <3> QED BY <3>1, <3>2
    <2> QED BY <1>8, <2>1, <2>2, LoopLeaves
  <1>9. CASE Mret
    <2>1. Main' = Main /\ ret' = ret /\ pc' = mepc /\ pc \in Handling /\ reg' = reg
      BY <1>9 DEF Mret, Csrw
    <2> QED BY <1>9, <2>1, LoopLeaves
  <1> QED BY <1>1, <1>2, <1>3, <1>4, <1>5, <1>6, <1>7, <1>8, <1>9 DEF Statement

LEMMA StatementKeeps ==
  ASSUME TypeInv, ProgramInv, Statement
  PROVE  ProgramInv'
  BY LabelsKept, EnableKept, ModesKept, ServeKept, Test2Kept, Test3Kept, QuietKept, Test5Kept,
     NoErrorKept DEF ProgramInv

LEMMA StallKeeps ==
  ASSUME ProgramInv, Stall
  PROVE  ProgramInv'
  <1> USE DEF Stall, progVars, Main, Serving, Served, Calling, Interrupted5, InTest5
  <1>1. LabelInv' /\ EnableInv' /\ NoError' /\ Test5Inv' /\ QuietInv'
    BY DEF ProgramInv, LabelInv, EnableInv, NoError, Test5Inv, QuietInv
  <1>2. ModeInv'
    BY DEF ProgramInv, ModeInv, Stage
  <1>3. ServeInv'
    BY DEF ProgramInv, ServeInv, Todo
  <1>4. Test2Inv' /\ Test3Inv'
    BY DEF ProgramInv, Test2Inv, Test3Inv, InTest2, InTest3
  <1> QED BY <1>1, <1>2, <1>3, <1>4 DEF ProgramInv

(* The core takes an interrupt that is raised.                             *)
LEMMA TakesRaised ==
  ASSUME NEW w \in Words, w # {}
  PROVE  irq_id(w) \in w
  <1> DEFINE S == {k \in 1 .. IRQ_NUM : IRQ_ID_PRIORITY[k] \in w}
  <1>1. S # {} /\ S \in SUBSET (1 .. IRQ_NUM)
    BY Places DEF Words
  <1>2. Min(S) \in S /\ \A k \in S : Min(S) <= k
    <2> HIDE DEF S
    <2> QED BY <1>1, FirstPlace
  <1>3. PICK k \in 1 .. IRQ_NUM : /\ IRQ_ID_PRIORITY[k] \in w
                                  /\ \A j \in 1 .. IRQ_NUM : IRQ_ID_PRIORITY[j] \in w => k <= j
    BY <1>2
  <1> QED BY <1>3, HighestFirst

(* What an interrupt in the wait of tests 2 and 3 finds.                   *)
LEMMA TakenInTurn ==
  ASSUME TypeInv, ProgramInv, GeneratorInv, irq_req, pc = "wait"
  PROVE  /\ ~Served /\ Stage = "sd" /\ irq_q = Lines /\ irq_q # {}
         /\ irq_id(irq_q \cap csr.mie) = IRQ_ID_PRIORITY[i]
         /\ IRQ_ID_PRIORITY[i] \in Implemented
  <1>1. ~Served
    BY DEF irq_req, ProgramInv, EnableInv, Interrupted5, Main, Calling, Handling, Disabling
  <1>2. Stage = "sd"
    BY DEF Stage, Disabling
  <1>3. irq_q = Lines /\ irq_q # {}
    BY <1>2 DEF GeneratorInv, Rising, irq_req
  <1>4. csr.mie \in Words /\ irq_q \in Words
    BY DEF TypeInv
  <1>5. Serving
    BY DEF Serving, Main, Handling
  <1>6. /\ i \in NextIrq(test, i, g.irq_to_test32_std) /\ i \in 1 .. IRQ_NUM
        /\ reg.lines \cap csr.mie = Todo(test, i)
    BY <1>1, <1>5 DEF ProgramInv, ServeInv, TypeInv
  <1>7. irq_q \cap csr.mie = Todo(test, i) /\ Todo(test, i) \in Words
    BY <1>3, <1>4, <1>6 DEF Lines, Words
  <1>8. IRQ_ID_PRIORITY[i] \in Todo(test, i)
    BY <1>6 DEF Todo
  <1>9. \A j \in 1 .. IRQ_NUM : IRQ_ID_PRIORITY[j] \in Todo(test, i) => i <= j
    <2> SUFFICES ASSUME NEW j \in 1 .. IRQ_NUM, IRQ_ID_PRIORITY[j] \in Todo(test, i)
                 PROVE  i <= j
      OBVIOUS
    <2>1. PICK k \in NextIrq(test, i, g.irq_to_test32_std) : IRQ_ID_PRIORITY[k] = IRQ_ID_PRIORITY[j]
      BY DEF Todo
    <2>2. k \in i .. IRQ_NUM
      BY <2>1 DEF NextIrq
    <2>3. k \in 1 .. IRQ_NUM /\ i <= k
      BY <1>6, <2>2, Priorities
    <2>4. k = j
      BY <2>1, <2>3, Places
    <2> QED BY <2>3, <2>4
  <1>10. irq_id(Todo(test, i)) = IRQ_ID_PRIORITY[i]
    BY <1>6, <1>7, <1>8, <1>9, HighestFirst
  <1> QED BY <1>1, <1>2, <1>3, <1>7, <1>8, <1>10 DEF Words

LEMMA TakeTypes ==
  ASSUME TypeInv, TakeIrq
  PROVE  /\ i' \in 1 .. IRQ_NUM /\ handler' \in Nat
         /\ g' \in Globals
         /\ csr' \in [MIE : BOOLEAN, MPIE : BOOLEAN, mie : Words]
         /\ reg' \in [mode : Nat, lines : SUBSET Bits]
  <1>1. irq_q \cap csr.mie \in Words /\ irq_q \cap csr.mie # {}
    BY DEF TypeInv, TakeIrq, irq_req, Words
  <1>2. irq_id(irq_q \cap csr.mie) \in Implemented
    BY <1>1, TakesRaised DEF Words
  <1>3. handler' \in Nat
    BY <1>2 DEF TakeIrq, vector_table, Implemented
  <1>4. csr' \in [MIE : BOOLEAN, MPIE : BOOLEAN, mie : Words]
    BY DEF TypeInv, TakeIrq
  <1> QED BY <1>3, <1>4 DEF TakeIrq, TypeInv

LEMMA TakeKeeps ==
  ASSUME TypeInv, ProgramInv, GeneratorInv, TakeIrq
  PROVE  ProgramInv'
  <1>0. /\ csr.MIE /\ csr' = [csr EXCEPT !.MPIE = csr.MIE, !.MIE = FALSE]
        /\ mepc' = pc /\ pc' = "h_id" /\ ret' = ret /\ test' = test /\ i' = i
        /\ g' = g /\ reg' = reg
        /\ csr \in [MIE : BOOLEAN, MPIE : BOOLEAN, mie : Words]
    BY DEF TakeIrq, irq_req, TypeInv
  <1>1. csr'.mie = csr.mie /\ ~csr'.MIE
    BY <1>0
  <1>2. pc \notin Handling /\ ((pc = "wait" /\ ~Served) \/ Interrupted5)
    BY <1>0 DEF ProgramInv, EnableInv, Handling
  <1>3. Main' = Main /\ Main = pc
    BY <1>0, <1>2 DEF Main, Handling
  <1>4. /\ Serving' = Serving /\ Interrupted5' = Interrupted5 /\ InTest5' = InTest5
        /\ \A back : Calling(back)' = Calling(back)
        /\ ~Served'
    BY <1>0, <1>3 DEF Serving, Interrupted5, InTest5, Calling, Served
  <1>5. LabelInv' /\ EnableInv'
    BY <1>0, <1>1, <1>2, <1>3, <1>4
       DEF ProgramInv, LabelInv, EnableInv, Handling, Disabling, Interrupted5, Calling
  <1>6. Interrupted5 => Main \in {"mat"} \cup Disabling
    BY DEF Interrupted5, Calling
  <1>7. ModeInv'
    <2>1. reg'.mode = reg.mode /\ g'.irq_mode = g.irq_mode /\ g'.irq_served = g.irq_served
      BY <1>0
    <2>2. CASE pc = "wait"
      BY <1>0, <1>4, <2>1, <2>2 DEF ProgramInv, ModeInv, Stage, Disabling
    <2>3. CASE Interrupted5 /\ pc # "wait"
      <3>1. Stage' = "word" /\ InTest5
        BY <1>0, <2>3 DEF Stage, InTest5, Disabling
      <3>2. pc \notin {"t1_mask", "t1_mie", "t1_mode", "h_rnd", "h_rnd_w", "h_std_w"}
        BY <1>3, <1>6, <2>3 DEF Disabling
      <3> QED BY <1>0, <1>4, <2>1, <3>1, <3>2 DEF ProgramInv, ModeInv
    <2> QED BY <1>2, <2>2, <2>3
  <1>8. ServeInv'
    <2> SUFFICES ASSUME Serving' PROVE ServeInv'
      BY DEF ServeInv
    <2>1. Serving /\ pc = "wait" /\ ~Served
      BY <1>2, <1>3, <1>4, <1>6 DEF Serving, Interrupted5, Calling, Disabling, Enabling
    <2>2. handler' = IRQ_ID_PRIORITY[i]
      BY <2>1, TakenInTurn DEF TakeIrq, vector_table
    <2>3. {IRQ_ID_PRIORITY[k] : k \in NextIrq(test', i', g'.irq_to_test32_std)} = Todo(test, i)
      BY <1>0 DEF Todo
    <2> QED BY <1>0, <1>1, <1>4, <2>1, <2>2, <2>3 DEF ProgramInv, ServeInv, Todo
  <1>9. Test2Inv' /\ Test3Inv' /\ QuietInv' /\ Test5Inv' /\ NoError'
    BY <1>0, <1>1, <1>4 DEF ProgramInv, Test2Inv, Test3Inv, QuietInv, Test5Inv, NoError,
       InTest2, InTest3
  <1> QED BY <1>5, <1>7, <1>8, <1>9 DEF ProgramInv

-----------------------------------------------------------------------------
(* The clock edge                                                          *)

LEMMA EdgeTypes ==
  ASSUME TypeInv, GeneratorEdge
  PROVE  /\ irq_q' \in Words /\ irq_lines_q' \in Words /\ irq_sd_lines' \in Words
         /\ irq_rnd_lines' \in Words /\ words' \in Nat
         /\ irq_mode_q' = reg.mode /\ irq_q' = irq_lines_q
  <1> USE DEF TypeInv, Words
  <1>1. irq_sd_lines' \in Words /\ irq_mode_q' = reg.mode /\ irq_q' = irq_lines_q
    BY DEF GeneratorEdge, SdProcess
  <1>2. PICK driven \in RandWords \cup {irq_rnd_lines} :
          /\ RndProcess(driven)
          /\ \/ irq_lines_q' = irq_lines_n(irq_sd_lines, irq_rnd_lines)
             \/ irq_lines_q' = irq_lines_n(irq_sd_lines', driven)
    BY DEF GeneratorEdge
  <1>3. driven \in Words
    BY <1>2 DEF RandWords
  <1>4. irq_rnd_lines' \in Words /\ words' \in Nat
    BY <1>2, <1>3 DEF RndProcess
  <1>5. irq_lines_q' \in Words
    BY <1>1, <1>2, <1>3 DEF irq_lines_n
  <1> QED BY <1>1, <1>4, <1>5

(* A word written takes one edge from the process to irq_lines_q, or none. *)
LEMMA SdEdge ==
  ASSUME GeneratorEdge, irq_mode_q = SOFTWARE_DEFINED, sd \in {"edge", "sample"}
  PROVE  /\ irq_sd_lines' = IF sd = "sample" THEN Lines ELSE irq_sd_lines
         /\ sd' = IF reg.lines # {} THEN "sample" ELSE "edge"
         /\ irq_lines_q' \in {irq_sd_lines, irq_sd_lines'}
  <1>1. /\ irq_sd_lines' = IF sd = "sample" THEN Lines ELSE irq_sd_lines
        /\ sd' = IF reg.lines # {} THEN "sample" ELSE "edge"
    BY DEF GeneratorEdge, SdProcess, Lines
  <1>2. PICK driven \in RandWords \cup {irq_rnd_lines} :
          \/ irq_lines_q' = irq_lines_n(irq_sd_lines, irq_rnd_lines)
          \/ irq_lines_q' = irq_lines_n(irq_sd_lines', driven)
    BY DEF GeneratorEdge
  <1> QED BY <1>1, <1>2 DEF irq_lines_n, SOFTWARE_DEFINED, RANDOM

LEMMA RisingEdge ==
  ASSUME GeneratorEdge, irq_mode_q = SOFTWARE_DEFINED, sd \in {"edge", "sample"}, Rising,
         irq_q' = irq_lines_q, reg'.lines = reg.lines \/ Lines = {}
  PROVE  Rising'
  <1>1. irq_sd_lines' \in {{}, Lines} /\ (sd' # "sample" => irq_sd_lines' = {})
    BY SdEdge DEF Rising, Lines
  <1>2. irq_sd_lines # {} => sd = "sample"
    BY DEF Rising
  <1>3. irq_lines_q' \in {{}, Lines} /\ (irq_lines_q' # {} => irq_sd_lines' = Lines)
    BY <1>1, <1>2, SdEdge DEF Rising
  <1>4. irq_q' # {} => irq_lines_q' = Lines
    BY <1>2, SdEdge DEF Rising
  <1>5. Lines' = Lines \/ Lines = {}
    BY DEF Lines
  <1> QED BY <1>1, <1>3, <1>4, <1>5 DEF Rising

LEMMA SampledEdge ==
  ASSUME GeneratorEdge, irq_mode_q = SOFTWARE_DEFINED, sd \in {"edge", "sample"},
         sd = "sample" \/ Sampled, reg'.lines = reg.lines
  PROVE  Sampled'
  <1>1. Lines' = Lines /\ (reg.lines = {} => Lines = {})
    BY DEF Lines
  <1> QED BY <1>1, SdEdge DEF Sampled

LEMMA NoWordEdge ==
  ASSUME GeneratorEdge, NoWord, irq_mode_q # RANDOM, reg.mode # RANDOM,
         g'.irq_served = g.irq_served
  PROVE  NoWord'
  <1>1. PICK driven : RndProcess(driven)
    BY DEF GeneratorEdge
  <1>2. irq_mode_q' # RANDOM
    BY DEF GeneratorEdge
  <1> QED BY <1>1, <1>2 DEF NoWord, RndProcess

(* In RANDOM mode a new word is driven only when the last was counted.     *)
LEMMA RandomEdge ==
  ASSUME TypeInv, GeneratorEdge, irq_mode_q # STANDARD, reg.mode = RANDOM, WordInv
  PROVE  /\ rnd' \in {"idle", "count", "drive"}
         /\ IF rnd' = "drive" THEN words' = g.irq_served + 1
                              ELSE words' = g.irq_served /\ irq_rnd_lines' = {}
         /\ rnd = "drive" => rnd' = "drive"
         /\ irq_mode_q = RANDOM /\ irq_lines_q' # {} => rnd' = "drive"
  <1>1. PICK driven \in RandWords \cup {irq_rnd_lines} :
          /\ RndProcess(driven)
          /\ \/ irq_lines_q' = irq_lines_n(irq_sd_lines, irq_rnd_lines)
             \/ irq_lines_q' = irq_lines_n(irq_sd_lines', driven)
    BY DEF GeneratorEdge
  <1>2. irq_mode_q' = RANDOM /\ RANDOM # STANDARD
    BY DEF GeneratorEdge, RANDOM, STANDARD
  <1>3. STANDARD \notin {irq_mode_q, irq_mode_q'}
    BY <1>2
  <1>4. /\ rnd' \in {"idle", "count", "drive"}
        /\ IF rnd' = "drive" THEN words' = g.irq_served + 1
                             ELSE words' = g.irq_served /\ irq_rnd_lines' = {}
        /\ rnd = "drive" => rnd' = "drive"
        /\ driven # {} => rnd' = "drive"
    BY <1>1, <1>2, <1>3 DEF RndProcess, WordInv
  <1>5. irq_mode_q = RANDOM => irq_lines_q' \in {irq_rnd_lines, driven}
    BY <1>1 DEF irq_lines_n, RANDOM, SOFTWARE_DEFINED
  <1>6. irq_rnd_lines # {} => rnd = "drive"
    BY DEF WordInv
  <1> QED BY <1>4, <1>5, <1>6

(* A word is driven until the mode is STANDARD.                            *)
LEMMA DriveEdge ==
  ASSUME GeneratorEdge, rnd = "drive"
  PROVE  /\ words' = words
         /\ reg.mode # STANDARD => rnd' = "drive"
         /\ reg.mode = STANDARD => rnd' = "idle" /\ irq_rnd_lines' = {}
  <1>1. PICK driven : RndProcess(driven)
    BY DEF GeneratorEdge
  <1>2. irq_mode_q' = reg.mode
    BY DEF GeneratorEdge
  <1> QED BY <1>1, <1>2 DEF RndProcess

-----------------------------------------------------------------------------
(* The stages                                                              *)

(* The mode and the lines of a stage.                                      *)
LEMMA StageMode ==
  ASSUME ProgramInv
  PROVE  /\ Stage = "reset" => reg.mode = 0
         /\ Stage \in {"starting", "sd", "taken", "written", "sampled", "lines"} =>
              reg.mode = SOFTWARE_DEFINED
         /\ Stage \in {"random", "random_mode", "random_lines", "running", "word", "counted",
                       "again"} => reg.mode = RANDOM
         /\ Stage \in {"stopping", "stopped"} => reg.mode = STANDARD
         /\ Stage \in {"reset", "starting"} => Lines = {}
  <1> USE DEF ProgramInv, LabelInv, Main, Handling, Statements, Enabling, Disabling,
              Calling, Interrupted5, InTest5, Stage
  <1>1. Stage \in {"reset", "starting"} => Lines = {}
    BY DEF QuietInv, Lines
  <1>2. Stage = "reset" => reg.mode = 0
    BY DEF ModeInv
  <1>3. Stage \in {"stopping", "stopped"} => reg.mode = STANDARD
    BY DEF ModeInv
  <1>4. Stage \in {"random", "random_mode", "random_lines", "running"} => reg.mode = RANDOM
    BY DEF ModeInv
  <1>5. Stage \in {"word", "counted", "again"} => reg.mode = RANDOM
    BY DEF ModeInv
  <1>6. Stage \in {"starting", "taken", "written", "sampled", "lines"} =>
          reg.mode = SOFTWARE_DEFINED
    BY DEF ModeInv
  <1>7. Stage = "sd" => reg.mode = SOFTWARE_DEFINED
    <2>1. CASE pc \in Handling
      BY <2>1 DEF ModeInv
    <2>2. CASE pc \notin Handling
      BY <2>2 DEF ModeInv
    <2> QED BY <2>1, <2>2
  <1> QED BY <1>1, <1>2, <1>3, <1>4, <1>5, <1>6, <1>7

(* Each statement stays in its stage, or goes to the next.                 *)
LEMMA StageStep ==
  ASSUME TypeInv, ProgramInv, Statement
  PROVE  \/ Stage' = "done"
         \/ Stage' = Stage /\ g'.irq_served = g.irq_served
         \/ /\ <<Stage, Stage'>> \in
                 {<<"reset", "starting">>, <<"starting", "sd">>, <<"taken", "written">>,
                  <<"written", "sampled">>, <<"sampled", "lines">>, <<"lines", "sd">>,
                  <<"sd", "random">>, <<"random", "random_mode">>,
                  <<"random_mode", "random_lines">>, <<"random_lines", "running">>,
                  <<"counted", "stopping">>, <<"stopping", "stopped">>,
                  <<"stopped", "again">>, <<"again", "running">>}
            /\ g'.irq_served = g.irq_served
         \/ Stage = "word" /\ Stage' = "counted" /\ g'.irq_served = g.irq_served + 1
  <1> USE DEF Goto, Call, Return, ProgramInv, LabelInv, Statements, Main, Handling,
              Enabling, Disabling, Calling, Interrupted5, Stage
  <1>0. g \in Globals
    BY DEF TypeInv
  <1>1. CASE Test1
    BY <1>0, <1>1 DEF Test1, EnableAll, Assign, Csrw, Writew, Globals
  <1>2. CASE Test2
    BY <1>0, <1>2 DEF Test2, EnableAll, ServeFrom, Assign, Csrw, Writew, Globals
  <1>3. CASE Test3
    <2>1. CASE pc \in {"t3_reset", "t3_mask", "t3_mie", "t3_pending", "t3_first", "t3_test"}
      <3>1. pc' \in {"t3_mask", "t3_mie", "t3_pending", "t3_first", "t3_test", "dis_csrr"}
            /\ (pc' = "dis_csrr" => ret' = "t3_write")
        BY <1>3, <2>1 DEF Test3, ServeFrom
      <3>2. g'.irq_served = g.irq_served
        BY <1>0, <1>3, <2>1 DEF Test3, ServeFrom, Assign, Csrw, Nothing, Globals
      <3> QED BY <2>1, <3>1, <3>2
    <2>2. CASE pc \in {"t3_write", "t3_final"}
      BY <1>0, <1>3, <2>2 DEF Test3, ServeFrom, Assign, Csrw, Writew, Nothing, Globals
    <2> QED BY <1>3, <2>1, <2>2 DEF Test3, ServeFrom
  <1>4. CASE Test5
    BY <1>0, <1>4 DEF Test5, EnableAll, mat_mult, Assign, Csrw, Writew, Nothing, Globals, ModeInv
  <1>5. CASE ServeNext
    BY <1>0, <1>5 DEF ServeNext, ServeFrom, Assign, Nothing, Globals
  <1>6. CASE mstatus_enable
    BY <1>0, <1>6 DEF mstatus_enable, Assign, Csrw, WriteMstatus, Globals
  <1>7. CASE mstatus_disable
    BY <1>0, <1>7 DEF mstatus_disable, Assign, Csrw, WriteMstatus, Globals
  <1>8. CASE FAST_IRQ_GENERIC
    BY <1>0, <1>8 DEF FAST_IRQ_GENERIC, AcknowledgeRnd, DisableAfterReturn, Assign, Csrw, Writew,
       WriteMstatus, Globals, IsRnd, ModeInv, InTest5, RANDOM
  <1>9. CASE Mret
    BY <1>9 DEF Mret, Csrw
  <1> QED BY <1>1, <1>2, <1>3, <1>4, <1>5, <1>6, <1>7, <1>8, <1>9 DEF Statement

(* Until test 5, only the handler writes the lines while some are raised.  *)
LEMMA LinesStep ==
  ASSUME TypeInv, ProgramInv, Statement, pc # "h_write"
  PROVE  reg'.lines = reg.lines \/ (pc \in {"t2_write", "t3_write"} /\ Lines = {})
  <1> USE DEF Goto, Call, Return
  <1>0. reg \in [mode : Nat, lines : SUBSET Bits]
    BY DEF TypeInv
  <1>1. CASE pc \in {"t2_write", "t3_write"}
    BY <1>1 DEF ProgramInv, QuietInv, Lines
  <1>2. CASE pc \notin {"t2_write", "t3_write"}
    <2>1. CASE Test1 \/ Test2 \/ Test3
      BY <1>0, <1>2, <2>1 DEF Test1, Test2, Test3, EnableAll, ServeFrom, Assign, Csrw, Writew,
         Nothing
    <2>2. CASE Test5 \/ ServeNext
      BY <1>0, <2>2 DEF Test5, EnableAll, mat_mult, ServeNext, Assign, Csrw, Writew, Nothing
    <2>3. CASE mstatus_enable \/ mstatus_disable \/ Mret
      BY <2>3 DEF mstatus_enable, mstatus_disable, Mret, Assign, Csrw, WriteMstatus
    <2>4. CASE FAST_IRQ_GENERIC
      BY <1>0, <2>4 DEF FAST_IRQ_GENERIC, AcknowledgeRnd, DisableAfterReturn, Assign, Csrw,
         Writew, WriteMstatus
    <2> QED BY <2>1, <2>2, <2>3, <2>4 DEF Statement
  <1> QED BY <1>1, <1>2

LEMMA GeneratorStatement ==
  ASSUME TypeInv, ProgramInv, GeneratorInv, GeneratorEdge,
         \/ Stage' = Stage /\ g'.irq_served = g.irq_served
         \/ /\ <<Stage, Stage'>> \in
                 {<<"reset", "starting">>, <<"starting", "sd">>, <<"taken", "written">>,
                  <<"written", "sampled">>, <<"sampled", "lines">>, <<"lines", "sd">>,
                  <<"sd", "random">>, <<"random", "random_mode">>,
                  <<"random_mode", "random_lines">>, <<"random_lines", "running">>,
                  <<"counted", "stopping">>, <<"stopping", "stopped">>,
                  <<"stopped", "again">>, <<"again", "running">>}
            /\ g'.irq_served = g.irq_served
         \/ Stage = "word" /\ Stage' = "counted" /\ g'.irq_served = g.irq_served + 1,
         Stage = "sd" \/ (Stage = "taken" /\ Stage' = "taken") =>
           reg'.lines = reg.lines \/ Lines = {},
         Stage \in {"written", "sampled", "lines"} => reg'.lines = reg.lines,
         Stage # "done"
  PROVE  GeneratorInv'
  <1> USE DEF RANDOM, STANDARD, SOFTWARE_DEFINED
  <1>0. irq_mode_q' = reg.mode /\ irq_q' = irq_lines_q /\ irq_lines_q \in Words
    BY EdgeTypes DEF TypeInv
  <1>1. CASE Stage = "reset"
    <2>1. irq_mode_q = 0 /\ sd = "wait" /\ Rising /\ NoWord /\ reg.mode = 0 /\ Lines = {}
      BY <1>1, StageMode DEF GeneratorInv
    <2>2. NoWord' /\ irq_mode_q' = 0
      BY <1>0, <1>1, <2>1, NoWordEdge
    <2>3. sd' = "wait" /\ irq_sd_lines' = {} /\ irq_lines_q' = {} /\ irq_q' = {}
      BY <1>0, <2>1, <2>2 DEF GeneratorEdge, SdProcess, SdWaits, irq_lines_n, Rising
    <2>4. Rising'
      BY <2>3 DEF Rising
    <2> QED BY <1>1, <2>2, <2>3, <2>4 DEF GeneratorInv
  <1>2. CASE Stage = "starting"
    <2>1. /\ irq_mode_q \in {0, SOFTWARE_DEFINED} /\ Rising /\ NoWord /\ Lines = {}
          /\ irq_mode_q = SOFTWARE_DEFINED => sd \in {"edge", "sample"}
          /\ irq_mode_q = 0 => sd = "wait"
          /\ reg.mode = SOFTWARE_DEFINED
      BY <1>2, StageMode DEF GeneratorInv
    <2>2. NoWord' /\ irq_mode_q' = SOFTWARE_DEFINED
      BY <1>0, <1>2, <2>1, NoWordEdge
    <2>3. irq_sd_lines = {} /\ irq_lines_q = {} /\ irq_q = {}
      BY <2>1 DEF Rising
    <2>4. sd' \in {"edge", "sample"} /\ irq_sd_lines' = {}
      BY <2>1, <2>2, <2>3 DEF GeneratorEdge, SdProcess, SdWaits, Lines
    <2>5. irq_lines_q' = {} /\ irq_q' = {}
      <3>1. CASE irq_mode_q = 0
        BY <1>0, <2>3, <3>1 DEF GeneratorEdge, irq_lines_n
      <3>2. CASE irq_mode_q = SOFTWARE_DEFINED
        BY <1>0, <2>1, <2>3, <2>4, <3>2, SdEdge
      <3> QED BY <2>1, <3>1, <3>2
    <2>6. Rising'
      BY <2>4, <2>5 DEF Rising
    <2> QED BY <1>2, <2>2, <2>4, <2>6 DEF GeneratorInv
  <1>3. CASE Stage \in {"sd", "taken", "written", "sampled", "lines"}
    <2>1. /\ irq_mode_q = SOFTWARE_DEFINED /\ sd \in {"edge", "sample"} /\ NoWord
          /\ Stage \in {"sd", "taken"} => Rising
          /\ Stage = "taken"   => irq_q # {}
          /\ Stage = "written" => sd = "sample" \/ Sampled
          /\ Stage = "sampled" => Sampled
          /\ Stage = "lines"   => Sampled /\ irq_lines_q = Lines
          /\ reg.mode = SOFTWARE_DEFINED
      BY <1>3, StageMode DEF GeneratorInv
    <2>2. NoWord' /\ irq_mode_q' = SOFTWARE_DEFINED /\ sd' \in {"edge", "sample"}
      BY <1>0, <1>3, <2>1, NoWordEdge, SdEdge
    <2>3. CASE Stage = "sd"
      <3>1. Rising'
        BY <1>0, <2>1, <2>3, RisingEdge
      <3>2. CASE Stage' = "sd"
        BY <2>2, <3>1, <3>2 DEF GeneratorInv
      <3>3. CASE Stage' = "random"
        BY <2>2, <3>3 DEF GeneratorInv, WordInv, NoWord
      <3> QED BY <2>3, <3>2, <3>3
    <2>4. CASE Stage = "taken"
      <3>1. sd = "sample" /\ reg.lines # {} /\ irq_lines_q # {}
        BY <2>1, <2>4 DEF Rising, Lines
      <3>2. sd' = "sample" /\ irq_q' # {}
        BY <1>0, <2>1, <3>1, SdEdge
      <3>3. CASE Stage' = "taken"
        <4>1. Rising'
          BY <1>0, <2>1, <2>4, <3>3, RisingEdge
        <4> QED BY <2>2, <3>2, <3>3, <4>1 DEF GeneratorInv
      <3>4. CASE Stage' = "written"
        BY <2>2, <3>2, <3>4 DEF GeneratorInv
      <3> QED BY <2>4, <3>3, <3>4
    <2>5. CASE Stage \in {"written", "sampled", "lines"}
      <3>1. Lines' = Lines /\ reg'.lines = reg.lines
        BY <2>5 DEF Lines
      <3>2. Sampled'
        BY <2>1, <2>5, <3>1, SampledEdge
      <3>3. Stage \in {"sampled", "lines"} => irq_lines_q' = Lines
        BY <2>1, <2>5, SdEdge DEF Sampled
      <3>4. CASE Stage' \in {"written", "sampled"}
        BY <2>2, <3>2, <3>4 DEF GeneratorInv
      <3>5. CASE Stage' = "lines"
        <4>1. Stage \in {"sampled", "lines"}
          BY <2>5, <3>5
        <4> QED BY <2>2, <3>1, <3>2, <3>3, <3>5, <4>1 DEF GeneratorInv
      <3>6. CASE Stage = "lines" /\ Stage' = "sd"
        <4>1. irq_q' = Lines' /\ irq_lines_q' = Lines' /\ irq_sd_lines' = Lines'
          BY <1>0, <2>1, <3>1, <3>2, <3>3, <3>6 DEF Sampled
        <4>2. Rising'
          BY <3>2, <4>1 DEF Rising, Sampled
        <4> QED BY <2>2, <3>6, <4>2 DEF GeneratorInv
      <3> QED BY <2>5, <3>4, <3>5, <3>6
    <2> QED BY <1>3, <2>3, <2>4, <2>5
  <1>4. CASE Stage \in {"random", "random_mode", "random_lines", "running"}
    <2>1. /\ WordInv /\ irq_mode_q # STANDARD /\ reg.mode = RANDOM
          /\ Stage # "random" => irq_mode_q = RANDOM
          /\ Stage \in {"random_lines", "running"} => LinesOfWord
          /\ Stage = "running" => IrqOfWord
      BY <1>4, StageMode DEF GeneratorInv
    <2>2. /\ rnd' \in {"idle", "count", "drive"}
          /\ IF rnd' = "drive" THEN words' = g.irq_served + 1
                               ELSE words' = g.irq_served /\ irq_rnd_lines' = {}
          /\ rnd = "drive" => rnd' = "drive"
          /\ irq_mode_q = RANDOM /\ irq_lines_q' # {} => rnd' = "drive"
      BY <2>1, RandomEdge
    <2>3. WordInv' /\ irq_mode_q' = RANDOM
      BY <1>0, <1>4, <2>1, <2>2 DEF WordInv
    <2>4. Stage # "random" => LinesOfWord'
      BY <2>1, <2>2 DEF LinesOfWord
    <2>5. Stage \in {"random_lines", "running"} => IrqOfWord'
      BY <1>0, <2>1, <2>2 DEF LinesOfWord, IrqOfWord
    <2> QED BY <1>4, <2>3, <2>4, <2>5 DEF GeneratorInv
  <1>5. CASE Stage = "word"
    <2>1. irq_mode_q = RANDOM /\ rnd = "drive" /\ words = g.irq_served + 1 /\ reg.mode = RANDOM
      BY <1>5, StageMode DEF GeneratorInv
    <2>2. irq_mode_q' = RANDOM /\ rnd' = "drive" /\ words' = words
      BY <1>0, <2>1, DriveEdge
    <2> QED BY <1>5, <2>1, <2>2 DEF GeneratorInv
  <1>6. CASE Stage = "counted"
    <2>1. irq_mode_q = RANDOM /\ rnd = "drive" /\ words = g.irq_served /\ reg.mode = RANDOM
      BY <1>6, StageMode DEF GeneratorInv
    <2>2. irq_mode_q' = RANDOM /\ rnd' = "drive" /\ words' = words
      BY <1>0, <2>1, DriveEdge
    <2> QED BY <1>6, <2>1, <2>2 DEF GeneratorInv
  <1>7. CASE Stage = "stopping"
    <2>1. /\ words = g.irq_served /\ reg.mode = STANDARD
          /\ \/ irq_mode_q = RANDOM /\ rnd = "drive"
             \/ irq_mode_q = STANDARD /\ NoWord
      BY <1>7, StageMode DEF GeneratorInv, NoWord
    <2>2. NoWord'
      <3>1. CASE rnd = "drive"
        BY <1>7, <2>1, <3>1, DriveEdge DEF NoWord
      <3>2. CASE irq_mode_q = STANDARD /\ NoWord
        BY <1>7, <2>1, <3>2, NoWordEdge
      <3> QED BY <2>1, <3>1, <3>2
    <2>3. irq_mode_q' = STANDARD
      BY <1>0, <2>1
    <2> QED BY <1>7, <2>2, <2>3 DEF GeneratorInv, NoWord
  <1>8. CASE Stage = "stopped"
    <2>1. irq_mode_q = STANDARD /\ NoWord /\ reg.mode = STANDARD
      BY <1>8, StageMode DEF GeneratorInv
    <2>2. NoWord' /\ irq_mode_q' = STANDARD
      BY <1>0, <1>8, <2>1, NoWordEdge
    <2>3. irq_lines_q' = {}
      BY <2>1 DEF GeneratorEdge, irq_lines_n
    <2> QED BY <1>8, <2>2, <2>3 DEF GeneratorInv
  <1>9. CASE Stage = "again"
    <2>1. reg.mode = RANDOM
      BY <1>9, StageMode
    <2>2. CASE irq_mode_q = STANDARD /\ NoWord /\ irq_lines_q = {}
      <3>1. PICK driven : RndProcess(driven)
        BY DEF GeneratorEdge
      <3>2. WordInv' /\ irq_mode_q' = RANDOM
        BY <1>0, <1>9, <2>1, <2>2, <3>1 DEF RndProcess, NoWord, WordInv
      <3>3. irq_lines_q' = {} /\ irq_q' = {}
        BY <1>0, <2>2 DEF GeneratorEdge, irq_lines_n
      <3> QED BY <1>9, <3>2, <3>3 DEF GeneratorInv, LinesOfWord, IrqOfWord
    <2>3. CASE irq_mode_q = RANDOM /\ WordInv /\ LinesOfWord /\ IrqOfWord
      <3>1. /\ rnd' \in {"idle", "count", "drive"}
            /\ IF rnd' = "drive" THEN words' = g.irq_served + 1
                                 ELSE words' = g.irq_served /\ irq_rnd_lines' = {}
            /\ rnd = "drive" => rnd' = "drive"
            /\ irq_lines_q' # {} => rnd' = "drive"
        BY <2>1, <2>3, RandomEdge
      <3>2. WordInv' /\ LinesOfWord' /\ IrqOfWord' /\ irq_mode_q' = RANDOM
        BY <1>0, <1>9, <2>1, <2>3, <3>1 DEF WordInv, LinesOfWord, IrqOfWord
      <3> QED BY <1>9, <3>2 DEF GeneratorInv
    <2> QED BY <1>9, <2>2, <2>3 DEF GeneratorInv
  <1>10. Stage \in {"reset", "starting", "sd", "taken", "written", "sampled", "lines", "random",
                   "random_mode", "random_lines", "running", "word", "counted", "stopping",
                   "stopped", "again", "done"}
    BY DEF Stage
  <1> QED BY <1>1, <1>2, <1>3, <1>4, <1>5, <1>6, <1>7, <1>8, <1>9, <1>10

LEMMA GeneratorTake ==
  ASSUME TypeInv, ProgramInv, GeneratorInv, GeneratorEdge, TakeIrq
  PROVE  GeneratorInv'
  <1> USE DEF RANDOM, STANDARD, SOFTWARE_DEFINED
  <1>0. /\ irq_mode_q' = reg.mode /\ irq_q' = irq_lines_q
        /\ pc' = "h_id" /\ mepc' = pc /\ g' = g /\ reg' = reg /\ irq_req
    BY EdgeTypes DEF TakeIrq
  <1>1. pc \notin Handling /\ (pc = "wait" \/ Interrupted5)
    BY <1>0 DEF irq_req, ProgramInv, EnableInv, Handling
  <1>2. CASE pc = "wait"
    <2>1. Stage = "sd" /\ irq_q # {}
      BY <1>0, <1>2, TakenInTurn
    <2>2. /\ irq_mode_q = SOFTWARE_DEFINED /\ sd \in {"edge", "sample"} /\ NoWord /\ Rising
          /\ reg.mode = SOFTWARE_DEFINED
      BY <2>1, StageMode DEF GeneratorInv
    <2>3. NoWord' /\ Rising' /\ irq_mode_q' = SOFTWARE_DEFINED /\ sd' \in {"edge", "sample"}
      BY <1>0, <2>2, NoWordEdge, RisingEdge, SdEdge
    <2>4. irq_q' # {}
      BY <1>0, <2>1, <2>2 DEF Rising
    <2>5. Stage' = "taken"
      BY <1>0, <1>2 DEF Stage, Disabling
    <2> QED BY <2>3, <2>4, <2>5 DEF GeneratorInv
  <1>3. CASE pc # "wait"
    <2>1. pc = "mat" \/ (pc \in Disabling /\ ret = "t5_print")
      BY <1>1, <1>3 DEF Interrupted5, Calling, Main
    <2>2. Stage = "running"
      BY <2>1 DEF Stage, Disabling
    <2>3. irq_mode_q = RANDOM /\ WordInv /\ IrqOfWord /\ reg.mode = RANDOM
      BY <2>2, StageMode DEF GeneratorInv
    <2>4. rnd = "drive" /\ words = g.irq_served + 1
      BY <1>0, <2>3 DEF irq_req, IrqOfWord, WordInv
    <2>5. rnd' = "drive" /\ words' = words /\ irq_mode_q' = RANDOM
      BY <1>0, <2>3, <2>4, DriveEdge
    <2>6. Stage' = "word"
      BY <1>0, <1>3 DEF Stage, Disabling
    <2> QED BY <1>0, <2>4, <2>5, <2>6 DEF GeneratorInv
  <1> QED BY <1>2, <1>3

LEMMA GeneratorKept ==
  ASSUME TypeInv, ProgramInv, GeneratorInv, GeneratorEdge, Statement \/ TakeIrq \/ Stall
  PROVE  GeneratorInv'
  <1>1. CASE Stage' = "done"
    BY <1>1 DEF GeneratorInv
  <1>2. CASE Stall
    <2>1. Stage' = Stage /\ g' = g /\ reg' = reg
      BY <1>2 DEF Stall, progVars, Stage
    <2> QED BY <1>1, <2>1, GeneratorStatement
  <1>3. CASE TakeIrq
    BY <1>3, GeneratorTake
  <1>4. CASE Statement /\ Stage' # "done"
    <2>1. Stage # "done"
      <3> SUFFICES ASSUME pc \in {"t5_print", "t5_check", "end"} PROVE Stage' = "done"
        BY <1>4 DEF Stage
      <3> QED BY <1>4 DEF Statement, Test1, Test2, Test3, Test5, ServeNext, ServeFrom, EnableAll,
           mat_mult, mstatus_enable, mstatus_disable, FAST_IRQ_GENERIC, AcknowledgeRnd,
           DisableAfterReturn, Mret, Goto, Call, Return, Stage
    <2>2. Stage \in {"written", "sampled", "lines"} => reg'.lines = reg.lines
      <3> SUFFICES ASSUME pc \in {"h_csrr", "h_and", "h_csrw"} PROVE reg'.lines = reg.lines
        BY DEF Stage
      <3> QED BY <1>4, LinesStep
    <2>3. Stage = "sd" \/ (Stage = "taken" /\ Stage' = "taken") =>
            reg'.lines = reg.lines \/ Lines = {}
      <3>1. Stage = "sd" => pc # "h_write"
        BY DEF Stage
      <3>2. pc = "h_write" => Stage' # "taken"
        <4> SUFFICES ASSUME pc = "h_write" PROVE pc' \in {"h_served", "h_csrr"}
          BY DEF Stage
        <4> QED BY <1>4 DEF Statement, Test1, Test2, Test3, Test5, ServeNext, ServeFrom, EnableAll,
             mat_mult, mstatus_enable, mstatus_disable, FAST_IRQ_GENERIC, AcknowledgeRnd,
             DisableAfterReturn, Mret, Goto, Call, Return
      <3> QED BY <1>4, <3>1, <3>2, LinesStep
    <2> QED BY <1>4, <2>1, <2>2, <2>3, StageStep, GeneratorStatement
  <1> QED BY <1>1, <1>2, <1>3, <1>4

-----------------------------------------------------------------------------
(* The theorems                                                            *)

LEMMA Initially ==
  ASSUME Init
  PROVE  IrqTestInv
  <1>1. TypeInv
    BY Priorities DEF Init, TypeInv, Globals, Words
  <1>2. ProgramInv
    BY DEF Init, ProgramInv, LabelInv, EnableInv, ModeInv, ServeInv, Test2Inv, Test3Inv, QuietInv,
       Test5Inv, NoError, InTest2, InTest3, InTest5, Interrupted5, Calling, Serving, Served, Main,
       Stage, Statements, Handling, Enabling, Disabling
  <1>3. GeneratorInv
    BY DEF Init, GeneratorInv, Stage, Rising, NoWord, Lines
  <1> QED BY <1>1, <1>2, <1>3 DEF IrqTestInv

LEMMA Inductive ==
  ASSUME IrqTestInv, [Next]_vars
  PROVE  IrqTestInv'
  <1>0. TypeInv /\ ProgramInv /\ GeneratorInv
    BY DEF IrqTestInv
  <1>1. CASE UNCHANGED vars
    <2>1. Stall /\ UNCHANGED genVars
      BY <1>1 DEF vars, Stall
    <2>2. TypeInv'
      BY <1>0, <2>1 DEF TypeInv, Stall, progVars, genVars
    <2>3. GeneratorInv'
      <3>1. Stage' = Stage /\ Lines' = Lines
        BY <2>1 DEF Stage, Stall, progVars, Lines
      <3> QED BY <1>0, <2>1, <3>1 DEF GeneratorInv, Stall, progVars, genVars, Rising, Sampled,
            NoWord, WordInv, LinesOfWord, IrqOfWord
    <2> QED BY <1>0, <2>1, <2>2, <2>3, StallKeeps DEF IrqTestInv
  <1>2. CASE Next
    <2>1. GeneratorEdge /\ (Statement \/ TakeIrq \/ Stall)
      BY <1>2 DEF Next, Execute, Interrupt, Wait
    <2>2. /\ i' \in 1 .. IRQ_NUM /\ handler' \in Nat /\ g' \in Globals
          /\ csr' \in [MIE : BOOLEAN, MPIE : BOOLEAN, mie : Words]
          /\ reg' \in [mode : Nat, lines : SUBSET Bits]
      <3>1. CASE Stall
        BY <1>0, <3>1 DEF TypeInv, Stall, progVars
      <3> QED BY <1>0, <2>1, <3>1, ProgramTypes, TakeTypes
    <2>3. TypeInv'
      BY <1>0, <2>1, <2>2, EdgeTypes DEF TypeInv
    <2>4. ProgramInv'
      BY <1>0, <2>1, StatementKeeps, TakeKeeps, StallKeeps
    <2>5. GeneratorInv'
      BY <1>0, <2>1, GeneratorKept
    <2> QED BY <2>3, <2>4, <2>5 DEF IrqTestInv
  <1> QED BY <1>1, <1>2

(* The program and the generator keep to their protocol: the invariant all *)
(* that follows rests on.                                                  *)
THEOREM KeepsProtocol == Spec => []IrqTestInv
  <1>1. Init => IrqTestInv
    BY Initially
  <1>2. IrqTestInv /\ [Next]_vars => IrqTestInv'
    BY Inductive
  <1> QED BY <1>1, <1>2, PTL DEF Spec

(* Tests 2, 3 and 5 find what they expect: each enabled interrupt is       *)
(* served, in its turn, and a masked one stays pending.                    *)
THEOREM TestsSucceed == Spec => []NoError
  <1>1. IrqTestInv => NoError
    BY DEF IrqTestInv, ProgramInv
  <1> QED BY <1>1, KeepsProtocol, PTL

(* Each interrupt taken is for a line not yet taken back, or for the random *)
(* word that was driven last and no handler has counted.                   *)
THEOREM TakenOnce == Spec => []ServedOnce
  <1>1. IrqTestInv => ServedOnce
    <2> SUFFICES ASSUME IrqTestInv, pc = "h_id"
                 PROVE  IF g.irq_mode = RANDOM THEN g.irq_served + 1 = words
                                               ELSE handler \in g.irq_pending32_std
      BY DEF ServedOnce
    <2>0. TypeInv /\ ProgramInv /\ GeneratorInv
      BY DEF IrqTestInv
    <2>1. mepc = "wait" \/ Interrupted5
      BY <2>0 DEF ProgramInv, LabelInv, Handling
    <2>2. CASE mepc = "wait"
      <3>1. Serving /\ ~Served /\ ~InTest5
        BY <2>2 DEF Serving, Served, InTest5, Interrupted5, Calling, Main, Handling, Enabling,
                    Disabling
      <3>2. g.irq_mode # RANDOM
        BY <2>0, <3>1 DEF ProgramInv, ModeInv, RANDOM
      <3>3. /\ i \in NextIrq(test, i, g.irq_to_test32_std) /\ handler = IRQ_ID_PRIORITY[i]
            /\ reg.lines \cap csr.mie = Todo(test, i) /\ g.irq_pending32_std = reg.lines
        BY <2>0, <3>1 DEF ProgramInv, ServeInv
      <3>4. handler \in Todo(test, i)
        BY <3>3 DEF Todo
      <3> QED BY <3>2, <3>3, <3>4
    <2>3. CASE mepc # "wait"
      <3>1. Stage = "word"
        BY <2>3 DEF Stage, Disabling
      <3>2. words = g.irq_served + 1
        BY <2>0, <3>1 DEF GeneratorInv
      <3>3. g.irq_mode = RANDOM
        BY <2>0, <2>1, <2>3 DEF ProgramInv, ModeInv, InTest5
      <3> QED BY <3>2, <3>3
    <2> QED BY <2>2, <2>3
  <1> QED BY <1>1, KeepsProtocol, PTL
=============================================================================
