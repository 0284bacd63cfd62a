----------------------------- MODULE Halfwords -----------------------------
(***************************************************************************)
(* Addresses of instructions: a 32-bit word and which half of it, pc[31:2] *)
(* and pc[1] of the code, and what finding an instruction there means.     *)
(***************************************************************************)
EXTENDS Integers

CONSTANT NumWords      \* words of the address space (2^30 in the code)

ASSUME HalfwordsAssumption == NumWords \in Nat /\ NumWords > 0

Word == 0 .. NumWords - 1
Half == [word : Word, hi : BOOLEAN]

NextWordPast(w) == w + 1    \* mutant: does not wrap around

NextWord(w) == (w + 1) % NumWords

Lo(w) == [word |-> w, hi |-> FALSE]
Hi(w) == [word |-> w, hi |-> TRUE]

Plus2(p) == IF p.hi THEN Lo(NextWord(p.word)) ELSE Hi(p.word)
Plus4(p) == [word |-> NextWord(p.word), hi |-> p.hi]

(* Whether a 32-bit instruction starts in a halfword: its two lowest bits  *)
(* are set.                                                                *)
Image == [Half -> BOOLEAN]

(* What the decoder makes of the 32 bits second : first: of a 16-bit       *)
(* instruction only the first half is used.                                *)
Decoded(mem, first, second) == IF mem[first] THEN <<first, second>> ELSE <<first>>

InstrAt(mem, p)    == Decoded(mem, p, Plus2(p))
InstrAfter(mem, p) == IF mem[p] THEN Plus4(p) ELSE Plus2(p)
=============================================================================
