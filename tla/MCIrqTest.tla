------------------------------ MODULE MCIrqTest ------------------------------
EXTENDS IrqTest

(* Two fast lines, one of them also raised at random, the three with       *)
(* priorities out of order, and a bit without a line.                      *)
SomeBits == {31, 16, 11, 7, 3, 0}
=============================================================================
