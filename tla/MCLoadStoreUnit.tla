--------------------------- MODULE MCLoadStoreUnit ---------------------------
(* LoadStoreUnit on two words of memory. *)
EXTENDS LoadStoreUnit

Load(type, ext, base, off, useincr) ==
  [we |-> FALSE, type |-> type, ext |-> ext, base |-> base, off |-> off, useincr |-> useincr]

Store(type, base, off, useincr) ==
  [we |-> TRUE, type |-> type, ext |-> "zero", base |-> base, off |-> off, useincr |-> useincr]

(* Every alignment of words and halves, across the end of the address      *)
(* space too, every extension, with and without post-increment.            *)
MixedAccesses ==
  {Load("word", "zero", 0, 0, TRUE), Load("word", "zero", 1, 4, FALSE),
   Load("word", "sign", 6, 1, TRUE), Load("half", "sign", 1, 0, TRUE),
   Load("half", "ones", 3, 2, FALSE), Load("byte", "sign", 6, 0, TRUE),
   Store("word", 3, 4, FALSE), Store("half", 3, 0, TRUE), Store("byte", 1, 0, TRUE)}
=============================================================================
