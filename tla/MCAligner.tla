----------------------------- MODULE MCAligner -----------------------------
(***************************************************************************)
(* One of every set of programs that are the same up to where address 0 is *)
(* (the address space wraps around, and a redirect enters it anywhere).    *)
(***************************************************************************)
EXTENDS Aligner

Rotations(m) ==
  {[p \in Half |-> m[[p EXCEPT !.word = (@ + k) % NumWords]]] : k \in Word}

MCImages == {CHOOSE m \in Rotations(image) : TRUE : image \in Image}

MCInit == Init /\ mem \in MCImages

(* FairSpec from these programs *)
MCSpec == MCInit /\ [][Next]_vars /\ Fairness
=============================================================================
