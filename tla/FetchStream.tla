---------------------------- MODULE FetchStream ----------------------------
(***************************************************************************)
(* What the prefetcher promises the fetch stage: the words it delivers are *)
(* the consecutive words of the program, from the target of the last       *)
(* redirect on.  A hardware loop jump takes effect after one more word,    *)
(* the one of HWLP_END.                                                    *)
(***************************************************************************)
EXTENDS Integers

CONSTANT NumWords

Word == 0 .. NumWords - 1

VARIABLES next,   \* address of the word to be delivered next
          loop,   \* the pending loop start: {} or one address
          last    \* the word delivered last

streamVars == <<next, loop, last>>

Init == next = 0 /\ loop = {} /\ last = 0

Redirect(a) == next' = a /\ loop' = {} /\ UNCHANGED last

LoopJump(a) == loop = {} /\ loop' = {a} /\ UNCHANGED <<next, last>>

Deliver ==
  /\ last' = next
  /\ loop' = {}
  /\ IF loop = {} THEN next' = (next + 1) % NumWords ELSE next' \in loop

(* HWLP_END is delivered in the very cycle of the loop jump. *)
LoopDeliver(a) == loop = {} /\ last' = next /\ next' = a /\ UNCHANGED loop

Next == \/ \E a \in Word : Redirect(a) \/ LoopJump(a) \/ LoopDeliver(a)
        \/ Deliver

Spec == Init /\ [][Next]_streamVars
============================================================================
