------------------------------ MODULE MCHwLoops ------------------------------
EXTENDS HwlpTest

(* A loop that goes on twice, one that goes on once, one that ends.        *)
Iterations == {<<1, 1>>, <<1, 3>>, <<2, 1>>, <<2, 2>>, <<3, 1>>}

TestPrograms ==
  {Test0(n) : n \in 0 .. 3} \cup {Test4(0, 2), Test3(1, 2), Interrupt0(1, 2), Interrupt3(2, 2)}
  \cup UNION {LET n == i[1] m == i[2]
              IN  {Test1(n, m), Test4(n, m), Test5(n, m),
                   Interrupt1(n, m), Interrupt2(n, m), Interrupt4(n, m)} : i \in Iterations}

(* The states of the reference machine on its way through p: Stretch steps *)
(* at a time, as many as TLC evaluates in one go.                          *)
Stretch   == 20
Stretches == 8

From(p, m) ==
  LET after[k \in 0 .. Stretch] == IF k = 0 THEN m ELSE Step(p, after[k - 1])
  IN  {after[k] : k \in 0 .. Stretch}

Course(p) ==
  LET reached[k \in 0 .. Stretches] ==
        IF k = 0 THEN {Start} ELSE UNION {From(p, m) : m \in reached[k - 1]}
  IN  reached[Stretches]

(* The test programs obey the rules to their end, so that what is proved   *)
(* about programs that obey them is about the tests.                       *)
ASSUME TestsObeyRules ==
  \A p \in TestPrograms :
    /\ Obeys(p, Course(p))
    /\ \E m \in Course(p) : m.pc > Len(p)
=============================================================================
