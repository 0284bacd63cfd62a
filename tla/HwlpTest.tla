------------------------------- MODULE HwlpTest -------------------------------
(***************************************************************************)
(* The loops of example_tb/core/hwlp_test (hwlp.h, hwlp_test.c), one       *)
(* program per macro, between the traps and fences main() puts around it.  *)
(* n and m stand for the numbers of iterations of loop 1 and loop 0.       *)
(***************************************************************************)
EXTENDS HwLoops

Body(k) == [i \in 1 .. k |-> plain]

Test0(n) == <<ecall, setup(1, n, 4)>> \o Body(4) \o <<plain, ecall>>

(* HWLP_TEST2 is the same with larger counts. *)
Test1(n, m) == <<setup(1, n, 11)>> \o Body(4) \o <<setup(0, m, 3)>> \o Body(6) \o <<plain, ecall>>

Test3(n, m) == <<fencei, ecall>> \o Body(2) \o <<setup(1, n, 15)>> \o Body(5)
                 \o <<setup(0, m, 5)>> \o Body(9) \o Body(8) \o <<ecall, ecall>>

(* The smallest nested loops; HWLP_TEST6 is the same, with divisions. *)
Nested(n, m) == <<setup(1, n, 6), setup(0, m, 3)>> \o Body(5)

Test4(n, m) == <<plain>> \o Nested(n, m) \o <<plain, ecall>>

(* Loop 0 is set up in the body of loop 1, one register after the other,   *)
(* and ends two instructions before it.                                    *)
Test5(n, m) == Body(3) \o <<starti(1, 4), counti(1, n), endi(1, 25), starti(0, 13), plain,
                            counti(0, m), endi(0, 19)>> \o Body(9 + 9 + 2)
                 \o Body(6) \o Nested(m, n) \o Body(4) \o <<fencei>>

Interrupt0(n, m) == Body(4) \o Nested(n, m) \o <<plain>> \o Nested(n, m) \o <<plain>>

Interrupt1(n, m) ==
  Body(5) \o <<setup(1, n, 10), setup(0, m, 7), plain, plain, plain, csr, plain, csr, plain>>
  \o Body(2) \o <<plain, setup(1, n, 11), setup(0, m, 8), plain, plain, csr, plain, csr>>
  \o <<plain, plain, csr>> \o Body(2) \o <<plain>>

(* An illegal instruction before the last of the inner loop. *)
Interrupt2(n, m) ==
  Body(5) \o <<setup(1, n, 7), setup(0, m, 4), plain, plain, illegal, plain>> \o Body(2)
  \o <<plain>> \o Nested(n, m) \o <<plain>>

(* An illegal instruction at the end of the inner loop, which is left. *)
Interrupt3(n, m) ==
  Body(5) \o <<setup(1, n, 7), setup(0, m, 4), plain, plain, plain, illegal>> \o Body(2)
  \o <<plain>> \o Nested(n, m) \o <<plain>>

Interrupt4(n, m) == Body(7) \o <<setup(1, n, 10), setup(0, m, 4)>> \o Body(4 + 5)
                    \o <<setup(1, n, 11), setup(0, m, 5)>> \o Body(5 + 5) \o <<plain>>
=============================================================================
