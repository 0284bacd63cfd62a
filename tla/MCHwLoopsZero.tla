---------------------------- MODULE MCHwLoopsZero ----------------------------
EXTENDS HwlpTest

(* A loop whose count is 0, so that its body is executed once, with a CSR  *)
(* access at every place of the body.                                      *)
ZeroPrograms ==
  {<<setup(1, 0, 4)>> \o [Body(4) EXCEPT ![k] = csr] \o <<plain>> : k \in 1 .. 4}
=============================================================================
