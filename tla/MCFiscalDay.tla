---------------------------- MODULE MCFiscalDay ----------------------------
(***************************************************************************)
(* Two days of a terminal, four reports and two overlapping requests.      *)
(***************************************************************************)
EXTENDS FiscalDay, TLC

CONSTANTS d1, d2, k1, k2, k3, k4, f1, f2

Interchangeable ==
  Permutations({d1, d2}) \cup Permutations({k1, k2, k3, k4}) \cup Permutations({f1, f2})
=============================================================================
