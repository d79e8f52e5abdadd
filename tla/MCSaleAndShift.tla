-------------------------- MODULE MCSaleAndShift --------------------------
(***************************************************************************)
(* Two sales over two shifts of a register: cash and card, an income or a  *)
(* withdrawal, stock for one of the sales.  Sales, shifts and keys are     *)
(* interchangeable.                                                        *)
(***************************************************************************)
EXTENDS SaleAndShift, TLC

CONSTANTS s1, s2, h1, h2, k1, k2

Interchangeable ==
  Permutations({s1, s2}) \cup Permutations({h1, h2}) \cup Permutations({k1, k2})
===========================================================================
