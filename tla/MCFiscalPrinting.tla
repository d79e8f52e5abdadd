------------------------- MODULE MCFiscalPrinting -------------------------
(***************************************************************************)
(* Two sales and the requests that overlap over them: an invoice left half *)
(* way, its reconciliation, and the return of the other sale.              *)
(***************************************************************************)
EXTENDS FiscalPrinting, TLC

CONSTANTS s1, s2, f1, f2

Interchangeable == Permutations({s1, s2}) \cup Permutations({f1, f2})
===========================================================================
