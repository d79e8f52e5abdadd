---------------------------- MODULE MCStoreStock ----------------------------
(***************************************************************************)
(* The stock of a product over four movements: two receipts that may name  *)
(* one document, a count and a sale, of either node.                       *)
(***************************************************************************)
EXTENDS StoreStock, TLC

CONSTANTS r1, r2, c1, s1

Interchangeable == Permutations({r1, r2})
=============================================================================
