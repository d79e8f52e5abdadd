----------------------- MODULE MCCatalogReferences -----------------------
(***************************************************************************)
(* Two products that exchange a barcode over one category and one unit,    *)
(* and one reference of each other kind.                                   *)
(***************************************************************************)
EXTENDS CatalogReferences, TLC

CONSTANTS c1, u1, cash, discount, rate, p1, p2, a, b, s, t

CatalogueSymmetry == Permutations({p1, p2}) \cup Permutations({a, b}) \cup Permutations({s, t})
=============================================================================
