---------------------- MODULE MCCoordinatedOperation ----------------------
(***************************************************************************)
(* A purchase (fact 1, one unit in) and a count (fact 2, two units out) of *)
(* a terminal, and a receipt of goods of another one (fact 3), which named *)
(* its own item for the product.  The coordinator has no item: the first   *)
(* receipt decides it, the other is contradicted, and the count becomes a  *)
(* discrepancy or is contradicted with its terminal's item.                *)
(***************************************************************************)
EXTENDS CoordinatedOperation

CONSTANTS receipt, count, other, i1, i2, purchase, approval, w1, none

Facts == 1..3
Owners == <<receipt, count, other>>
Versions == <<1, 1, 1>>
NoDependencies == <<{}, {}, {}>>
NotProjected == <<"none", "none", "none">>
Units == <<-1, 2, -1>>
ItemNames == <<i1, i1, i2>>
Inventory == [e \in Facts |-> {"INVENTORY_AUTHORITY"}]

Evidence == [o \in {purchase, approval} |-> IF o = purchase THEN {1} ELSE {2}]
==========================================================================
