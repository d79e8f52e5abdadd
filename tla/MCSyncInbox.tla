--------------------------- MODULE MCSyncInbox ---------------------------
(***************************************************************************)
(* Instances of SyncInbox for TLC: the facts of a day at a terminal.       *)
(***************************************************************************)
EXTENDS SyncInbox

CONSTANTS sale, return, receipt, other, i1, i2, w1, w2, none

Commercial == {"COMMERCIAL_PROJECTION"}
Inventory == {"INVENTORY_AUTHORITY"}

(* A sale (1) is completed and returned (2); the store has nothing to sell *)
(* until goods are received: in a receipt of the terminal (3) or in one of *)
(* the coordinator itself (4), which names another item for the product.   *)
SaleFacts == 1..4
SaleOwners == <<sale, return, receipt, other>>
SaleVersions == <<1, 1, 1, 1>>
SaleDependencies == <<{}, {sale}, {}, {}>>
SaleProjected == <<"upsert", "mark", "none", "none">>
SaleUnits == <<1, 0, -1, -1>>
SaleNames == <<none, none, i1, i2>>
SaleInterested == <<Commercial \cup Inventory, Commercial, Inventory, {}>>
==========================================================================
