----------------------------- MODULE StoreStock -----------------------------
(***************************************************************************)
(* The stock of one product: the item of the node that keeps it (the       *)
(* coordinator, or a node on its own), with its movements and their costs; *)
(* the purchases and physical counts of that node and of a terminal; the   *)
(* facts that the terminal sends and the availability it gets back         *)
(* (core/.../inventory, core/.../purchasing, the catalogue references).     *)
(* Every action is one transaction of one node.                            *)
(***************************************************************************)
EXTENDS Integers, FiniteSets, Sequences, SequencesExt

CONSTANTS
  Receipt, StockCount, Sale,  \* identifiers the generators may give
  Source,         \* source documents of the supplier
  Cost,           \* unit costs of a purchase
  AdjustmentType, \* the adjustments that are registered by hand
  MaxQuantity,    \* bound: units of one operation
  Counted,        \* units that a count may find
  MaxMovements,   \* bound: movements of the item
  MaxLoose,       \* bound: movements of no receipt, count or sale
  None            \* absent, or an unknown cost

ASSUME StockConstants ==
  /\ Cost \subseteq Nat
  /\ AdjustmentType \subseteq {"WASTE", "ADJUSTMENT_IN", "ADJUSTMENT_OUT"}
  /\ Counted \subseteq Nat
  /\ MaxQuantity \in Nat \ {0} /\ MaxMovements \in Nat /\ MaxLoose \in Nat
  /\ None \notin Int \cup Receipt \cup StockCount \cup Sale \cup Source
  /\ Receipt \cap StockCount = {} /\ Receipt \cap Sale = {} /\ StockCount \cap Sale = {}

VARIABLES
  item,           \* identity of the stock item: what made it, or None
  movements,      \* its movements, in order
  receipt,        \* purchase receipts of both nodes
  count,          \* physical counts of both nodes
  sale,           \* sales: status, node, units and the cost each one froze
  facts,          \* facts the terminal has sent
  published,      \* availabilities the item has published
  reference       \* the availability the terminal holds

stockVars == <<item, movements, receipt, count, sale, facts, published, reference>>

Node == {"AUTHORITY", "TERMINAL"}
Quantity == 1..MaxQuantity
Identity == Receipt \cup {"RECEIVED", None}
MovementType == {"PURCHASE_RECEIPT", "SALE_ISSUE", "WASTE", "ADJUSTMENT_IN", "ADJUSTMENT_OUT"}
Movement == [type : MovementType, quantity : Nat \ {0}, cost : Int \cup {None},
             origin : Receipt \cup StockCount \cup Sale \cup {None}, after : Nat]
Availability == [version : Nat, quantity : Int, cost : Int \cup {None}]

absentReceipt == [status |-> "ABSENT", at |-> None, source |-> None, item |-> None,
                  quantity |-> 0, cost |-> 0]
absentCount == [status |-> "ABSENT", at |-> None, counted |-> None, expected |-> 0, version |-> 0]
absentSale == [status |-> "ABSENT", at |-> None, quantity |-> 0, cost |-> None]
noReference == [version |-> 0, quantity |-> 0, cost |-> None]

StockTypeOK ==
  /\ item \in Identity
  /\ movements \in Seq(Movement)
  /\ receipt \in [Receipt -> [status : {"ABSENT", "DRAFT", "COMPLETED", "REVERSED"},
                              at : Node \cup {None}, source : Source \cup {None},
                              item : Identity, quantity : Nat, cost : Nat]]
  /\ count \in [StockCount -> [status : {"ABSENT", "OPEN", "COUNTED", "APPROVED", "REJECTED"},
                               at : Node \cup {None}, counted : Nat \cup {None},
                               expected : Int, version : Nat]]
  /\ sale \in [Sale -> [status : {"ABSENT", "DRAFT", "COMPLETED", "RETURNED"},
                        at : Node \cup {None}, quantity : Nat, cost : Int \cup {None}]]
  /\ facts \subseteq {"PurchaseReceiptCompleted", "StockCountApproved", "SaleCompleted",
                      "SaleReturned"} \X (Receipt \cup StockCount \cup Sale)
  /\ published \subseteq Availability
  /\ reference \in Availability

StockInit ==
  /\ item = None
  /\ movements = <<>>
  /\ receipt = [r \in Receipt |-> absentReceipt]
  /\ count = [c \in StockCount |-> absentCount]
  /\ sale = [s \in Sale |-> absentSale]
  /\ facts = {}
  /\ published = {}
  /\ reference = noReference

-----------------------------------------------------------------------------
(* The stock item.                                                         *)

incoming(m) == m.type \in {"PURCHASE_RECEIPT", "ADJUSTMENT_IN"}
signed(m) == IF incoming(m) THEN m.quantity ELSE -m.quantity
balance(ms) == IF ms = <<>> THEN 0 ELSE ms[Len(ms)].after

(* Half away from zero; the aggregate only divides by what is in stock.    *)
divideByQuantity(value, units) ==
  IF value >= 0 THEN (2 * value + units) \div (2 * units)
                ELSE -((units - 2 * value) \div (2 * units))

(* The value follows the movements until one has no cost; it starts again, *)
(* known and zero, whenever nothing is left.                               *)
inventoryValue(ms) ==
  FoldLeft(LAMBDA acc, m :
             IF acc.units + signed(m) = 0
             THEN [value |-> 0, units |-> 0, known |-> TRUE]
             ELSE [value |-> IF acc.known /\ m.cost # None
                             THEN acc.value + m.cost * signed(m) ELSE acc.value,
                   units |-> acc.units + signed(m),
                   known |-> acc.known /\ m.cost # None],
           [value |-> 0, units |-> 0, known |-> TRUE], ms)
averageUnitCost(ms) ==
  LET v == inventoryValue(ms) IN
  IF v.known /\ v.units # 0 THEN divideByQuantity(v.value, v.units) ELSE None

movement(type, quantity, cost, origin) ==
  [type |-> type, quantity |-> quantity, cost |-> cost, origin |-> origin, after |-> 0]

(* An operation other than a purchase inherits the average cost, unless    *)
(* it brings its own or is told not to.                                    *)
inferredCost(m, infer) ==
  IF infer /\ m.cost = None /\ m.type # "PURCHASE_RECEIPT"
  THEN averageUnitCost(movements) ELSE m.cost

(* `appendMovement`: the movements that result, none when it is refused.   *)
appendOverdrawn(m, infer) ==
  {Append(movements, [m EXCEPT !.cost = inferredCost(m, infer), !.after = after]) :
     after \in {n \in {balance(movements) + signed(m)} : Len(movements) < MaxMovements}}
appendMovement(m, infer) ==
  {Append(movements, [m EXCEPT !.cost = inferredCost(m, infer), !.after = after]) :
     after \in {n \in {balance(movements) + signed(m)} :
                 n >= 0 /\ Len(movements) < MaxMovements}}

publishBehind(ms) ==
  [version |-> Len(ms), quantity |-> balance(ms), cost |-> averageUnitCost(ms)]
toStockAvailabilityPublications(ms) ==
  [version |-> Len(ms) + 1, quantity |-> balance(ms), cost |-> averageUnitCost(ms)]

(* The cost that the queries compute in SQL, for the initial cut and for   *)
(* the line of a sale: the sum skips the movements without a cost.         *)
costInSql(ms) ==
  LET valued == {i \in DOMAIN ms : ms[i].cost # None}
      value == SumFunction([i \in valued |-> ms[i].cost * signed(ms[i])])
  IN IF valued = {} \/ balance(ms) <= 0 THEN None
     ELSE (2 * value + balance(ms)) \div (2 * balance(ms))
listStockAvailability == [version |-> Len(movements) + 1, quantity |-> balance(movements),
                          cost |-> costInSql(movements)]

(* A use case stores the movements and publishes what is left.             *)
Moved(outcomes) ==
  \E ms \in outcomes :
    /\ movements' = ms
    /\ published' = published \cup {toStockAvailabilityPublications(ms)}
Unmoved == UNCHANGED <<movements, published>>

recorded(type, origin) == {i \in DOMAIN movements :
                             movements[i].type = type /\ movements[i].origin = origin}
Sent(type, id) == facts' = facts \cup {<<type, id>>}

-----------------------------------------------------------------------------
(* Purchases.                                                              *)

(* The first receipt of a product decides the identity of its item; a      *)
(* terminal that has no availability of it decides one of its own.         *)
identityFor(r, at) ==
  IF at = "AUTHORITY" THEN (IF item = None THEN r ELSE item)
  ELSE IF reference.version = 0 THEN r ELSE item

StartPurchaseReceipt(r, at, source) ==
  /\ receipt[r].status = "ABSENT"
  /\ \E quantity \in Quantity, cost \in Cost :
       receipt' = [receipt EXCEPT ![r] =
         [status |-> "DRAFT", at |-> at, source |-> source, item |-> identityFor(r, at),
          quantity |-> quantity, cost |-> cost]]
  /\ UNCHANGED <<item, movements, count, sale, facts, published, reference>>

(* Only what is still completed counts as received.                        *)
completedElsewhere(r) ==
  {q \in Receipt \ {r} : /\ receipt[q].status = "COMPLETED"
                         /\ receipt[q].at # receipt[r].at
                         /\ receipt[q].source = receipt[r].source}
findCompletedBySource(r) ==
  {q \in Receipt \ {r} : /\ receipt[q].status = "COMPLETED"
                         /\ receipt[q].at = receipt[r].at
                         /\ receipt[q].source = receipt[r].source}

(* The receipt enters the item it was written for, which it makes if there *)
(* is none: a product has one item, and another identity is refused.       *)
Received(r) ==
  /\ item \in {None, receipt[r].item}
  /\ item' = receipt[r].item
  /\ Moved(appendMovement(
       movement("PURCHASE_RECEIPT", receipt[r].quantity, receipt[r].cost, r), TRUE))

(* On a terminal the receipt is completed with a fact and nothing else.    *)
CompletePurchaseReceipt(r) ==
  /\ receipt[r].status = "DRAFT"
  /\ findCompletedBySource(r) = {}
  /\ receipt' = [receipt EXCEPT ![r].status = "COMPLETED"]
  /\ IF receipt[r].at = "AUTHORITY" THEN Received(r) /\ UNCHANGED facts
     ELSE Sent("PurchaseReceiptCompleted", r) /\ Unmoved /\ UNCHANGED item
  /\ UNCHANGED <<count, sale, reference>>

(* What is taken out is what came in, at its own cost; it is not           *)
(* published.  A receipt whose movement is on another node is not found.   *)
assertCanReverse(r) == receipt[r].status = "COMPLETED"

ReversePurchaseReceipt(r) ==
  /\ assertCanReverse(r)
  /\ receipt[r].at = "AUTHORITY"
  /\ \E i \in recorded("PURCHASE_RECEIPT", r) :
       movements' \in appendMovement(
         movement("ADJUSTMENT_OUT", movements[i].quantity, movements[i].cost, r), TRUE)
  /\ receipt' = [receipt EXCEPT ![r].status = "REVERSED"]
  /\ UNCHANGED <<item, count, sale, facts, published, reference>>

MayBeLoose == Cardinality({i \in DOMAIN movements : movements[i].origin = None}) < MaxLoose

(* The purchase without a document: it has no cost.                        *)
ReceivePurchase ==
  /\ MayBeLoose
  /\ item' = IF item = None THEN "RECEIVED" ELSE item
  /\ \E quantity \in Quantity :
       Moved(appendMovement(movement("PURCHASE_RECEIPT", quantity, None, None), TRUE))
  /\ UNCHANGED <<receipt, count, sale, facts, reference>>

RegisterStockAdjustment ==
  /\ MayBeLoose
  /\ item # None
  /\ \E type \in AdjustmentType, quantity \in Quantity :
       Moved(appendMovement(movement(type, quantity, None, None), TRUE))
  /\ UNCHANGED <<item, receipt, count, sale, facts, reference>>

-----------------------------------------------------------------------------
(* Physical counts.                                                        *)

OpenStockCount(c, at) ==
  /\ count[c].status = "ABSENT"
  /\ ~ \E b \in StockCount : count[b].at = at /\ count[b].status = "OPEN"
  /\ count' = [count EXCEPT ![c] = [absentCount EXCEPT !.status = "OPEN", !.at = at]]
  /\ UNCHANGED <<item, movements, receipt, sale, facts, published, reference>>

known(at) == IF at = "AUTHORITY" THEN item # None ELSE reference.version > 0

RecordStockCountLine(c) ==
  /\ count[c].status = "OPEN"
  /\ known(count[c].at)
  /\ \E quantity \in Counted : count' = [count EXCEPT ![c].counted = quantity]
  /\ UNCHANGED <<item, movements, receipt, sale, facts, published, reference>>

(* What each node expects, and after which movements.                      *)
expected(at) ==
  IF at = "AUTHORITY"
  THEN [version |-> Len(movements) + 1, quantity |-> balance(movements)]
  ELSE [version |-> reference.version, quantity |-> reference.quantity]

CloseStockCount(c) ==
  /\ count[c].status = "OPEN"
  /\ count[c].counted # None
  /\ LET e == expected(count[c].at) IN
     count' = [count EXCEPT ![c].status = "COUNTED", ![c].expected = e.quantity,
                            ![c].version = e.version]
  /\ UNCHANGED <<item, movements, receipt, sale, facts, published, reference>>

(* The difference that was frozen at the close, whatever moved since.      *)
differenceNow(c) == count[c].counted - balance(movements)
difference(c) == count[c].counted - count[c].expected

Adjusted(c) ==
  IF difference(c) = 0 THEN Unmoved
  ELSE Moved(appendMovement(
         movement(IF difference(c) > 0 THEN "ADJUSTMENT_IN" ELSE "ADJUSTMENT_OUT",
                  IF difference(c) > 0 THEN difference(c) ELSE -difference(c), None, c), TRUE))

ApproveStockCount(c) ==
  /\ count[c].status = "COUNTED"
  /\ count' = [count EXCEPT ![c].status = "APPROVED"]
  /\ IF count[c].at = "AUTHORITY" THEN Adjusted(c) /\ UNCHANGED facts
     ELSE Sent("StockCountApproved", c) /\ Unmoved
  /\ UNCHANGED <<item, receipt, sale, reference>>

RejectStockCount(c) ==
  /\ count[c].status = "COUNTED"
  /\ count' = [count EXCEPT ![c].status = "REJECTED"]
  /\ UNCHANGED <<item, movements, receipt, sale, facts, published, reference>>

-----------------------------------------------------------------------------
(* Sales, as far as the stock sees them.                                   *)

(* The line freezes the cost that its node knows; a negative one is not    *)
(* accepted.                                                               *)
costSnapshot(at) == IF at = "AUTHORITY" THEN costInSql(movements) ELSE reference.cost

AddItemToSale(s, at) ==
  /\ sale[s].status = "ABSENT"
  /\ costSnapshot(at) \in Nat \cup {None}
  /\ \E quantity \in Quantity :
       sale' = [sale EXCEPT ![s] = [status |-> "DRAFT", at |-> at, quantity |-> quantity,
                                    cost |-> costSnapshot(at)]]
  /\ UNCHANGED <<item, movements, receipt, count, facts, published, reference>>

(* A sale of this node leaves at the average cost; one that is not covered *)
(* stands without its issue.                                               *)
CompleteSale(s) ==
  /\ sale[s].status = "DRAFT"
  /\ sale' = [sale EXCEPT ![s].status = "COMPLETED"]
  /\ IF sale[s].at = "TERMINAL" THEN Sent("SaleCompleted", s) /\ Unmoved
     ELSE /\ UNCHANGED facts
          /\ IF balance(movements) < sale[s].quantity THEN Unmoved
             ELSE Moved(appendMovement(
                    movement("SALE_ISSUE", sale[s].quantity, None, s), TRUE))
  /\ UNCHANGED <<item, receipt, count, reference>>

Restored(s) ==
  \E i \in recorded("SALE_ISSUE", s) :
    movements' \in appendMovement(
      movement("ADJUSTMENT_IN", movements[i].quantity, movements[i].cost, s), TRUE)

(* A return needs the issue of its sale, which a terminal asks the         *)
(* coordinator about; on this node it restores and does not publish.       *)
ReturnSale(s) ==
  /\ sale[s].status = "COMPLETED"
  /\ recorded("SALE_ISSUE", s) # {}
  /\ sale' = [sale EXCEPT ![s].status = "RETURNED"]
  /\ IF sale[s].at = "TERMINAL" THEN Sent("SaleReturned", s) /\ UNCHANGED movements
     ELSE Restored(s) /\ UNCHANGED facts
  /\ UNCHANGED <<item, receipt, count, published, reference>>

-----------------------------------------------------------------------------
(* The facts of the terminal, applied by the node that keeps the stock.    *)
(* Each one may be applied again, and what it already moved is not moved   *)
(* a second time.                                                          *)

sentAgain(type, id, moved) == <<type, id>> \in facts
pending(type, id, moved) == <<type, id>> \in facts /\ moved = {}
Settled == UNCHANGED <<receipt, count, sale, facts, reference>>

ApplyPurchaseReceiptCompleted(r) ==
  /\ pending("PurchaseReceiptCompleted", r, recorded("PURCHASE_RECEIPT", r))
  /\ Received(r)
  /\ Settled

ApplyStockCountApproved(c) ==
  /\ pending("StockCountApproved", c,
             recorded("ADJUSTMENT_IN", c) \cup recorded("ADJUSTMENT_OUT", c))
  /\ item # None
  /\ difference(c) # 0
  /\ Adjusted(c)
  /\ UNCHANGED item /\ Settled

(* The issue keeps the cost that the terminal froze, known or not.         *)
ApplySaleCompleted(s) ==
  /\ pending("SaleCompleted", s, recorded("SALE_ISSUE", s))
  /\ item # None
  /\ Moved(appendMovement(movement("SALE_ISSUE", sale[s].quantity, sale[s].cost, s), FALSE))
  /\ UNCHANGED item /\ Settled

ApplySaleReturned(s) ==
  /\ pending("SaleReturned", s, recorded("ADJUSTMENT_IN", s))
  /\ \E i \in recorded("SALE_ISSUE", s) :
       Moved(appendMovement(
         movement("ADJUSTMENT_IN", movements[i].quantity, movements[i].cost, s), TRUE))
  /\ UNCHANGED item /\ Settled

-----------------------------------------------------------------------------
(* Availability.                                                           *)

PublishCatalogBootstrap ==
  /\ item # None
  /\ published' = published \cup {listStockAvailability}
  /\ UNCHANGED <<item, movements, receipt, count, sale, facts, reference>>

(* Late and repeated publications arrive too; only a greater version is    *)
(* kept.  A negative cost does not pass the contract of the fact.          *)
newer(p) == p.cost \in Nat \cup {None} /\ p.version > reference.version

ApplyStockAvailability(p) ==
  /\ newer(p)
  /\ reference' = p
  /\ UNCHANGED <<item, movements, receipt, count, sale, facts, published>>

-----------------------------------------------------------------------------
PurchaseStep == \/ \E r \in Receipt, at \in Node, source \in Source :
                     StartPurchaseReceipt(r, at, source)
                \/ \E r \in Receipt : CompletePurchaseReceipt(r) \/ ReversePurchaseReceipt(r)
                \/ ReceivePurchase \/ RegisterStockAdjustment

CountStep == \/ \E c \in StockCount, at \in Node : OpenStockCount(c, at)
             \/ \E c \in StockCount : RecordStockCountLine(c) \/ CloseStockCount(c)
                                      \/ ApproveStockCount(c) \/ RejectStockCount(c)

SaleStockStep == \/ \E s \in Sale, at \in Node : AddItemToSale(s, at)
                 \/ \E s \in Sale : CompleteSale(s) \/ ReturnSale(s)

InventoryAuthorityStep == \/ \E r \in Receipt : ApplyPurchaseReceiptCompleted(r)
                          \/ \E c \in StockCount : ApplyStockCountApproved(c)
                          \/ \E s \in Sale : ApplySaleCompleted(s) \/ ApplySaleReturned(s)

ReferenceStep == PublishCatalogBootstrap \/ \E p \in published : ApplyStockAvailability(p)

StockNext == \/ PurchaseStep \/ CountStep \/ SaleStockStep
             \/ InventoryAuthorityStep \/ ReferenceStep

StockSpec == StockInit /\ [][StockNext]_stockVars

-----------------------------------------------------------------------------
(* Properties.                                                             *)

upTo(version) == SubSeq(movements, 1, version - 1)

(* What the terminal holds, and whatever may still reach it late, was the  *)
(* stock after the movements its version counts: versions order them and   *)
(* two with one version say the same units (toStockAvailabilityPublications*)
(* and the initial cut).                                                   *)
ReferencesAreSnapshots ==
  \A p \in published \cup ({reference} \ {noReference}) :
    /\ p.version - 1 \in 0..Len(movements)
    /\ p.quantity = balance(upTo(p.version))

adjustments(c) == recorded("ADJUSTMENT_IN", c) \cup recorded("ADJUSTMENT_OUT", c)

(* An approved count moves the stock once, by what takes the stock it was  *)
(* closed against (that of its version) to what was counted, however late  *)
(* it is approved and its fact applied and whatever else moved since; one  *)
(* that was not approved moves nothing, and one approved here without a    *)
(* movement had counted what there was (CloseStockCount, ApproveStockCount *)
(* and the consumer of its fact).                                          *)
CountsLandOnWhatWasCounted ==
  \A c \in StockCount :
    /\ count[c].status # "APPROVED" => adjustments(c) = {}
    /\ Cardinality(adjustments(c)) <= 1
    /\ \A i \in adjustments(c) :
         count[c].counted = balance(upTo(count[c].version)) + signed(movements[i])
    /\ count[c].status = "APPROVED" /\ count[c].at = "AUTHORITY" /\ adjustments(c) = {} =>
         count[c].counted = balance(upTo(count[c].version))

(* The goods of a completed receipt entered the stock once, as it says;    *)
(* those of a reversed one left again, as many and at the same cost; and   *)
(* the goods of one source document of a node are there at most once       *)
(* (complete, reverse, findCompletedBySource and the coordinator).         *)
ReceiptsAreInStockOnce ==
  /\ \A r \in Receipt :
       LET came == {movements[i] : i \in recorded("PURCHASE_RECEIPT", r)}
           left == {movements[i] : i \in recorded("ADJUSTMENT_OUT", r)}
           status == receipt[r].status
       IN /\ Cardinality(recorded("PURCHASE_RECEIPT", r)) + Cardinality(recorded("ADJUSTMENT_OUT", r))
               \in (CASE status = "REVERSED" -> {2}
                      [] status = "COMPLETED" /\ receipt[r].at = "AUTHORITY" -> {1}
                      [] status = "COMPLETED" -> {0, 1}
                      [] OTHER -> {0})
          /\ \A m \in came \cup left : m.quantity = receipt[r].quantity /\ m.cost = receipt[r].cost
          /\ left # {} => came # {}
  /\ \A q, r \in Receipt :
       /\ q # r /\ receipt[q].at = receipt[r].at /\ receipt[q].source = receipt[r].source
       /\ recorded("PURCHASE_RECEIPT", q) # {} /\ recorded("PURCHASE_RECEIPT", r) # {}
       => recorded("ADJUSTMENT_OUT", q) \cup recorded("ADJUSTMENT_OUT", r) # {}

(* The goods of a sale leave at most once and come back at most once, all  *)
(* of them and only after they left, at the cost they left with when it is *)
(* known; a sale that leaves from this node is returned at once            *)
(* (issueSoldStock, ReturnSale and the consumers of both facts).           *)
SoldGoodsMoveOnce ==
  \A s \in Sale :
    LET out == recorded("SALE_ISSUE", s)
        back == recorded("ADJUSTMENT_IN", s)
    IN /\ Cardinality(out) <= 1 /\ Cardinality(back) <= Cardinality(out)
       /\ sale[s].status \in {"ABSENT", "DRAFT"} => out = {}
       /\ back # {} => sale[s].status = "RETURNED"
       /\ sale[s].status = "RETURNED" /\ sale[s].at = "AUTHORITY" => back # {}
       /\ \A i \in out, j \in back :
            /\ i < j /\ movements[i].quantity = movements[j].quantity
            /\ movements[i].cost # None => movements[i].cost = movements[j].cost
=============================================================================
