------------------------- MODULE StoreStockProofs -------------------------
(***************************************************************************)
(* Proofs about StoreStock for any receipts, counts, sales, source         *)
(* documents, costs and bounds: which movements there are and what units   *)
(* they leave, what they are worth (inventoryValue, costInSql), and that   *)
(* what is recorded is only added to.                                      *)
(***************************************************************************)
EXTENDS StoreStock, FoldLemmas, TLAPS

USE StockConstants

-----------------------------------------------------------------------------
(* The invariant.                                                          *)

ReceiptRecord == [status : {"ABSENT", "DRAFT", "COMPLETED", "REVERSED"}, at : Node \cup {None},
                  source : Source \cup {None}, item : Identity, quantity : Nat, cost : Nat]
CountRecord == [status : {"ABSENT", "OPEN", "COUNTED", "APPROVED", "REJECTED"},
                at : Node \cup {None}, counted : Nat \cup {None}, expected : Int, version : Nat]
SaleRecord == [status : {"ABSENT", "DRAFT", "COMPLETED", "RETURNED"}, at : Node \cup {None},
               quantity : Nat, cost : Int \cup {None}]

RecordsOK ==
  /\ item \in Identity
  /\ receipt \in [Receipt -> ReceiptRecord]
  /\ count \in [StockCount -> CountRecord]
  /\ sale \in [Sale -> SaleRecord]

Sound(ms) ==
  /\ \E S : ms \in Seq(S)
  /\ \A i \in 1..Len(ms) : ms[i].after \in Int /\ ms[i].quantity \in Nat
MovementsOK == Sound(movements)

(* The units left by the first n movements.                                *)
stockAfter(ms, n) == IF n = 0 THEN 0 ELSE ms[n].after

ReferencesOK ==
  /\ \A p \in published : /\ p.version - 1 \in 0..Len(movements) /\ p.version \in Nat
                          /\ p.quantity = stockAfter(movements, p.version - 1)
  /\ reference \in published \cup {noReference}

CountOK(c) ==
  /\ count[c].status # "ABSENT" => count[c].at \in Node
  /\ count[c].at = "TERMINAL" /\ count[c].counted # None => reference.version > 0
  /\ count[c].status \in {"COUNTED", "APPROVED"} =>
       /\ count[c].counted \in Nat
       /\ count[c].version - 1 \in 0..Len(movements)
       /\ count[c].expected = stockAfter(movements, count[c].version - 1)
  /\ count[c].status # "APPROVED" =>
       adjustments(c) = {} /\ <<"StockCountApproved", c>> \notin facts
  /\ \A i, j \in adjustments(c) : i = j
  /\ \A i \in adjustments(c) : signed(movements[i]) = difference(c)
  /\ count[c].status = "APPROVED" /\ count[c].at = "AUTHORITY" /\ adjustments(c) = {} =>
       difference(c) = 0
CountsOK == \A c \in StockCount : CountOK(c)

came(r) == recorded("PURCHASE_RECEIPT", r)
left(r) == recorded("ADJUSTMENT_OUT", r)

ReceiptOK(r) ==
  /\ receipt[r].status # "ABSENT" => receipt[r].at \in Node
  /\ receipt[r].status \in {"ABSENT", "DRAFT"} => came(r) = {}
  /\ receipt[r].status # "REVERSED" => left(r) = {}
  /\ receipt[r].status = "REVERSED" => came(r) # {} /\ left(r) # {}
  /\ receipt[r].status = "COMPLETED" /\ receipt[r].at = "AUTHORITY" => came(r) # {}
  /\ <<"PurchaseReceiptCompleted", r>> \in facts =>
       receipt[r].status = "COMPLETED" /\ receipt[r].at = "TERMINAL"
  /\ \A i, j \in came(r) : i = j
  /\ \A i, j \in left(r) : i = j
  /\ \A i \in came(r) \cup left(r) :
       movements[i].quantity = receipt[r].quantity /\ movements[i].cost = receipt[r].cost
SourcesOK ==
  \A q, r \in Receipt :
    /\ receipt[q].status = "COMPLETED" /\ receipt[r].status = "COMPLETED"
    /\ receipt[q].at = receipt[r].at /\ receipt[q].source = receipt[r].source
    => q = r
ReceiptsOK == (\A r \in Receipt : ReceiptOK(r)) /\ SourcesOK

out(s) == recorded("SALE_ISSUE", s)
back(s) == recorded("ADJUSTMENT_IN", s)

SaleOK(s) ==
  /\ sale[s].status \in {"ABSENT", "DRAFT"} => out(s) = {}
  /\ <<"SaleCompleted", s>> \in facts => sale[s].status \in {"COMPLETED", "RETURNED"}
  /\ sale[s].status # "RETURNED" => back(s) = {} /\ <<"SaleReturned", s>> \notin facts
  /\ sale[s].status = "RETURNED" => out(s) # {}
  /\ sale[s].status = "RETURNED" /\ sale[s].at = "AUTHORITY" => back(s) # {}
  /\ \A i, j \in out(s) : i = j
  /\ \A i, j \in back(s) : i = j
  /\ \A i \in out(s), j \in back(s) :
       /\ i < j /\ movements[i].quantity = movements[j].quantity
       /\ movements[i].cost # None => movements[i].cost = movements[j].cost
SalesOK == \A s \in Sale : SaleOK(s)

StockInv == /\ RecordsOK /\ MovementsOK /\ ReferencesOK
            /\ CountsOK /\ ReceiptsOK /\ SalesOK

-----------------------------------------------------------------------------
(* Movements are only appended.                                            *)

last == Len(movements) + 1

(* The step appends one movement of this type, quantity and origin, at     *)
(* this cost when there is one.                                            *)
Adds(type, quantity, cost, origin) ==
  /\ Len(movements') = last
  /\ \A i \in 1..Len(movements) : movements'[i] = movements[i]
  /\ movements'[last].type = type /\ movements'[last].quantity = quantity
  /\ movements'[last].origin = origin
  /\ cost # None => movements'[last].cost = cost
  /\ MovementsOK'

LEMMA AppendedSequence ==
  ASSUME NEW S, NEW ms \in Seq(S), NEW x
  PROVE  /\ Append(ms, x) \in Seq(S \cup {x}) /\ Len(Append(ms, x)) = Len(ms) + 1
         /\ Len(ms) \in Nat
         /\ \A i \in 1..Len(ms) : Append(ms, x)[i] = ms[i]
         /\ Append(ms, x)[Len(ms) + 1] = x
<1>1. ms \in Seq(S \cup {x})
  OBVIOUS
<1>2. x \in S \cup {x}
  OBVIOUS
<1> QED BY <1>1, <1>2

LEMMA SoundSequences ==
  ASSUME NEW ms, Sound(ms)
  PROVE  /\ Len(ms) \in Nat /\ DOMAIN ms = 1..Len(ms)
         /\ balance(ms) = stockAfter(ms, Len(ms)) /\ balance(ms) \in Int
<1>1. PICK S : ms \in Seq(S)
  BY DEF Sound
<1>2. ms = <<>> <=> Len(ms) = 0
  BY <1>1
<1>3. CASE Len(ms) = 0
  BY <1>1, <1>2, <1>3 DEF balance, stockAfter
<1>4. CASE Len(ms) # 0
  BY <1>1, <1>2, <1>4 DEF balance, stockAfter, Sound
<1> QED BY <1>1, <1>3, <1>4

LEMMA Lengths ==
  ASSUME MovementsOK
  PROVE  /\ Len(movements) \in Nat /\ DOMAIN movements = 1..Len(movements)
         /\ balance(movements) = stockAfter(movements, Len(movements))
         /\ balance(movements) \in Int
BY SoundSequences DEF MovementsOK

LEMMA Appending ==
  ASSUME MovementsOK, NEW type, NEW quantity \in Nat, NEW cost, NEW origin, NEW infer,
         movements' \in appendMovement(movement(type, quantity, cost, origin), infer)
  PROVE  Adds(type, quantity, cost, origin)
<1> DEFINE m == movement(type, quantity, cost, origin)
           total == balance(movements) + signed(m)
           x == [m EXCEPT !.cost = inferredCost(m, infer), !.after = total]
<1>1. movements' = Append(movements, x)
  BY DEF appendMovement
<1>2. /\ x.type = type /\ x.quantity = quantity /\ x.origin = origin /\ x.after = total
      /\ x.cost = inferredCost(m, infer)
  BY DEF movement
<1>3. cost # None => x.cost = cost
  BY <1>2 DEF inferredCost, movement
<1>4. total \in Int
  <2>1. m.quantity = quantity
    BY DEF movement
  <2>2. signed(m) \in Int
    BY <2>1 DEF signed
  <2> QED BY <2>2, Lengths
<1> HIDE DEF x, total
<1>5. PICK S : movements \in Seq(S)
  BY DEF MovementsOK, Sound
<1>6. /\ movements' \in Seq(S \cup {x}) /\ Len(movements') = Len(movements) + 1
      /\ Len(movements) \in Nat
      /\ \A i \in 1..Len(movements) : movements'[i] = movements[i]
      /\ movements'[Len(movements) + 1] = x
  BY <1>1, <1>5, AppendedSequence
<1>7. \A i \in 1..Len(movements') : movements'[i].after \in Int /\ movements'[i].quantity \in Nat
  <2> TAKE i \in 1..Len(movements')
  <2>1. CASE i = Len(movements) + 1
    BY <1>2, <1>4, <1>6, <2>1
  <2>2. CASE i # Len(movements) + 1
    BY <1>6, <2>2 DEF MovementsOK, Sound
  <2> QED BY <2>1, <2>2
<1> QED BY <1>2, <1>3, <1>6, <1>7 DEF Adds, last, MovementsOK, Sound

LEMMA AddedIsRecorded ==
  ASSUME MovementsOK, NEW type, NEW quantity, NEW cost, NEW origin,
         Adds(type, quantity, cost, origin), NEW t, NEW o
  PROVE  recorded(t, o)' = IF t = type /\ o = origin THEN recorded(t, o) \cup {last}
                           ELSE recorded(t, o)
<1>1. /\ DOMAIN movements' = 1..last /\ DOMAIN movements = 1..Len(movements)
      /\ Len(movements) \in Nat
  BY Lengths, SoundSequences DEF Adds, MovementsOK, last
<1>2. recorded(t, o)' = {i \in 1..last : movements'[i].type = t /\ movements'[i].origin = o}
  BY <1>1 DEF recorded
<1>3. recorded(t, o) = {i \in 1..Len(movements) : movements[i].type = t /\ movements[i].origin = o}
  BY <1>1 DEF recorded
<1>4. 1..last = 1..Len(movements) \cup {last} /\ last \notin 1..Len(movements)
  BY <1>1 DEF last
<1>5. \A i \in 1..Len(movements) : movements'[i] = movements[i]
  BY DEF Adds
<1>6. movements'[last].type = type /\ movements'[last].origin = origin
  BY DEF Adds
<1> QED BY <1>2, <1>3, <1>4, <1>5, <1>6

(* What every step does to the movements.                                  *)
Grows ==
  /\ MovementsOK'
  /\ Len(movements) \in Nat /\ Len(movements') \in Nat /\ Len(movements) <= Len(movements')
  /\ \A i \in 1..Len(movements) : movements'[i] = movements[i]

LEMMA SameMovements ==
  ASSUME MovementsOK, movements' = movements
  PROVE  Grows /\ \A t, o : recorded(t, o)' = recorded(t, o)
BY Lengths DEF Grows, MovementsOK, recorded

LEMMA AddingGrows ==
  ASSUME MovementsOK, NEW type, NEW quantity, NEW cost, NEW origin,
         Adds(type, quantity, cost, origin)
  PROVE  /\ Grows /\ last \notin DOMAIN movements
         /\ \A t, o : o # origin => recorded(t, o)' = recorded(t, o)
<1>1. Grows
  BY Lengths, SoundSequences DEF Grows, Adds, last, MovementsOK
<1>2. last \notin DOMAIN movements
  BY Lengths DEF last
<1>3. \A t, o : o # origin => recorded(t, o)' = recorded(t, o)
  BY AddedIsRecorded
<1> QED BY <1>1, <1>2, <1>3

LEMMA StockBefore ==
  ASSUME Grows, NEW n \in 0..Len(movements)
  PROVE  n \in 0..Len(movements') /\ stockAfter(movements', n) = stockAfter(movements, n)
BY DEF Grows, stockAfter

-----------------------------------------------------------------------------
(* The parts of the invariant that a step leaves alone.                    *)

Remembers(type, ids) == \A id \in ids : <<type, id>> \in facts' <=> <<type, id>> \in facts

(* A step publishes nothing but what the stock is after it.                *)
PublishesStock ==
  /\ \A p \in published' : \/ p \in published
                           \/ p.version = Len(movements') + 1 /\ p.quantity = balance(movements')
  /\ published \subseteq published'
  /\ \/ reference' = reference
     \/ reference' \in published /\ reference'.version > reference.version

LEMMA ReferencesKept ==
  ASSUME MovementsOK, Grows, ReferencesOK, PublishesStock
  PROVE  /\ ReferencesOK'
         /\ reference.version > 0 => reference'.version > 0
<1>1. balance(movements') = stockAfter(movements', Len(movements')) /\ Len(movements') \in Nat
  BY SoundSequences DEF Grows, MovementsOK
<1>2. \A p \in published' : /\ p.version - 1 \in 0..Len(movements') /\ p.version \in Nat
                            /\ p.quantity = stockAfter(movements', p.version - 1)
  <2> TAKE p \in published'
  <2>1. CASE p \in published
    <3>1. p.version - 1 \in 0..Len(movements) /\ p.version \in Nat
      BY <2>1 DEF ReferencesOK
    <3>2. p.quantity = stockAfter(movements, p.version - 1)
      BY <2>1 DEF ReferencesOK
    <3> QED BY <3>1, <3>2, StockBefore
  <2>2. CASE p.version = Len(movements') + 1 /\ p.quantity = balance(movements')
    BY <1>1, <2>2
  <2> QED BY <2>1, <2>2 DEF PublishesStock
<1>3. reference' \in published' \cup {noReference}
  BY DEF PublishesStock, ReferencesOK
<1>4. reference.version \in Nat
  <2>1. noReference.version = 0
    BY DEF noReference
  <2> QED BY <2>1 DEF ReferencesOK
<1>5. reference'.version \in Nat
  <2>1. noReference.version = 0
    BY DEF noReference
  <2> QED BY <1>2, <1>3, <2>1
<1>6. reference.version > 0 => reference'.version > 0
  BY <1>4, <1>5 DEF PublishesStock
<1> QED BY <1>2, <1>3, <1>6 DEF ReferencesOK

LEMMA CountsKept ==
  ASSUME RecordsOK, MovementsOK, Grows, CountsOK, count' = count,
         Remembers("StockCountApproved", StockCount),
         \A c \in StockCount : adjustments(c)' = adjustments(c),
         reference.version > 0 => reference'.version > 0
  PROVE  CountsOK'
<1> SUFFICES ASSUME NEW c \in StockCount PROVE CountOK(c)'
  BY DEF CountsOK
<1> USE DEF CountsOK, CountOK
<1>1. \A i \in adjustments(c) : movements'[i] = movements[i]
  BY Lengths DEF adjustments, recorded, Grows
<1>2. count[c].status \in {"COUNTED", "APPROVED"} =>
        /\ count[c].version - 1 \in 0..Len(movements')
        /\ count[c].expected = stockAfter(movements', count[c].version - 1)
  <2>1. count[c].status \in {"COUNTED", "APPROVED"} =>
          /\ count[c].version - 1 \in 0..Len(movements)
          /\ count[c].expected = stockAfter(movements, count[c].version - 1)
    OBVIOUS
  <2> QED BY <2>1, StockBefore
<1>3. adjustments(c)' = adjustments(c) /\ difference(c)' = difference(c)
  BY DEF difference
<1>4. \A i \in adjustments(c) : signed(movements'[i]) = signed(movements[i])
  BY <1>1
<1> HIDE DEF CountsOK
<1>5. CountOK(c)
  BY DEF CountsOK
<1> QED BY <1>2, <1>3, <1>4, <1>5 DEF Remembers

LEMMA ReceiptsKept ==
  ASSUME MovementsOK, Grows, ReceiptsOK, receipt' = receipt,
         Remembers("PurchaseReceiptCompleted", Receipt),
         \A r \in Receipt : came(r)' = came(r) /\ left(r)' = left(r)
  PROVE  ReceiptsOK'
<1>1. \A r \in Receipt : \A i \in came(r) \cup left(r) : movements'[i] = movements[i]
  BY Lengths DEF came, left, recorded, Grows
<1>2. ASSUME NEW r \in Receipt PROVE ReceiptOK(r)'
  <2>1. came(r)' = came(r) /\ left(r)' = left(r) /\ ReceiptOK(r)
    BY DEF ReceiptsOK
  <2> QED BY <1>1, <2>1 DEF ReceiptOK, Remembers
<1> QED BY <1>2 DEF ReceiptsOK, SourcesOK

LEMMA SalesKept ==
  ASSUME MovementsOK, Grows, SalesOK, sale' = sale,
         Remembers("SaleCompleted", Sale), Remembers("SaleReturned", Sale),
         \A s \in Sale : out(s)' = out(s) /\ back(s)' = back(s)
  PROVE  SalesOK'
<1>1. \A s \in Sale : \A i \in out(s) \cup back(s) : movements'[i] = movements[i]
  BY Lengths DEF out, back, recorded, Grows
<1> SUFFICES ASSUME NEW s \in Sale PROVE SaleOK(s)'
  BY DEF SalesOK
<1>2. out(s)' = out(s) /\ back(s)' = back(s) /\ SaleOK(s)
  BY DEF SalesOK
<1> QED BY <1>1, <1>2 DEF SaleOK, Remembers

(* Movements of an origin are the business of that origin's part.          *)
LEMMA OthersUnmoved ==
  ASSUME MovementsOK, NEW origin,
         \/ movements' = movements
         \/ \E type, quantity, cost : Adds(type, quantity, cost, origin)
  PROVE  /\ Grows
         /\ origin \notin StockCount => \A c \in StockCount : adjustments(c)' = adjustments(c)
         /\ origin \notin Receipt => \A r \in Receipt : came(r)' = came(r) /\ left(r)' = left(r)
         /\ origin \notin Sale => \A s \in Sale : out(s)' = out(s) /\ back(s)' = back(s)
<1>1. Grows /\ \A t, o : o # origin => recorded(t, o)' = recorded(t, o)
  <2>1. CASE movements' = movements
    BY <2>1, SameMovements
  <2>2. CASE \E type, quantity, cost : Adds(type, quantity, cost, origin)
    <3>1. PICK type, quantity, cost : Adds(type, quantity, cost, origin)
      BY <2>2
    <3> QED BY <3>1, AddingGrows
  <2> QED BY <2>1, <2>2
<1>2. origin \notin StockCount => \A c \in StockCount : adjustments(c)' = adjustments(c)
  BY <1>1 DEF adjustments
<1>3. origin \notin Receipt => \A r \in Receipt : came(r)' = came(r) /\ left(r)' = left(r)
  BY <1>1 DEF came, left
<1>4. origin \notin Sale => \A s \in Sale : out(s)' = out(s) /\ back(s)' = back(s)
  BY <1>1 DEF out, back
<1> QED BY <1>1, <1>2, <1>3, <1>4

(* A step that appends at most one movement, and what it does to each      *)
(* part.                                                                   *)
LEMMA StepByParts ==
  ASSUME StockInv, RecordsOK', PublishesStock, NEW origin,
         \/ movements' = movements
         \/ \E type, quantity, cost : Adds(type, quantity, cost, origin),
         \/ CountsOK'
         \/ /\ count' = count /\ Remembers("StockCountApproved", StockCount)
            /\ origin \notin StockCount,
         \/ ReceiptsOK'
         \/ /\ receipt' = receipt /\ Remembers("PurchaseReceiptCompleted", Receipt)
            /\ origin \notin Receipt,
         \/ SalesOK'
         \/ /\ sale' = sale /\ Remembers("SaleCompleted", Sale) /\ Remembers("SaleReturned", Sale)
            /\ origin \notin Sale
  PROVE  StockInv'
<1> USE DEF StockInv
<1>1. /\ Grows
      /\ origin \notin StockCount => \A c \in StockCount : adjustments(c)' = adjustments(c)
      /\ origin \notin Receipt => \A r \in Receipt : came(r)' = came(r) /\ left(r)' = left(r)
      /\ origin \notin Sale => \A s \in Sale : out(s)' = out(s) /\ back(s)' = back(s)
  BY OthersUnmoved
<1>2. ReferencesOK' /\ (reference.version > 0 => reference'.version > 0)
  BY <1>1, ReferencesKept
<1>3. CountsOK'
  BY <1>1, <1>2, CountsKept
<1>4. ReceiptsOK'
  BY <1>1, ReceiptsKept
<1>5. SalesOK'
  BY <1>1, SalesKept
<1> QED BY <1>1, <1>2, <1>3, <1>4, <1>5 DEF Grows

LEMMA OtherReceipt ==
  ASSUME StockInv, Grows, NEW q \in Receipt, receipt'[q] = receipt[q],
         came(q)' = came(q), left(q)' = left(q), Remembers("PurchaseReceiptCompleted", {q})
  PROVE  ReceiptOK(q)'
<1>1. ReceiptOK(q) /\ \A i \in came(q) \cup left(q) : movements'[i] = movements[i]
  BY Lengths DEF StockInv, ReceiptsOK, came, left, recorded, Grows
<1> QED BY <1>1 DEF ReceiptOK, Remembers

LEMMA OtherCount ==
  ASSUME StockInv, Grows, NEW c \in StockCount, count'[c] = count[c],
         adjustments(c)' = adjustments(c), Remembers("StockCountApproved", {c}),
         reference.version > 0 => reference'.version > 0
  PROVE  CountOK(c)'
<1>1. CountOK(c) /\ \A i \in adjustments(c) : movements'[i] = movements[i]
  BY Lengths DEF StockInv, CountsOK, adjustments, recorded, Grows
<1>2. count[c].status \in {"COUNTED", "APPROVED"} =>
        /\ count[c].version - 1 \in 0..Len(movements')
        /\ count[c].expected = stockAfter(movements', count[c].version - 1)
  BY <1>1, StockBefore DEF CountOK
<1>3. difference(c)' = difference(c) /\ \A i \in adjustments(c) :
        signed(movements'[i]) = signed(movements[i])
  BY <1>1 DEF difference
<1> QED BY <1>1, <1>2, <1>3 DEF CountOK, Remembers

LEMMA OtherSale ==
  ASSUME StockInv, Grows, NEW s \in Sale, sale'[s] = sale[s],
         out(s)' = out(s), back(s)' = back(s),
         Remembers("SaleCompleted", {s}), Remembers("SaleReturned", {s})
  PROVE  SaleOK(s)'
<1>1. SaleOK(s) /\ \A i \in out(s) \cup back(s) : movements'[i] = movements[i]
  BY Lengths DEF StockInv, SalesOK, out, back, recorded, Grows
<1> QED BY <1>1 DEF SaleOK, Remembers

(* Publishing what an operation leaves.                                    *)
LEMMA MovedPublishes ==
  ASSUME MovementsOK, NEW type, NEW quantity \in Nat, NEW cost, NEW origin, NEW infer,
         Moved(appendMovement(movement(type, quantity, cost, origin), infer)),
         reference' = reference
  PROVE  Adds(type, quantity, cost, origin) /\ PublishesStock
<1>1. PICK ms \in appendMovement(movement(type, quantity, cost, origin), infer) :
        movements' = ms /\ published' = published \cup {toStockAvailabilityPublications(ms)}
  BY DEF Moved
<1>2. Adds(type, quantity, cost, origin)
  BY <1>1, Appending
<1>3. /\ toStockAvailabilityPublications(ms).version = Len(ms) + 1
      /\ toStockAvailabilityPublications(ms).quantity = balance(ms)
  BY DEF toStockAvailabilityPublications
<1>4. PublishesStock
  BY <1>1, <1>3 DEF PublishesStock
<1> QED BY <1>2, <1>4

LEMMA UnmovedPublishes ==
  ASSUME published' = published, reference' = reference PROVE PublishesStock
BY DEF PublishesStock

-----------------------------------------------------------------------------
(* Purchases.                                                              *)

LEMMA StartPurchaseReceiptInv ==
  ASSUME StockInv, NEW r \in Receipt, NEW at \in Node, NEW source \in Source,
         StartPurchaseReceipt(r, at, source)
  PROVE  StockInv'
<1> USE DEF StockInv
<1>1. /\ receipt[r].status = "ABSENT"
      /\ UNCHANGED <<item, movements, count, sale, facts, published, reference>>
  BY DEF StartPurchaseReceipt
<1>2. PICK quantity \in Quantity, cost \in Cost :
        receipt' = [receipt EXCEPT ![r] =
          [status |-> "DRAFT", at |-> at, source |-> source, item |-> identityFor(r, at),
           quantity |-> quantity, cost |-> cost]]
  BY DEF StartPurchaseReceipt
<1>3. identityFor(r, at) \in Identity /\ quantity \in Nat /\ cost \in Nat
  <2>1. identityFor(r, at) \in Identity
    BY DEF identityFor, Identity, RecordsOK
  <2>2. quantity \in Nat
    BY DEF Quantity
  <2>3. cost \in Nat
    OBVIOUS
  <2> QED BY <2>1, <2>2, <2>3
<1>4. RecordsOK'
  BY <1>1, <1>2, <1>3 DEF RecordsOK, ReceiptRecord
<1>5. /\ receipt'[r].status = "DRAFT" /\ receipt'[r].at \in Node
      /\ \A q \in Receipt \ {r} : receipt'[q] = receipt[q]
  BY <1>2 DEF RecordsOK
<1>6. Grows /\ \A t, o : recorded(t, o)' = recorded(t, o)
  BY <1>1, SameMovements
<1>7. ReceiptsOK'
  <2>1. ASSUME NEW q \in Receipt PROVE ReceiptOK(q)'
    <3>1. ReceiptOK(q) /\ came(q)' = came(q) /\ left(q)' = left(q)
      BY <1>6 DEF ReceiptsOK, came, left
    <3>2. CASE q = r
      BY <1>1, <1>5, <3>1, <3>2 DEF ReceiptOK
    <3>3. CASE q # r
      BY <1>1, <1>5, <1>6, <3>1, <3>3, OtherReceipt DEF Remembers
    <3> QED BY <3>2, <3>3
  <2>2. SourcesOK'
    BY <1>5 DEF ReceiptsOK, SourcesOK
  <2> QED BY <2>1, <2>2 DEF ReceiptsOK
<1> QED BY <1>1, <1>4, <1>7, UnmovedPublishes, StepByParts DEF Remembers

(* A receipt whose goods have not come, entering the stock.                *)
LEMMA Receiving ==
  ASSUME StockInv, NEW r \in Receipt, Received(r), reference' = reference
  PROVE  /\ Adds("PURCHASE_RECEIPT", receipt[r].quantity, receipt[r].cost, r)
         /\ PublishesStock /\ item' \in Identity
<1>1. /\ receipt[r].quantity \in Nat /\ receipt[r].item \in Identity
      /\ MovementsOK
  BY DEF StockInv, RecordsOK, ReceiptRecord
<1> QED BY <1>1, MovedPublishes DEF Received

LEMMA GoodsCome ==
  ASSUME StockInv, NEW r \in Receipt, came(r) = {}, left(r) = {},
         Adds("PURCHASE_RECEIPT", receipt[r].quantity, receipt[r].cost, r)
  PROVE  /\ came(r)' = {last} /\ left(r)' = {}
         /\ movements'[last].quantity = receipt[r].quantity
         /\ movements'[last].cost = receipt[r].cost
         /\ \A q \in Receipt \ {r} : came(q)' = came(q) /\ left(q)' = left(q)
<1>1. receipt[r].cost # None
  <2>1. receipt[r].cost \in Nat
    BY DEF StockInv, RecordsOK, ReceiptRecord
  <2> QED BY <2>1
<1>2. movements'[last].quantity = receipt[r].quantity /\ movements'[last].cost = receipt[r].cost
  BY <1>1 DEF Adds
<1>3. came(r)' = {last} /\ left(r)' = {}
  BY AddedIsRecorded DEF StockInv, came, left
<1>4. \A q \in Receipt \ {r} : came(q)' = came(q) /\ left(q)' = left(q)
  BY AddingGrows DEF StockInv, came, left
<1> QED BY <1>2, <1>3, <1>4

LEMMA CompletePurchaseReceiptInv ==
  ASSUME StockInv, NEW r \in Receipt, CompletePurchaseReceipt(r)
  PROVE  StockInv'
<1> USE DEF StockInv
<1>1. /\ receipt[r].status = "DRAFT" /\ findCompletedBySource(r) = {}
      /\ receipt' = [receipt EXCEPT ![r].status = "COMPLETED"]
      /\ UNCHANGED <<count, sale, reference>>
  BY DEF CompletePurchaseReceipt
<1>2. receipt[r] \in ReceiptRecord
  BY DEF RecordsOK
<1>3. /\ receipt'[r].status = "COMPLETED" /\ receipt'[r].at = receipt[r].at
      /\ receipt'[r].source = receipt[r].source
      /\ receipt'[r].quantity = receipt[r].quantity /\ receipt'[r].cost = receipt[r].cost
      /\ \A q \in Receipt \ {r} : receipt'[q] = receipt[q]
      /\ receipt' \in [Receipt -> ReceiptRecord]
  BY <1>1, <1>2 DEF RecordsOK, ReceiptRecord
<1>4. SourcesOK'
  BY <1>1, <1>3 DEF ReceiptsOK, SourcesOK, findCompletedBySource
<1>5. came(r) = {} /\ left(r) = {} /\ <<"PurchaseReceiptCompleted", r>> \notin facts
  BY <1>1 DEF ReceiptsOK, ReceiptOK
<1>6. CASE receipt[r].at = "AUTHORITY"
  <2>1. Received(r) /\ UNCHANGED facts
    BY <1>6 DEF CompletePurchaseReceipt
  <2>2. /\ Adds("PURCHASE_RECEIPT", receipt[r].quantity, receipt[r].cost, r)
        /\ PublishesStock /\ item' \in Identity
    BY <1>1, <2>1, Receiving
  <2>3. RecordsOK'
    BY <1>1, <1>3, <2>2 DEF RecordsOK
  <2>4. /\ came(r)' = {last} /\ left(r)' = {}
        /\ movements'[last].quantity = receipt[r].quantity
        /\ movements'[last].cost = receipt[r].cost
        /\ \A q \in Receipt \ {r} : came(q)' = came(q) /\ left(q)' = left(q)
    BY <1>5, <2>2, GoodsCome
  <2>5. ReceiptOK(r)'
    BY <1>3, <1>5, <1>6, <2>1, <2>4 DEF ReceiptOK, Node
  <2>6. \A q \in Receipt \ {r} : ReceiptOK(q)'
    BY <1>3, <2>1, <2>2, <2>4, AddingGrows, OtherReceipt DEF Remembers
  <2>7. ReceiptsOK'
    BY <1>4, <2>5, <2>6 DEF ReceiptsOK
  <2> QED BY <1>1, <2>1, <2>2, <2>3, <2>7, StepByParts DEF Remembers
<1>7. CASE receipt[r].at # "AUTHORITY"
  <2>1. /\ facts' = facts \cup {<<"PurchaseReceiptCompleted", r>>}
        /\ UNCHANGED <<movements, published, item>>
    BY <1>7 DEF CompletePurchaseReceipt, Sent, Unmoved
  <2>2. Grows /\ \A t, o : recorded(t, o)' = recorded(t, o)
    BY <2>1, SameMovements
  <2>3. \A q \in Receipt : came(q)' = came(q) /\ left(q)' = left(q)
    BY <2>2 DEF came, left
  <2>4. receipt[r].at = "TERMINAL"
    BY <1>1, <1>7 DEF ReceiptsOK, ReceiptOK, Node
  <2>5. ReceiptOK(r)'
    BY <1>3, <1>5, <1>7, <2>1, <2>3, <2>4 DEF ReceiptOK, Node
  <2>6. \A q \in Receipt \ {r} : ReceiptOK(q)'
    BY <1>3, <2>1, <2>2, <2>3, OtherReceipt DEF Remembers
  <2>7. ReceiptsOK'
    BY <1>4, <2>5, <2>6 DEF ReceiptsOK
  <2>8. RecordsOK'
    BY <1>1, <1>3, <2>1 DEF RecordsOK
  <2> QED BY <1>1, <2>1, <2>7, <2>8, UnmovedPublishes, StepByParts DEF Remembers
<1> QED BY <1>6, <1>7

LEMMA ReversePurchaseReceiptInv ==
  ASSUME StockInv, NEW r \in Receipt, ReversePurchaseReceipt(r)
  PROVE  StockInv'
<1> USE DEF StockInv
<1>1. /\ receipt[r].status = "COMPLETED" /\ receipt[r].at = "AUTHORITY"
      /\ receipt' = [receipt EXCEPT ![r].status = "REVERSED"]
      /\ UNCHANGED <<item, count, sale, facts, published, reference>>
  BY DEF ReversePurchaseReceipt, assertCanReverse
<1>2. PICK i \in came(r) :
        movements' \in appendMovement(
          movement("ADJUSTMENT_OUT", movements[i].quantity, movements[i].cost, r), TRUE)
  BY DEF ReversePurchaseReceipt, came
<1>3. /\ movements[i].quantity = receipt[r].quantity /\ movements[i].cost = receipt[r].cost
      /\ left(r) = {} /\ <<"PurchaseReceiptCompleted", r>> \notin facts
      /\ \A k, j \in came(r) : k = j
  BY <1>1 DEF ReceiptsOK, ReceiptOK
<1>4. receipt[r].quantity \in Nat /\ receipt[r].cost # None
  <2>1. receipt[r].quantity \in Nat /\ receipt[r].cost \in Nat
    BY DEF RecordsOK, ReceiptRecord
  <2> QED BY <2>1
<1>5. Adds("ADJUSTMENT_OUT", receipt[r].quantity, receipt[r].cost, r)
  BY <1>2, <1>3, <1>4, Appending
<1>6. /\ movements'[last].quantity = receipt[r].quantity
      /\ movements'[last].cost = receipt[r].cost
      /\ \A k \in 1..Len(movements) : movements'[k] = movements[k]
  BY <1>4, <1>5 DEF Adds
<1>7. came(r)' = came(r) /\ left(r)' = {last}
  BY <1>3, <1>5, AddedIsRecorded DEF came, left
<1>8. \A q \in Receipt \ {r} : came(q)' = came(q) /\ left(q)' = left(q)
  BY <1>5, AddingGrows DEF came, left
<1>9. /\ receipt'[r].status = "REVERSED" /\ receipt'[r].at = "AUTHORITY"
      /\ receipt'[r].quantity = receipt[r].quantity /\ receipt'[r].cost = receipt[r].cost
      /\ \A q \in Receipt \ {r} : receipt'[q] = receipt[q]
      /\ receipt' \in [Receipt -> ReceiptRecord]
  BY <1>1 DEF RecordsOK, ReceiptRecord
<1>10. ReceiptOK(r)'
  <2>1. \A k \in came(r) : /\ movements'[k].quantity = receipt[r].quantity
                           /\ movements'[k].cost = receipt[r].cost
    <3>1. came(r) \subseteq 1..Len(movements)
      BY Lengths DEF came, recorded
    <3>2. ReceiptOK(r)
      BY DEF ReceiptsOK
    <3> QED BY <1>6, <3>1, <3>2 DEF ReceiptOK
  <2>2. came(r) # {}
    BY <1>2
  <2> QED BY <1>1, <1>3, <1>6, <1>7, <1>9, <2>1, <2>2 DEF ReceiptOK, Node
<1>11. \A q \in Receipt \ {r} : ReceiptOK(q)'
  BY <1>1, <1>5, <1>8, <1>9, AddingGrows, OtherReceipt DEF Remembers
<1>12. SourcesOK'
  BY <1>9 DEF ReceiptsOK, SourcesOK
<1>13. ReceiptsOK'
  BY <1>10, <1>11, <1>12 DEF ReceiptsOK
<1>14. RecordsOK'
  BY <1>1, <1>9 DEF RecordsOK
<1>15. PublishesStock
  BY <1>1, UnmovedPublishes
<1> QED BY <1>1, <1>5, <1>13, <1>14, <1>15, StepByParts DEF Remembers

LEMMA LooseMovements ==
  ASSUME StockInv, ReceivePurchase \/ RegisterStockAdjustment
  PROVE  StockInv'
<1> USE DEF StockInv
<1>1. /\ UNCHANGED <<receipt, count, sale, facts, reference>>
      /\ item' \in Identity
  BY DEF ReceivePurchase, RegisterStockAdjustment, RecordsOK, Identity
<1>2. \E type, quantity, cost : Adds(type, quantity, cost, None) /\ PublishesStock
  <2>1. Quantity \subseteq Nat
    BY DEF Quantity
  <2>2. CASE ReceivePurchase
    <3>1. PICK quantity \in Quantity :
            Moved(appendMovement(movement("PURCHASE_RECEIPT", quantity, None, None), TRUE))
      BY <2>2 DEF ReceivePurchase
    <3> QED BY <1>1, <2>1, <3>1, MovedPublishes
  <2>3. CASE RegisterStockAdjustment
    <3>1. PICK type \in AdjustmentType, quantity \in Quantity :
            Moved(appendMovement(movement(type, quantity, None, None), TRUE))
      BY <2>3 DEF RegisterStockAdjustment
    <3> QED BY <1>1, <2>1, <3>1, MovedPublishes
  <2> QED BY <2>2, <2>3
<1>3. RecordsOK'
  BY <1>1 DEF RecordsOK
<1>4. None \notin StockCount /\ None \notin Receipt /\ None \notin Sale
  OBVIOUS
<1> QED BY <1>1, <1>2, <1>3, <1>4, StepByParts DEF Remembers

LEMMA ApplyPurchaseReceiptCompletedInv ==
  ASSUME StockInv, NEW r \in Receipt, ApplyPurchaseReceiptCompleted(r)
  PROVE  StockInv'
<1> USE DEF StockInv
<1>1. /\ <<"PurchaseReceiptCompleted", r>> \in facts /\ came(r) = {}
      /\ Received(r) /\ UNCHANGED <<receipt, count, sale, facts, reference>>
  BY DEF ApplyPurchaseReceiptCompleted, pending, Settled, came
<1>2. /\ Adds("PURCHASE_RECEIPT", receipt[r].quantity, receipt[r].cost, r)
      /\ PublishesStock /\ item' \in Identity
  BY <1>1, Receiving
<1>3. receipt[r].status = "COMPLETED" /\ receipt[r].at = "TERMINAL" /\ left(r) = {}
  BY <1>1 DEF ReceiptsOK, ReceiptOK
<1>4. /\ came(r)' = {last} /\ left(r)' = {}
      /\ movements'[last].quantity = receipt[r].quantity
      /\ movements'[last].cost = receipt[r].cost
      /\ \A q \in Receipt \ {r} : came(q)' = came(q) /\ left(q)' = left(q)
  BY <1>1, <1>2, <1>3, GoodsCome
<1>5. ReceiptOK(r)'
  BY <1>1, <1>3, <1>4 DEF ReceiptOK, Node
<1>6. \A q \in Receipt \ {r} : ReceiptOK(q)'
  BY <1>1, <1>2, <1>4, AddingGrows, OtherReceipt DEF Remembers
<1>7. ReceiptsOK'
  BY <1>1, <1>5, <1>6 DEF ReceiptsOK, SourcesOK
<1>8. RecordsOK'
  BY <1>1, <1>2 DEF RecordsOK
<1> QED BY <1>1, <1>2, <1>7, <1>8, StepByParts DEF Remembers

-----------------------------------------------------------------------------
(* Physical counts.                                                        *)

LEMMA StockIsAnInteger ==
  ASSUME MovementsOK, NEW n \in 0..Len(movements) PROVE stockAfter(movements, n) \in Int
BY Lengths DEF MovementsOK, Sound, stockAfter

(* A step of a count that moves nothing.                                   *)
LEMMA CountingStep ==
  ASSUME StockInv, NEW c \in StockCount, CountOK(c)', count' \in [StockCount -> CountRecord],
         \A d \in StockCount \ {c} :
           count'[d] = count[d] /\ Remembers("StockCountApproved", {d}),
         Remembers("SaleCompleted", Sale), Remembers("SaleReturned", Sale),
         Remembers("PurchaseReceiptCompleted", Receipt),
         UNCHANGED <<item, movements, receipt, sale, published, reference>>
  PROVE  StockInv'
<1>1. Grows /\ \A t, o : recorded(t, o)' = recorded(t, o)
  BY SameMovements DEF StockInv
<1>2. \A d \in StockCount \ {c} : CountOK(d)'
  BY <1>1, OtherCount DEF adjustments
<1>3. CountsOK'
  BY <1>2 DEF CountsOK
<1>4. RecordsOK'
  BY DEF StockInv, RecordsOK
<1>5. PublishesStock
  BY UnmovedPublishes
<1> QED BY <1>3, <1>4, <1>5, StepByParts

LEMMA CountingInv ==
  ASSUME StockInv, NEW c \in StockCount,
         \/ \E at \in Node : OpenStockCount(c, at)
         \/ RecordStockCountLine(c) \/ CloseStockCount(c) \/ RejectStockCount(c)
  PROVE  StockInv'
<1> USE DEF StockInv
<1>1. UNCHANGED <<item, movements, receipt, sale, facts, published, reference>>
  BY DEF OpenStockCount, RecordStockCountLine, CloseStockCount, RejectStockCount
<1>2. adjustments(c)' = adjustments(c)
  BY <1>1 DEF adjustments, recorded
<1>3. count[c] \in CountRecord /\ CountOK(c)
  BY DEF RecordsOK, CountsOK
<1>4. /\ count[c].status # "APPROVED" /\ adjustments(c) = {}
      /\ <<"StockCountApproved", c>> \notin facts
  BY <1>3 DEF OpenStockCount, RecordStockCountLine, CloseStockCount, RejectStockCount, CountOK
<1>5. ASSUME NEW y \in CountRecord, count' = [count EXCEPT ![c] = y], y.at \in Node,
             y.status # "APPROVED",
             y.at = "TERMINAL" /\ y.counted # None => reference.version > 0,
             y.status = "COUNTED" => /\ y.counted \in Nat
                                     /\ y.version - 1 \in 0..Len(movements)
                                     /\ y.expected = stockAfter(movements, y.version - 1)
      PROVE  StockInv'
  <2>1. /\ count' \in [StockCount -> CountRecord] /\ count'[c] = y
        /\ \A d \in StockCount \ {c} : count'[d] = count[d]
    BY <1>5 DEF RecordsOK
  <2>2. CountOK(c)'
    BY <1>1, <1>2, <1>4, <1>5, <2>1 DEF CountOK
  <2> QED BY <1>1, <2>1, <2>2, CountingStep DEF Remembers
<1>6. CASE \E at \in Node : OpenStockCount(c, at)
  <2>1. PICK at \in Node : OpenStockCount(c, at)
    BY <1>6
  <2> DEFINE y == [absentCount EXCEPT !.status = "OPEN", !.at = at]
  <2>2. y \in CountRecord /\ y.at = at /\ y.status = "OPEN" /\ y.counted = None
    <3>1. absentCount \in CountRecord /\ absentCount.counted = None
      BY DEF absentCount, CountRecord
    <3> QED BY <3>1 DEF CountRecord
  <2>3. count' = [count EXCEPT ![c] = y]
    BY <2>1 DEF OpenStockCount
  <2> HIDE DEF y
  <2> QED BY <1>5, <2>2, <2>3
<1>7. CASE RecordStockCountLine(c)
  <2>1. /\ count[c].status = "OPEN"
        /\ count[c].at # "AUTHORITY" => reference.version > 0
    BY <1>7 DEF RecordStockCountLine, known
  <2>2. PICK quantity \in Counted : count' = [count EXCEPT ![c].counted = quantity]
    BY <1>7 DEF RecordStockCountLine
  <2> DEFINE y == [count[c] EXCEPT !.counted = quantity]
  <2>3. count' = [count EXCEPT ![c] = y]
    BY <2>2 DEF RecordsOK
  <2>4. y \in CountRecord /\ y.at = count[c].at /\ y.status = "OPEN"
    BY <1>3, <2>1 DEF CountRecord
  <2>5. count[c].at \in Node
    BY <1>3, <2>1 DEF CountOK
  <2> HIDE DEF y
  <2> QED BY <1>5, <2>1, <2>3, <2>4, <2>5
<1>8. CASE CloseStockCount(c)
  <2> DEFINE e == expected(count[c].at)
             y == [count[c] EXCEPT !.status = "COUNTED", !.expected = e.quantity,
                                   !.version = e.version]
  <2>1. count[c].status = "OPEN" /\ count[c].counted # None /\ count[c].at \in Node
    BY <1>3, <1>8 DEF CloseStockCount, CountOK
  <2>2. count[c].at = "TERMINAL" => reference.version > 0
    BY <1>3, <2>1 DEF CountOK
  <2>3. e.version - 1 \in 0..Len(movements) /\ e.quantity = stockAfter(movements, e.version - 1)
    <3>1. CASE count[c].at = "AUTHORITY"
      <4>1. e.version = Len(movements) + 1 /\ e.quantity = balance(movements)
        BY <3>1 DEF expected
      <4> HIDE DEF e
      <4> QED BY <4>1, Lengths
    <3>2. CASE count[c].at # "AUTHORITY"
      <4>1. e.version = reference.version /\ e.quantity = reference.quantity
        BY <3>2 DEF expected
      <4>2. reference \in published
        <5>1. count[c].at = "TERMINAL"
          BY <2>1, <3>2 DEF Node
        <5> QED BY <2>2, <5>1 DEF ReferencesOK, noReference
      <4> HIDE DEF e
      <4> QED BY <4>1, <4>2 DEF ReferencesOK
    <3> QED BY <3>1, <3>2
  <2>4. e.version \in Nat /\ e.quantity \in Int
    <3>1. e.version \in Nat
      <4>1. e.version = Len(movements) + 1 \/ e.version = reference.version
        BY DEF expected
      <4> HIDE DEF e
      <4>2. reference.version \in Nat
        BY DEF ReferencesOK, noReference
      <4> QED BY <4>1, <4>2, Lengths
    <3> HIDE DEF e
    <3> QED BY <2>3, <3>1, StockIsAnInteger
  <2>5. count' = [count EXCEPT ![c] = y]
    BY <1>8 DEF CloseStockCount, RecordsOK
  <2> HIDE DEF e
  <2>6. /\ y \in CountRecord /\ y.at = count[c].at /\ y.status = "COUNTED"
        /\ y.counted = count[c].counted /\ y.expected = e.quantity /\ y.version = e.version
    BY <1>3, <2>4 DEF CountRecord
  <2> HIDE DEF y
  <2>7. y.counted \in Nat
    BY <1>3, <2>1, <2>6 DEF CountRecord
  <2> QED BY <1>5, <2>1, <2>2, <2>3, <2>5, <2>6, <2>7
<1>9. CASE RejectStockCount(c)
  <2> DEFINE y == [count[c] EXCEPT !.status = "REJECTED"]
  <2>1. count' = [count EXCEPT ![c] = y] /\ count[c].status = "COUNTED"
    BY <1>9 DEF RejectStockCount, RecordsOK
  <2>2. /\ y \in CountRecord /\ y.at = count[c].at /\ y.status = "REJECTED"
        /\ y.counted = count[c].counted
    BY <1>3 DEF CountRecord
  <2> HIDE DEF y
  <2> QED BY <1>3, <1>5, <2>1, <2>2 DEF CountOK
<1> QED BY <1>6, <1>7, <1>8, <1>9

(* The movement of an approved count that had none.                        *)
LEMMA Adjusting ==
  ASSUME StockInv, NEW c \in StockCount, count[c].status \in {"COUNTED", "APPROVED"},
         Adjusted(c), adjustments(c) = {}, reference' = reference
  PROVE  /\ PublishesStock
         /\ \/ difference(c) = 0 /\ movements' = movements
            \/ /\ \E type, quantity, cost : Adds(type, quantity, cost, c)
               /\ adjustments(c)' = {last} /\ signed(movements'[last]) = difference(c)
         /\ \A d \in StockCount \ {c} : adjustments(d)' = adjustments(d)
<1> DEFINE n == difference(c)
           type == IF n > 0 THEN "ADJUSTMENT_IN" ELSE "ADJUSTMENT_OUT"
           quantity == IF n > 0 THEN n ELSE -n
<1>0. MovementsOK
  BY DEF StockInv
<1>1. n \in Int
  <2>1. count[c].counted \in Nat /\ count[c].expected \in Int
    BY DEF StockInv, CountsOK, CountOK, RecordsOK, CountRecord
  <2> QED BY <2>1 DEF difference
<1>2. CASE n = 0
  <2>1. UNCHANGED <<movements, published>>
    BY <1>2 DEF Adjusted, Unmoved
  <2>2. \A t, o : recorded(t, o)' = recorded(t, o)
    BY <1>0, <2>1, SameMovements
  <2> QED BY <1>2, <2>1, <2>2, UnmovedPublishes DEF adjustments
<1>3. CASE n # 0
  <2>1. Moved(appendMovement(movement(type, quantity, None, c), TRUE))
    BY <1>3 DEF Adjusted
  <2>2. quantity \in Nat
    BY <1>1
  <2>3. type \in {"ADJUSTMENT_IN", "ADJUSTMENT_OUT"}
    OBVIOUS
  <2>4. (type = "ADJUSTMENT_IN" /\ quantity = n) \/ (type = "ADJUSTMENT_OUT" /\ -quantity = n)
    BY <1>1
  <2> HIDE DEF type, quantity, n
  <2>5. Adds(type, quantity, None, c) /\ PublishesStock
    BY <1>0, <2>1, <2>2, MovedPublishes
  <2>6. adjustments(c)' = {last}
    <3>1. \A t : recorded(t, c)' = IF t = type THEN recorded(t, c) \cup {last} ELSE recorded(t, c)
      BY <1>0, <2>5, AddedIsRecorded
    <3> QED BY <2>3, <3>1 DEF adjustments
  <2>7. signed(movements'[last]) = n
    <3>1. movements'[last].type = type /\ movements'[last].quantity = quantity
      BY <2>5 DEF Adds
    <3> QED BY <2>4, <3>1 DEF signed, incoming
  <2>8. \A d \in StockCount \ {c} : adjustments(d)' = adjustments(d)
    BY <1>0, <2>5, AddingGrows DEF adjustments
  <2> QED BY <2>5, <2>6, <2>7, <2>8 DEF n
<1> QED BY <1>2, <1>3

LEMMA ApproveStockCountInv ==
  ASSUME StockInv, NEW c \in StockCount, ApproveStockCount(c)
  PROVE  StockInv'
<1> USE DEF StockInv
<1>1. /\ count[c].status = "COUNTED" /\ count' = [count EXCEPT ![c].status = "APPROVED"]
      /\ UNCHANGED <<item, receipt, sale, reference>>
  BY DEF ApproveStockCount
<1>2. CountOK(c) /\ count[c] \in CountRecord /\ adjustments(c) = {} /\ count[c].at \in Node
  BY <1>1 DEF CountsOK, CountOK, RecordsOK
<1>3. /\ count'[c].status = "APPROVED" /\ count'[c].at = count[c].at
      /\ count'[c].counted = count[c].counted /\ count'[c].expected = count[c].expected
      /\ count'[c].version = count[c].version
      /\ \A d \in StockCount \ {c} : count'[d] = count[d]
      /\ count' \in [StockCount -> CountRecord]
  BY <1>1, <1>2 DEF RecordsOK, CountRecord
<1>4. difference(c)' = difference(c)
  BY <1>3 DEF difference
<1>5. RecordsOK'
  BY <1>1, <1>3 DEF RecordsOK
<1>6. /\ count[c].counted \in Nat /\ count[c].version - 1 \in 0..Len(movements)
      /\ count[c].expected = stockAfter(movements, count[c].version - 1)
      /\ count[c].at = "TERMINAL" /\ count[c].counted # None => reference.version > 0
  BY <1>1, <1>2 DEF CountOK
<1>7. CASE count[c].at = "AUTHORITY"
  <2>1. Adjusted(c) /\ UNCHANGED facts
    BY <1>7 DEF ApproveStockCount
  <2>2. PublishesStock
    BY <1>1, <1>2, <2>1, Adjusting
  <2>3. \/ difference(c) = 0 /\ movements' = movements
        \/ /\ \E type, quantity, cost : Adds(type, quantity, cost, c)
           /\ adjustments(c)' = {last} /\ signed(movements'[last]) = difference(c)
    BY <1>1, <1>2, <2>1, Adjusting
  <2>4. \A d \in StockCount \ {c} : adjustments(d)' = adjustments(d)
    BY <1>1, <1>2, <2>1, Adjusting
  <2>5. Grows
    BY <2>3, OthersUnmoved
  <2>6. adjustments(c)' = {} \/ adjustments(c)' = {last}
    BY <1>2, <2>3, SameMovements DEF adjustments
  <2>7. \A i \in adjustments(c)' : signed(movements'[i]) = difference(c)
    BY <1>2, <2>3, SameMovements DEF adjustments
  <2>8. adjustments(c)' = {} => difference(c) = 0
    BY <2>3
  <2>9. CountOK(c)'
    <3>1. /\ count[c].version - 1 \in 0..Len(movements')
          /\ count[c].expected = stockAfter(movements', count[c].version - 1)
      BY <1>6, <2>5, StockBefore
    <3> QED BY <1>1, <1>2, <1>3, <1>4, <1>6, <2>6, <2>7, <2>8, <3>1 DEF CountOK
  <2>10. \A d \in StockCount \ {c} : CountOK(d)'
    BY <1>1, <1>3, <2>1, <2>4, <2>5, OtherCount DEF Remembers
  <2>11. CountsOK'
    BY <2>9, <2>10 DEF CountsOK
  <2>12. c \notin Receipt /\ c \notin Sale
    OBVIOUS
  <2> QED BY <1>1, <1>5, <2>1, <2>2, <2>3, <2>11, <2>12, StepByParts DEF Remembers
<1>8. CASE count[c].at # "AUTHORITY"
  <2>1. /\ facts' = facts \cup {<<"StockCountApproved", c>>}
        /\ UNCHANGED <<movements, published>>
    BY <1>8 DEF ApproveStockCount, Sent, Unmoved
  <2>2. adjustments(c)' = {}
    BY <1>2, <2>1 DEF adjustments, recorded
  <2>3. CountOK(c)'
    BY <1>1, <1>2, <1>3, <1>6, <1>8, <2>1, <2>2 DEF CountOK
  <2>4. \A d \in StockCount \ {c} : count'[d] = count[d] /\ Remembers("StockCountApproved", {d})
    BY <1>3, <2>1 DEF Remembers
  <2>5. /\ Remembers("SaleCompleted", Sale) /\ Remembers("SaleReturned", Sale)
        /\ Remembers("PurchaseReceiptCompleted", Receipt)
    BY <2>1 DEF Remembers
  <2> QED BY <1>1, <1>3, <2>1, <2>3, <2>4, <2>5, CountingStep
<1> QED BY <1>7, <1>8

LEMMA ApplyStockCountApprovedInv ==
  ASSUME StockInv, NEW c \in StockCount, ApplyStockCountApproved(c)
  PROVE  StockInv'
<1> USE DEF StockInv
<1>1. /\ <<"StockCountApproved", c>> \in facts /\ adjustments(c) = {} /\ difference(c) # 0
      /\ Adjusted(c)
      /\ UNCHANGED <<item, receipt, count, sale, facts, reference>>
  BY DEF ApplyStockCountApproved, pending, Settled, adjustments
<1>2. CountOK(c) /\ count[c].status = "APPROVED"
  BY <1>1 DEF CountsOK, CountOK
<1>3. PublishesStock
  BY <1>1, <1>2, Adjusting
<1>4. /\ \E type, quantity, cost : Adds(type, quantity, cost, c)
      /\ adjustments(c)' = {last} /\ signed(movements'[last]) = difference(c)
  BY <1>1, <1>2, Adjusting
<1>5. \A d \in StockCount \ {c} : adjustments(d)' = adjustments(d)
  BY <1>1, <1>2, Adjusting
<1>6. Grows
  BY <1>4, OthersUnmoved
<1>7. CountOK(c)'
  <2>1. /\ count[c].version - 1 \in 0..Len(movements')
        /\ count[c].expected = stockAfter(movements', count[c].version - 1)
    BY <1>2, <1>6, StockBefore DEF CountOK
  <2>2. difference(c)' = difference(c)
    BY <1>1 DEF difference
  <2> QED BY <1>1, <1>2, <1>4, <2>1, <2>2 DEF CountOK
<1>8. \A d \in StockCount \ {c} : CountOK(d)'
  BY <1>1, <1>5, <1>6, OtherCount DEF Remembers
<1>9. CountsOK'
  BY <1>7, <1>8 DEF CountsOK
<1>10. c \notin Receipt /\ c \notin Sale
  OBVIOUS
<1>11. RecordsOK'
  BY <1>1 DEF RecordsOK
<1> QED BY <1>1, <1>3, <1>4, <1>9, <1>10, <1>11, StepByParts DEF Remembers

-----------------------------------------------------------------------------
(* Sales.                                                                  *)

(* A step of a sale, with at most one movement of its own.                 *)
LEMMA SaleStep ==
  ASSUME StockInv, PublishesStock, NEW s \in Sale, SaleOK(s)', sale' \in [Sale -> SaleRecord],
         \/ movements' = movements
         \/ \E type, quantity, cost : Adds(type, quantity, cost, s),
         \A d \in Sale \ {s} : /\ sale'[d] = sale[d]
                               /\ Remembers("SaleCompleted", {d}) /\ Remembers("SaleReturned", {d}),
         Remembers("StockCountApproved", StockCount),
         Remembers("PurchaseReceiptCompleted", Receipt),
         UNCHANGED <<item, receipt, count>>
  PROVE  StockInv'
<1> USE DEF StockInv
<1>1. /\ Grows
      /\ \A d \in Sale \ {s} : out(d)' = out(d) /\ back(d)' = back(d)
  <2>1. CASE movements' = movements
    BY <2>1, SameMovements DEF out, back
  <2>2. CASE \E type, quantity, cost : Adds(type, quantity, cost, s)
    <3>1. PICK type, quantity, cost : Adds(type, quantity, cost, s)
      BY <2>2
    <3> QED BY <3>1, AddingGrows DEF out, back
  <2> QED BY <2>1, <2>2
<1>2. \A d \in Sale \ {s} : SaleOK(d)'
  BY <1>1, OtherSale
<1>3. SalesOK'
  BY <1>2 DEF SalesOK
<1>4. RecordsOK'
  BY DEF RecordsOK
<1>5. s \notin Receipt /\ s \notin StockCount
  OBVIOUS
<1> QED BY <1>3, <1>4, <1>5, StepByParts

LEMMA AddItemToSaleInv ==
  ASSUME StockInv, NEW s \in Sale, NEW at \in Node, AddItemToSale(s, at)
  PROVE  StockInv'
<1> USE DEF StockInv
<1>1. /\ sale[s].status = "ABSENT" /\ costSnapshot(at) \in Nat \cup {None}
      /\ UNCHANGED <<item, movements, receipt, count, facts, published, reference>>
  BY DEF AddItemToSale
<1>2. PICK quantity \in Quantity :
        sale' = [sale EXCEPT ![s] = [status |-> "DRAFT", at |-> at, quantity |-> quantity,
                                     cost |-> costSnapshot(at)]]
  BY DEF AddItemToSale
<1>3. /\ sale'[s].status = "DRAFT" /\ \A d \in Sale \ {s} : sale'[d] = sale[d]
      /\ sale' \in [Sale -> SaleRecord]
  BY <1>1, <1>2 DEF RecordsOK, SaleRecord, Quantity
<1>4. out(s)' = out(s) /\ back(s)' = back(s)
  BY <1>1, SameMovements DEF out, back
<1>5. SaleOK(s)'
  BY <1>1, <1>3, <1>4 DEF SalesOK, SaleOK
<1>6. PublishesStock
  BY <1>1, UnmovedPublishes
<1> QED BY <1>1, <1>3, <1>5, <1>6, SaleStep DEF Remembers

LEMMA SaleStatus ==
  ASSUME StockInv, NEW s \in Sale, NEW status \in {"ABSENT", "DRAFT", "COMPLETED", "RETURNED"},
         sale' = [sale EXCEPT ![s].status = status]
  PROVE  /\ sale'[s].status = status /\ sale'[s].at = sale[s].at
         /\ sale' \in [Sale -> SaleRecord]
         /\ \A d \in Sale \ {s} : sale'[d] = sale[d]
BY DEF StockInv, RecordsOK, SaleRecord

(* The goods of a sale leaving.                                            *)
LEMMA GoodsLeave ==
  ASSUME StockInv, NEW s \in Sale, out(s) = {}, back(s) = {}, NEW quantity, NEW cost,
         Adds("SALE_ISSUE", quantity, cost, s)
  PROVE  out(s)' = {last} /\ back(s)' = {}
BY AddedIsRecorded DEF StockInv, out, back

(* And coming back.                                                        *)
LEMMA GoodsReturn ==
  ASSUME StockInv, NEW s \in Sale, NEW i \in out(s), back(s) = {},
         Adds("ADJUSTMENT_IN", movements[i].quantity, movements[i].cost, s)
  PROVE  /\ out(s)' = out(s) /\ back(s)' = {last}
         /\ \A k \in out(s)', j \in back(s)' :
              /\ k < j /\ movements'[k].quantity = movements'[j].quantity
              /\ movements'[k].cost # None => movements'[k].cost = movements'[j].cost
<1> USE DEF StockInv
<1>1. out(s)' = out(s) /\ back(s)' = {last}
  BY AddedIsRecorded DEF out, back
<1>2. ASSUME NEW k \in out(s)
      PROVE  /\ k < last /\ movements'[k].quantity = movements'[last].quantity
             /\ movements'[k].cost # None => movements'[k].cost = movements'[last].cost
  <2>1. k = i
    BY DEF SalesOK, SaleOK
  <2>2. k \in 1..Len(movements) /\ Len(movements) \in Nat
    BY Lengths DEF out, recorded
  <2>3. k < last
    BY <2>2 DEF last
  <2>4. movements'[k] = movements[k]
    BY <2>2 DEF Adds
  <2> QED BY <2>1, <2>3, <2>4 DEF Adds
<1> QED BY <1>1, <1>2

LEMMA CompleteSaleInv ==
  ASSUME StockInv, NEW s \in Sale, CompleteSale(s)
  PROVE  StockInv'
<1> USE DEF StockInv
<1>1. /\ sale[s].status = "DRAFT" /\ sale' = [sale EXCEPT ![s].status = "COMPLETED"]
      /\ UNCHANGED <<item, receipt, count, reference>>
  BY DEF CompleteSale
<1>2. /\ out(s) = {} /\ back(s) = {} /\ <<"SaleReturned", s>> \notin facts
  BY <1>1 DEF SalesOK, SaleOK
<1>3. /\ sale'[s].status = "COMPLETED" /\ sale' \in [Sale -> SaleRecord]
      /\ \A d \in Sale \ {s} : sale'[d] = sale[d]
  BY <1>1, SaleStatus
<1>4. ASSUME movements' = movements, published' = published,
             \/ facts' = facts
             \/ facts' = facts \cup {<<"SaleCompleted", s>>}
      PROVE  StockInv'
  <2>1. out(s)' = {} /\ back(s)' = {}
    BY <1>2, <1>4, SameMovements DEF out, back
  <2>2. SaleOK(s)'
    BY <1>2, <1>3, <1>4, <2>1 DEF SaleOK
  <2>3. PublishesStock
    BY <1>1, <1>4, UnmovedPublishes
  <2>4. /\ \A d \in Sale \ {s} : Remembers("SaleCompleted", {d}) /\ Remembers("SaleReturned", {d})
        /\ Remembers("StockCountApproved", StockCount)
        /\ Remembers("PurchaseReceiptCompleted", Receipt)
    BY <1>4 DEF Remembers
  <2> QED BY <1>1, <1>3, <1>4, <2>2, <2>3, <2>4, SaleStep
<1>5. CASE sale[s].at = "TERMINAL"
  BY <1>4, <1>5 DEF CompleteSale, Sent, Unmoved
<1>6. CASE sale[s].at # "TERMINAL" /\ balance(movements) < sale[s].quantity
  BY <1>4, <1>6 DEF CompleteSale, Unmoved
<1>7. CASE sale[s].at # "TERMINAL" /\ ~(balance(movements) < sale[s].quantity)
  <2>1. /\ facts' = facts
        /\ Moved(appendMovement(movement("SALE_ISSUE", sale[s].quantity, None, s), TRUE))
    BY <1>7 DEF CompleteSale
  <2>2. sale[s].quantity \in Nat
    BY DEF RecordsOK, SaleRecord
  <2>3. Adds("SALE_ISSUE", sale[s].quantity, None, s) /\ PublishesStock
    BY <1>1, <2>1, <2>2, MovedPublishes
  <2>4. out(s)' = {last} /\ back(s)' = {}
    BY <1>2, <2>3, GoodsLeave
  <2>5. SaleOK(s)'
    BY <1>2, <1>3, <2>1, <2>4 DEF SaleOK
  <2>6. /\ \A d \in Sale \ {s} : Remembers("SaleCompleted", {d}) /\ Remembers("SaleReturned", {d})
        /\ Remembers("StockCountApproved", StockCount)
        /\ Remembers("PurchaseReceiptCompleted", Receipt)
    BY <2>1 DEF Remembers
  <2> QED BY <1>1, <1>3, <2>3, <2>5, <2>6, SaleStep
<1> QED BY <1>5, <1>6, <1>7

LEMMA ReturnSaleInv ==
  ASSUME StockInv, NEW s \in Sale, ReturnSale(s)
  PROVE  StockInv'
<1> USE DEF StockInv
<1>1. /\ sale[s].status = "COMPLETED" /\ out(s) # {}
      /\ sale' = [sale EXCEPT ![s].status = "RETURNED"]
      /\ UNCHANGED <<item, receipt, count, published, reference>>
  BY DEF ReturnSale, out
<1>2. SaleOK(s) /\ back(s) = {}
  BY <1>1 DEF SalesOK, SaleOK
<1>3. /\ sale'[s].status = "RETURNED" /\ sale'[s].at = sale[s].at
      /\ sale' \in [Sale -> SaleRecord] /\ \A d \in Sale \ {s} : sale'[d] = sale[d]
  BY <1>1, SaleStatus
<1>4. PublishesStock
  BY <1>1, UnmovedPublishes
<1>5. CASE sale[s].at = "TERMINAL"
  <2>1. movements' = movements /\ facts' = facts \cup {<<"SaleReturned", s>>}
    BY <1>5 DEF ReturnSale, Sent
  <2>2. out(s)' = out(s) /\ back(s)' = {}
    BY <1>2, <2>1, SameMovements DEF out, back
  <2>3. SaleOK(s)'
    BY <1>1, <1>2, <1>3, <1>5, <2>1, <2>2 DEF SaleOK
  <2>4. /\ \A d \in Sale \ {s} : Remembers("SaleCompleted", {d}) /\ Remembers("SaleReturned", {d})
        /\ Remembers("StockCountApproved", StockCount)
        /\ Remembers("PurchaseReceiptCompleted", Receipt)
    BY <2>1 DEF Remembers
  <2> QED BY <1>1, <1>3, <1>4, <2>1, <2>3, <2>4, SaleStep
<1>6. CASE sale[s].at # "TERMINAL"
  <2>1. facts' = facts
    BY <1>6 DEF ReturnSale
  <2>2. PICK i \in out(s) :
          movements' \in appendMovement(
            movement("ADJUSTMENT_IN", movements[i].quantity, movements[i].cost, s), TRUE)
    BY <1>6 DEF ReturnSale, Restored, out
  <2>3. movements[i].quantity \in Nat
    BY Lengths DEF MovementsOK, Sound, out, recorded
  <2>4. Adds("ADJUSTMENT_IN", movements[i].quantity, movements[i].cost, s)
    BY <2>2, <2>3, Appending
  <2>5. /\ out(s)' = out(s) /\ back(s)' = {last}
        /\ \A k \in out(s)', j \in back(s)' :
             /\ k < j /\ movements'[k].quantity = movements'[j].quantity
             /\ movements'[k].cost # None => movements'[k].cost = movements'[j].cost
    BY <1>2, <2>4, GoodsReturn
  <2>6. SaleOK(s)'
    BY <1>1, <1>2, <1>3, <2>1, <2>5 DEF SaleOK
  <2>7. /\ \A d \in Sale \ {s} : Remembers("SaleCompleted", {d}) /\ Remembers("SaleReturned", {d})
        /\ Remembers("StockCountApproved", StockCount)
        /\ Remembers("PurchaseReceiptCompleted", Receipt)
    BY <2>1 DEF Remembers
  <2> QED BY <1>1, <1>3, <1>4, <2>4, <2>6, <2>7, SaleStep
<1> QED BY <1>5, <1>6

LEMMA ApplySaleCompletedInv ==
  ASSUME StockInv, NEW s \in Sale, ApplySaleCompleted(s)
  PROVE  StockInv'
<1> USE DEF StockInv
<1>1. /\ <<"SaleCompleted", s>> \in facts /\ out(s) = {}
      /\ Moved(appendMovement(movement("SALE_ISSUE", sale[s].quantity, sale[s].cost, s), FALSE))
      /\ UNCHANGED <<item, receipt, count, sale, facts, reference>>
  BY DEF ApplySaleCompleted, pending, Settled, out
<1>2. SaleOK(s) /\ sale[s].status = "COMPLETED" /\ back(s) = {}
  BY <1>1 DEF SalesOK, SaleOK
<1>3. sale[s].quantity \in Nat /\ sale' \in [Sale -> SaleRecord]
  BY <1>1 DEF RecordsOK, SaleRecord
<1>4. Adds("SALE_ISSUE", sale[s].quantity, sale[s].cost, s) /\ PublishesStock
  BY <1>1, <1>3, MovedPublishes
<1>5. out(s)' = {last} /\ back(s)' = {}
  BY <1>1, <1>2, <1>4, GoodsLeave
<1>6. SaleOK(s)'
  BY <1>1, <1>2, <1>5 DEF SaleOK
<1> QED BY <1>1, <1>3, <1>4, <1>6, SaleStep DEF Remembers

LEMMA ApplySaleReturnedInv ==
  ASSUME StockInv, NEW s \in Sale, ApplySaleReturned(s)
  PROVE  StockInv'
<1> USE DEF StockInv
<1>1. /\ <<"SaleReturned", s>> \in facts /\ back(s) = {}
      /\ UNCHANGED <<item, receipt, count, sale, facts, reference>>
  BY DEF ApplySaleReturned, pending, Settled, back
<1>2. PICK i \in out(s) :
        Moved(appendMovement(
          movement("ADJUSTMENT_IN", movements[i].quantity, movements[i].cost, s), TRUE))
  BY DEF ApplySaleReturned, out
<1>3. SaleOK(s) /\ sale[s].status = "RETURNED" /\ sale' \in [Sale -> SaleRecord]
  BY <1>1 DEF SalesOK, SaleOK, RecordsOK
<1>4. movements[i].quantity \in Nat
  BY Lengths DEF MovementsOK, Sound, out, recorded
<1>5. Adds("ADJUSTMENT_IN", movements[i].quantity, movements[i].cost, s) /\ PublishesStock
  BY <1>1, <1>2, <1>4, MovedPublishes
<1>6. /\ out(s)' = out(s) /\ back(s)' = {last}
      /\ \A k \in out(s)', j \in back(s)' :
           /\ k < j /\ movements'[k].quantity = movements'[j].quantity
           /\ movements'[k].cost # None => movements'[k].cost = movements'[j].cost
  BY <1>1, <1>5, GoodsReturn
<1>7. SaleOK(s)'
  BY <1>1, <1>3, <1>6 DEF SaleOK
<1> QED BY <1>1, <1>3, <1>5, <1>7, SaleStep DEF Remembers

-----------------------------------------------------------------------------
(* Availability, and every step.                                           *)

LEMMA ReferenceStepInv ==
  ASSUME StockInv, ReferenceStep PROVE StockInv'
<1> USE DEF StockInv
<1>1. UNCHANGED <<item, movements, receipt, count, sale, facts>>
  BY DEF ReferenceStep, PublishCatalogBootstrap, ApplyStockAvailability
<1>2. PublishesStock
  <2>1. CASE PublishCatalogBootstrap
    <3>1. published' = published \cup {listStockAvailability} /\ reference' = reference
      BY <2>1 DEF PublishCatalogBootstrap
    <3>2. /\ listStockAvailability.version = Len(movements') + 1
          /\ listStockAvailability.quantity = balance(movements')
      BY <1>1 DEF listStockAvailability
    <3> QED BY <3>1, <3>2 DEF PublishesStock
  <2>2. CASE \E p \in published : ApplyStockAvailability(p)
    BY <2>2 DEF ApplyStockAvailability, newer, PublishesStock
  <2> QED BY <2>1, <2>2 DEF ReferenceStep
<1>3. RecordsOK'
  BY <1>1 DEF RecordsOK
<1>4. None \notin StockCount /\ None \notin Receipt /\ None \notin Sale
  OBVIOUS
<1> QED BY <1>1, <1>2, <1>3, <1>4, StepByParts DEF Remembers

LEMMA StockStuttering ==
  ASSUME StockInv, UNCHANGED stockVars PROVE StockInv'
<1> USE DEF StockInv, stockVars
<1>1. PublishesStock
  BY UnmovedPublishes
<1>2. RecordsOK'
  BY DEF RecordsOK
<1>3. None \notin StockCount /\ None \notin Receipt /\ None \notin Sale
  OBVIOUS
<1> QED BY <1>1, <1>2, <1>3, StepByParts DEF Remembers

LEMMA StockInitInv ==
  ASSUME StockInit PROVE StockInv
<1> USE DEF StockInit
<1>1. RecordsOK
  <2>1. absentReceipt \in ReceiptRecord
    BY DEF absentReceipt, ReceiptRecord, Identity
  <2>2. absentCount \in CountRecord
    BY DEF absentCount, CountRecord
  <2>3. absentSale \in SaleRecord
    BY DEF absentSale, SaleRecord
  <2> QED BY <2>1, <2>2, <2>3 DEF RecordsOK, Identity
<1>2. MovementsOK /\ Len(movements) = 0 /\ \A t, o : recorded(t, o) = {}
  <2>1. movements \in Seq({}) /\ Len(movements) = 0 /\ DOMAIN movements = {}
    OBVIOUS
  <2> QED BY <2>1 DEF MovementsOK, Sound, recorded
<1>3. ReferencesOK
  BY DEF ReferencesOK
<1>4. CountsOK
  BY <1>2 DEF CountsOK, CountOK, absentCount, adjustments
<1>5. ReceiptsOK
  BY <1>2 DEF ReceiptsOK, ReceiptOK, SourcesOK, absentReceipt, came, left
<1>6. SalesOK
  BY <1>2 DEF SalesOK, SaleOK, absentSale, out, back
<1> QED BY <1>1, <1>2, <1>3, <1>4, <1>5, <1>6 DEF StockInv

LEMMA StockInvStep ==
  ASSUME StockInv, [StockNext]_stockVars PROVE StockInv'
<1>1. CASE PurchaseStep
  BY <1>1, StartPurchaseReceiptInv, CompletePurchaseReceiptInv, ReversePurchaseReceiptInv,
     LooseMovements DEF PurchaseStep
<1>2. CASE CountStep
  BY <1>2, CountingInv, ApproveStockCountInv DEF CountStep
<1>3. CASE SaleStockStep
  BY <1>3, AddItemToSaleInv, CompleteSaleInv, ReturnSaleInv DEF SaleStockStep
<1>4. CASE InventoryAuthorityStep
  BY <1>4, ApplyPurchaseReceiptCompletedInv, ApplyStockCountApprovedInv, ApplySaleCompletedInv,
     ApplySaleReturnedInv DEF InventoryAuthorityStep
<1>5. CASE ReferenceStep
  BY <1>5, ReferenceStepInv
<1>6. CASE UNCHANGED stockVars
  BY <1>6, StockStuttering
<1> QED BY <1>1, <1>2, <1>3, <1>4, <1>5, <1>6 DEF StockNext

-----------------------------------------------------------------------------
(* Results.                                                                *)

(* Between operations, references say what there was, every count, receipt *)
(* and sale has moved the goods it says and no others, whatever the facts  *)
(* of the terminal were repeated or delayed.                               *)
THEOREM StockInvariance == StockSpec => []StockInv
BY StockInitInv, StockInvStep, PTL DEF StockSpec

LEMMA StockUpTo ==
  ASSUME MovementsOK, NEW version \in Nat, version - 1 \in 0..Len(movements)
  PROVE  balance(upTo(version)) = stockAfter(movements, version - 1)
<1> DEFINE n == version - 1
           ms == SubSeq(movements, 1, n)
<1>1. PICK S : movements \in Seq(S)
  BY DEF MovementsOK, Sound
<1>2. n \in 0..Len(movements) /\ Len(movements) \in Nat
  BY <1>1
<1>3. Len(ms) = n /\ (\A i \in 1..n : ms[i] = movements[i]) /\ (ms = <<>> <=> n = 0)
  BY <1>1, <1>2
<1>4. upTo(version) = ms
  BY DEF upTo
<1> HIDE DEF n, ms
<1>5. balance(ms) = stockAfter(movements, n)
  BY <1>2, <1>3 DEF balance, stockAfter
<1> QED BY <1>4, <1>5 DEF n

(* Every availability that was published, and the one the terminal holds,  *)
(* is the stock after the movements its version counts.                    *)
THEOREM ReferencesSayWhatThereWas == StockSpec => []ReferencesAreSnapshots
<1>1. StockInv => ReferencesAreSnapshots
  <2> SUFFICES ASSUME StockInv, NEW p \in published \cup ({reference} \ {noReference})
               PROVE  /\ p.version - 1 \in 0..Len(movements)
                      /\ p.quantity = balance(upTo(p.version))
    BY DEF ReferencesAreSnapshots
  <2>1. p \in published
    BY DEF StockInv, ReferencesOK
  <2>2. /\ p.version - 1 \in 0..Len(movements) /\ p.version \in Nat
        /\ p.quantity = stockAfter(movements, p.version - 1)
    BY <2>1 DEF StockInv, ReferencesOK
  <2> QED BY <2>2, StockUpTo DEF StockInv
<1> QED BY <1>1, StockInvariance, PTL

(* The movement of a count takes the stock it was closed against to what   *)
(* was counted; there is at most one, and none before the approval.        *)
THEOREM CountsAreApplied == StockSpec => []CountsLandOnWhatWasCounted
<1>1. StockInv => CountsLandOnWhatWasCounted
  <2> SUFFICES ASSUME StockInv, NEW c \in StockCount
               PROVE
        /\ count[c].status # "APPROVED" => adjustments(c) = {}
        /\ Cardinality(adjustments(c)) <= 1
        /\ \A i \in adjustments(c) :
             count[c].counted = balance(upTo(count[c].version)) + signed(movements[i])
        /\ count[c].status = "APPROVED" /\ count[c].at = "AUTHORITY" /\ adjustments(c) = {} =>
             count[c].counted = balance(upTo(count[c].version))
    BY DEF CountsLandOnWhatWasCounted
  <2>1. CountOK(c) /\ count[c] \in CountRecord
    BY DEF StockInv, CountsOK, RecordsOK
  <2>2. Cardinality(adjustments(c)) <= 1
    BY <2>1, AtMostOne DEF CountOK
  <2>3. count[c].status = "APPROVED" =>
          /\ count[c].counted \in Nat /\ count[c].expected \in Int
          /\ count[c].expected = balance(upTo(count[c].version))
    BY <2>1, StockUpTo DEF CountOK, CountRecord, StockInv
  <2> QED BY <2>1, <2>2, <2>3 DEF CountOK, difference
<1> QED BY <1>1, StockInvariance, PTL

(* The goods of a receipt are in the stock once, out once it is reversed,  *)
(* and those of a source document of a node once.                          *)
THEOREM ReceiptsEnterOnce == StockSpec => []ReceiptsAreInStockOnce
<1>1. StockInv => ReceiptsAreInStockOnce
  <2> SUFFICES ASSUME StockInv PROVE ReceiptsAreInStockOnce
    OBVIOUS
  <2>1. ASSUME NEW r \in Receipt
        PROVE  /\ Cardinality(came(r)) + Cardinality(left(r))
                    \in (CASE receipt[r].status = "REVERSED" -> {2}
                           [] receipt[r].status = "COMPLETED" /\ receipt[r].at = "AUTHORITY" -> {1}
                           [] receipt[r].status = "COMPLETED" -> {0, 1}
                           [] OTHER -> {0})
               /\ \A m \in {movements[i] : i \in came(r)} \cup {movements[i] : i \in left(r)} :
                    m.quantity = receipt[r].quantity /\ m.cost = receipt[r].cost
               /\ {movements[i] : i \in left(r)} # {} => {movements[i] : i \in came(r)} # {}
    <3>1. ReceiptOK(r) /\ receipt[r] \in ReceiptRecord
      BY DEF StockInv, ReceiptsOK, RecordsOK
    <3>2. /\ Cardinality(came(r)) \in {0, 1} /\ Cardinality(left(r)) \in {0, 1}
          /\ came(r) # {} => Cardinality(came(r)) = 1
          /\ left(r) # {} => Cardinality(left(r)) = 1
      BY <3>1, AtMostOne DEF ReceiptOK
    <3>3. Cardinality({}) = 0
      BY FS_EmptySet
    <3>4. Cardinality(came(r)) + Cardinality(left(r))
            \in (CASE receipt[r].status = "REVERSED" -> {2}
                   [] receipt[r].status = "COMPLETED" /\ receipt[r].at = "AUTHORITY" -> {1}
                   [] receipt[r].status = "COMPLETED" -> {0, 1}
                   [] OTHER -> {0})
      <4> DEFINE a == Cardinality(came(r))
                 b == Cardinality(left(r))
      <4>1. receipt[r].status = "REVERSED" => a = 1 /\ b = 1
        BY <3>1, <3>2 DEF ReceiptOK
      <4>2. receipt[r].status = "COMPLETED" => b = 0
        BY <3>1, <3>3 DEF ReceiptOK
      <4>3. receipt[r].status = "COMPLETED" /\ receipt[r].at = "AUTHORITY" => a = 1
        BY <3>1, <3>2 DEF ReceiptOK
      <4>4. receipt[r].status \in {"ABSENT", "DRAFT"} => a = 0 /\ b = 0
        BY <3>1, <3>3 DEF ReceiptOK
      <4>5. a \in {0, 1} /\ b \in {0, 1}
        BY <3>2
      <4>6. receipt[r].status \in {"ABSENT", "DRAFT", "COMPLETED", "REVERSED"}
        BY <3>1 DEF ReceiptRecord
      <4> HIDE DEF a, b
      <4> QED BY <4>1, <4>2, <4>3, <4>4, <4>5, <4>6 DEF a, b
    <3>5. \A m \in {movements[i] : i \in came(r)} \cup {movements[i] : i \in left(r)} :
            m.quantity = receipt[r].quantity /\ m.cost = receipt[r].cost
      BY <3>1 DEF ReceiptOK
    <3>6. {movements[i] : i \in left(r)} # {} => {movements[i] : i \in came(r)} # {}
      <4>1. left(r) # {} => came(r) # {}
        BY <3>1 DEF ReceiptOK
      <4> QED BY <4>1
    <3> QED BY <3>4, <3>5, <3>6
  <2>2. ASSUME NEW q \in Receipt, NEW r \in Receipt, q # r, receipt[q].at = receipt[r].at,
               receipt[q].source = receipt[r].source, came(q) # {}, came(r) # {}
        PROVE  left(q) \cup left(r) # {}
    <3>1. ReceiptOK(q) /\ ReceiptOK(r) /\ SourcesOK
      BY DEF StockInv, ReceiptsOK
    <3>2. /\ receipt[q].status \in {"COMPLETED", "REVERSED"}
          /\ receipt[r].status \in {"COMPLETED", "REVERSED"}
      <4>1. receipt[q] \in ReceiptRecord /\ receipt[r] \in ReceiptRecord
        BY DEF StockInv, RecordsOK
      <4> QED BY <2>2, <3>1, <4>1 DEF ReceiptOK, ReceiptRecord
    <3> QED BY <2>2, <3>1, <3>2 DEF ReceiptOK, SourcesOK
  <2> QED BY <2>1, <2>2 DEF ReceiptsAreInStockOnce, came, left
<1> QED BY <1>1, StockInvariance, PTL

(* The goods of a sale leave at most once, and come back at most once and  *)
(* as they left.                                                           *)
THEOREM SoldGoodsLeaveAndReturnOnce == StockSpec => []SoldGoodsMoveOnce
<1>1. StockInv => SoldGoodsMoveOnce
  <2> SUFFICES ASSUME StockInv, NEW s \in Sale
               PROVE
        /\ Cardinality(out(s)) <= 1 /\ Cardinality(back(s)) <= Cardinality(out(s))
        /\ sale[s].status \in {"ABSENT", "DRAFT"} => out(s) = {}
        /\ back(s) # {} => sale[s].status = "RETURNED"
        /\ sale[s].status = "RETURNED" /\ sale[s].at = "AUTHORITY" => back(s) # {}
        /\ \A i \in out(s), j \in back(s) :
             /\ i < j /\ movements[i].quantity = movements[j].quantity
             /\ movements[i].cost # None => movements[i].cost = movements[j].cost
    BY DEF SoldGoodsMoveOnce, out, back
  <2>1. SaleOK(s)
    BY DEF StockInv, SalesOK
  <2>2. /\ Cardinality(out(s)) \in {0, 1} /\ Cardinality(back(s)) \in {0, 1}
        /\ out(s) # {} => Cardinality(out(s)) = 1
    BY <2>1, AtMostOne DEF SaleOK
  <2>3. back(s) = {} => Cardinality(back(s)) = 0
    BY FS_EmptySet
  <2>4. back(s) # {} => out(s) # {}
    BY <2>1 DEF SaleOK
  <2>5. Cardinality(out(s)) <= 1 /\ Cardinality(back(s)) <= Cardinality(out(s))
    BY <2>2, <2>3, <2>4
  <2> QED BY <2>1, <2>5 DEF SaleOK
<1> QED BY <1>1, StockInvariance, PTL

-----------------------------------------------------------------------------
(* What the movements are worth: inventoryValue is a fold over the         *)
(* positions of the movements, the last of them outermost.                 *)

Worth == [value : Int, units : Int, known : BOOLEAN]
nothing == [value |-> 0, units |-> 0, known |-> TRUE]
after(acc, m) ==
  IF acc.units + signed(m) = 0 THEN nothing
  ELSE [value |-> IF acc.known /\ m.cost # None THEN acc.value + m.cost * signed(m) ELSE acc.value,
        units |-> acc.units + signed(m),
        known |-> acc.known /\ m.cost # None]
values(ms) == CHOOSE g : g = [s \in SUBSET DOMAIN ms |-> IF s = {} THEN nothing
                                ELSE after(g[s \ {Max(s)}], ms[Max(s)])]

LEMMA ValueIsAFold ==
  ASSUME NEW ms PROVE inventoryValue(ms) = values(ms)[DOMAIN ms]
BY DEF inventoryValue, FoldLeft, MapThenFoldSet, values, after, nothing

LEMMA WorthAfter ==
  ASSUME NEW acc \in Worth, NEW m \in Movement
  PROVE  after(acc, m) \in Worth /\ after(acc, m).units = acc.units + signed(m)
<1>1. signed(m) \in Int
  BY DEF signed, Movement
<1>2. m.cost # None => m.cost \in Int /\ m.cost * signed(m) \in Int
  BY <1>1 DEF Movement
<1>3. (acc.known /\ m.cost # None) \in BOOLEAN /\ acc.value \in Int /\ acc.units \in Int
  BY DEF Worth
<1> QED BY <1>1, <1>2, <1>3 DEF after, nothing, Worth

LEMMA ValuesAreFolded ==
  ASSUME NEW ms \in Seq(Movement)
  PROVE  /\ values(ms)[{}] = nothing
         /\ \A s \in SUBSET DOMAIN ms : s # {} =>
              values(ms)[s] = after(values(ms)[s \ {Max(s)}], ms[Max(s)])
         /\ \A s \in SUBSET DOMAIN ms : values(ms)[s] \in Worth
<1> DEFINE D == DOMAIN ms
           folds(g) == g = [s \in SUBSET D |-> IF s = {} THEN nothing
                                               ELSE after(g[s \ {Max(s)}], ms[Max(s)])]
           c == [s \in SUBSET D |-> Max(s)]
           step == [i \in D |-> [acc \in Worth |-> after(acc, ms[i])]]
           v == values(ms)
<1>1. D = 1..Len(ms) /\ Len(ms) \in Nat /\ IsFiniteSet(D) /\ \A i \in D : ms[i] \in Movement
  BY FS_Interval
<1>2. \A s \in SUBSET D : s # {} => Max(s) \in s /\ c[s] = Max(s) /\ c[s] \in s
  BY <1>1, LargestOfSome
<1>3. nothing \in Worth
  BY DEF nothing, Worth
<1>4. step \in [D -> [Worth -> Worth]] /\ \A i \in D, acc \in Worth : step[i][acc] = after(acc, ms[i])
  BY <1>1, WorthAfter
<1> HIDE DEF D, c, step
<1>5. PICK g \in [SUBSET D -> Worth] : Folds(g, D, c, nothing, step)
  BY <1>1, <1>2, <1>3, <1>4, FoldExists
<1>6. folds(g)
  <2>1. ASSUME NEW s \in SUBSET D, s # {}
        PROVE  step[c[s]][g[s \ {c[s]}]] = after(g[s \ {Max(s)}], ms[Max(s)])
    <3>1. c[s] = Max(s) /\ Max(s) \in D /\ g[s \ {c[s]}] \in Worth
      BY <1>2, <2>1
    <3> QED BY <1>4, <3>1
  <2>2. g = [s \in SUBSET D |-> g[s]]
    OBVIOUS
  <2>3. \A s \in SUBSET D : g[s] = IF s = {} THEN nothing
                                   ELSE after(g[s \ {Max(s)}], ms[Max(s)])
    BY <1>5, <2>1 DEF Folds
  <2> QED BY <2>2, <2>3
<1>7. folds(v)
  <2>1. v = CHOOSE f : folds(f)
    BY DEF values, D
  <2> HIDE DEF folds, v
  <2> QED BY <1>6, <2>1
<1> HIDE DEF v
<1>8. v[{}] = nothing /\ \A s \in SUBSET D : s # {} =>
                           v[s] = after(v[s \ {Max(s)}], ms[Max(s)])
  BY <1>7
<1>9. \A s \in SUBSET D : s # {} /\ v[s \ {c[s]}] \in Worth => v[s] \in Worth
  <2> SUFFICES ASSUME NEW s \in SUBSET D, s # {}, v[s \ {c[s]}] \in Worth
               PROVE  v[s] \in Worth
    OBVIOUS
  <2>1. c[s] = Max(s) /\ Max(s) \in D /\ ms[Max(s)] \in Movement
    BY <1>1, <1>2
  <2>2. v[s] = after(v[s \ {c[s]}], ms[Max(s)])
    BY <1>8, <2>1
  <2> QED BY <2>1, <2>2, WorthAfter
<1>10. \A s \in SUBSET D : v[s] \in Worth
  BY <1>1, <1>2, <1>3, <1>8, <1>9, FoldStaysIn
<1> QED BY <1>8, <1>10 DEF D, v

(* Each movement says the units it leaves, and never less than none.       *)
Chained(ms) ==
  \A i \in 1..Len(ms) : ms[i].after = stockAfter(ms, i - 1) + signed(ms[i])

LEMMA UnitsAreTheBalance ==
  ASSUME NEW ms \in Seq(Movement), Chained(ms)
  PROVE  /\ inventoryValue(ms) \in Worth
         /\ inventoryValue(ms).units = balance(ms) /\ balance(ms) \in Nat
<1> DEFINE v == values(ms)
           G == {n \in Nat : n <= Len(ms) => v[1..n].units = stockAfter(ms, n)}
<1>1. DOMAIN ms = 1..Len(ms) /\ Len(ms) \in Nat /\ \A i \in 1..Len(ms) : ms[i] \in Movement
  OBVIOUS
<1>2. /\ v[{}] = nothing
      /\ \A s \in SUBSET (1..Len(ms)) : s # {} => v[s] = after(v[s \ {Max(s)}], ms[Max(s)])
      /\ \A s \in SUBSET (1..Len(ms)) : v[s] \in Worth
  BY <1>1, ValuesAreFolded
<1> HIDE DEF v
<1>3. 0 \in G
  <2>1. 1..0 = {}
    OBVIOUS
  <2> QED BY <1>2, <2>1 DEF nothing, stockAfter
<1>4. ASSUME NEW n \in Nat, n \in G PROVE n + 1 \in G
  <2> SUFFICES ASSUME n + 1 <= Len(ms)
               PROVE  v[1..(n + 1)].units = stockAfter(ms, n + 1)
    OBVIOUS
  <2> DEFINE s == 1..(n + 1)
  <2>1. s \in SUBSET (1..Len(ms)) /\ s # {} /\ n + 1 \in s /\ \A i \in s : i <= n + 1
    <3>1. Len(ms) \in Nat /\ n + 1 \in Nat /\ n + 1 >= 1
      BY <1>1
    <3>2. \A i \in s : i \in 1..Len(ms) /\ i <= n + 1
      BY <3>1
    <3>3. n + 1 \in s
      BY <3>1
    <3> HIDE DEF s
    <3> QED BY <3>2, <3>3
  <2>2. Max(s) = n + 1
    <3>1. Max(s) \in s /\ \A i \in s : i <= Max(s)
      BY <1>1, <2>1, LargestOfSome
    <3> QED BY <2>1, <3>1
  <2>3. s \ {n + 1} = 1..n /\ 1..n \in SUBSET (1..Len(ms)) /\ n + 1 \in 1..Len(ms)
    BY <1>1
  <2> HIDE DEF s
  <2>4. v[s] = after(v[1..n], ms[n + 1]) /\ v[1..n] \in Worth /\ ms[n + 1] \in Movement
    BY <1>1, <1>2, <2>1, <2>2, <2>3
  <2>5. v[s].units = v[1..n].units + signed(ms[n + 1])
    BY <2>4, WorthAfter
  <2>6. v[1..n].units = stockAfter(ms, n)
    BY <1>1, <1>4
  <2>7. ms[n + 1].after = stockAfter(ms, n) + signed(ms[n + 1])
    BY <2>3 DEF Chained
  <2> QED BY <2>5, <2>6, <2>7 DEF s, stockAfter
<1>5. Len(ms) \in G
  <2> HIDE DEF G
  <2> QED BY <1>1, <1>3, <1>4, CountingUp
<1>6. inventoryValue(ms) = v[1..Len(ms)]
  BY <1>1, ValueIsAFold DEF v
<1>7. balance(ms) = stockAfter(ms, Len(ms)) /\ balance(ms) \in Nat
  BY <1>1 DEF balance, stockAfter, Movement
<1> QED BY <1>1, <1>2, <1>5, <1>6, <1>7

LEMMA RoundedIsANumber ==
  ASSUME NEW value \in Int, NEW units \in Nat \ {0}
  PROVE  divideByQuantity(value, units) \in Int /\ (2 * value + units) \div (2 * units) \in Int
BY DEF divideByQuantity

LEMMA CostsAreNumbers ==
  ASSUME NEW ms \in Seq(Movement), Chained(ms)
  PROVE  averageUnitCost(ms) \in Int \cup {None} /\ costInSql(ms) \in Int \cup {None}
<1>1. averageUnitCost(ms) \in Int \cup {None}
  <2>1. inventoryValue(ms) \in Worth /\ inventoryValue(ms).units \in Nat
    BY UnitsAreTheBalance
  <2>2. inventoryValue(ms).value \in Int
    BY <2>1 DEF Worth
  <2> QED BY <2>1, <2>2, RoundedIsANumber DEF averageUnitCost
<1>2. costInSql(ms) \in Int \cup {None}
  <2> DEFINE valued == {i \in DOMAIN ms : ms[i].cost # None}
             f == [i \in valued |-> ms[i].cost * signed(ms[i])]
  <2>1. DOMAIN ms = 1..Len(ms) /\ Len(ms) \in Nat /\ \A i \in DOMAIN ms : ms[i] \in Movement
    OBVIOUS
  <2>2. IsFiniteSet(valued)
    <3>1. valued \subseteq 1..Len(ms) /\ IsFiniteSet(1..Len(ms))
      BY <2>1, FS_Interval
    <3> QED BY <3>1, FS_Subset
  <2>3. \A i \in valued : ms[i].cost \in Int /\ signed(ms[i]) \in Int
    BY <2>1 DEF Movement, signed
  <2>4. \A i \in valued : ms[i].cost * signed(ms[i]) \in Int
    BY <2>3
  <2>5. f \in [valued -> Int]
    BY <2>4
  <2>6. balance(ms) \in Nat
    BY UnitsAreTheBalance
  <2>7. costInSql(ms) = IF valued = {} \/ balance(ms) <= 0 THEN None
                        ELSE (2 * SumFunction(f) + balance(ms)) \div (2 * balance(ms))
    BY DEF costInSql
  <2> HIDE DEF valued, f
  <2>8. SumFunction(f) \in Int
    <3>1. DOMAIN f = valued /\ \A i \in valued : f[i] \in Int
      BY <2>5
    <3> QED BY <2>2, <3>1, SumOfIntegers DEF SumFunction
  <2>9. CASE valued = {} \/ balance(ms) <= 0
    BY <2>7, <2>9
  <2>10. CASE valued # {} /\ balance(ms) > 0
    <3>1. balance(ms) \in Nat \ {0}
      BY <2>6, <2>10
    <3>2. costInSql(ms) = (2 * SumFunction(f) + balance(ms)) \div (2 * balance(ms))
      BY <2>6, <2>7, <2>10
    <3> QED BY <2>8, <3>1, <3>2, RoundedIsANumber
  <2> QED BY <2>6, <2>9, <2>10
<1> QED BY <1>1, <1>2

-----------------------------------------------------------------------------
(* The types.  What StockInv does not say of them: movements and what is   *)
(* published of them have the types of their rows, every movement says the *)
(* units it leaves, and what has been written down has units.              *)

Fact == {"PurchaseReceiptCompleted", "StockCountApproved", "SaleCompleted", "SaleReturned"}
        \X (Receipt \cup StockCount \cup Sale)

GoodsTyped == /\ movements \in Seq(Movement) /\ Chained(movements)
              /\ published \subseteq Availability
DocumentsTyped ==
  /\ facts \subseteq Fact
  /\ \A r \in Receipt : receipt[r].status # "ABSENT" => receipt[r].quantity # 0
  /\ \A s \in Sale : sale[s].status # "ABSENT" => sale[s].quantity # 0
TypesInv == StockInv /\ GoodsTyped /\ DocumentsTyped

Origin == Receipt \cup StockCount \cup Sale \cup {None}

LEMMA AppendIsTyped ==
  ASSUME movements \in Seq(Movement), Chained(movements), NEW type \in MovementType,
         NEW quantity \in Nat \ {0}, NEW cost \in Int \cup {None}, NEW origin \in Origin,
         NEW infer,
         NEW ms \in appendMovement(movement(type, quantity, cost, origin), infer)
  PROVE  ms \in Seq(Movement) /\ Chained(ms)
<1> DEFINE m == movement(type, quantity, cost, origin)
           total == balance(movements) + signed(m)
           price == inferredCost(m, infer)
           x == [m EXCEPT !.cost = price, !.after = total]
<1>1. ms = Append(movements, x) /\ total >= 0
  BY DEF appendMovement
<1>2. m = [type |-> type, quantity |-> quantity, cost |-> cost, origin |-> origin, after |-> 0]
  BY DEF movement
<1>3. signed(m) \in Int
  BY <1>2 DEF signed
<1>4. balance(movements) \in Nat /\ averageUnitCost(movements) \in Int \cup {None}
  BY UnitsAreTheBalance, CostsAreNumbers
<1>5. total \in Nat
  BY <1>1, <1>3, <1>4
<1>6. price \in Int \cup {None}
  BY <1>2, <1>4 DEF inferredCost
<1>7. m \in Movement
  BY <1>2 DEF Movement, Origin
<1> HIDE DEF total, price, m
<1>8. x \in Movement
  BY <1>5, <1>6, <1>7 DEF Movement
<1>9. signed(x) = signed(m) /\ x.after = total
  BY <1>7 DEF signed, incoming, Movement
<1> HIDE DEF x
<1>10. ms \in Seq(Movement)
  BY <1>1, <1>8
<1>11. Len(movements) \in Nat /\ Len(ms) = Len(movements) + 1 /\ ms[Len(movements) + 1] = x
       /\ \A i \in 1..Len(movements) : ms[i] = movements[i]
  BY <1>1
<1>12. ASSUME NEW i \in 1..Len(ms) PROVE ms[i].after = stockAfter(ms, i - 1) + signed(ms[i])
  <2>1. CASE i = Len(movements) + 1
    <3>1. stockAfter(ms, i - 1) = balance(movements)
      <4>1. i - 1 = Len(movements)
        BY <1>11, <2>1
      <4>2. movements = <<>> <=> Len(movements) = 0
        OBVIOUS
      <4> QED BY <1>11, <4>1, <4>2 DEF stockAfter, balance
    <3> QED BY <1>9, <1>11, <2>1, <3>1 DEF total
  <2>2. CASE i # Len(movements) + 1
    <3>1. i \in 1..Len(movements) /\ (i - 1 = 0 \/ i - 1 \in 1..Len(movements))
      BY <1>11, <2>2
    <3>2. stockAfter(ms, i - 1) = stockAfter(movements, i - 1) /\ ms[i] = movements[i]
      BY <1>11, <3>1 DEF stockAfter
    <3> QED BY <3>1, <3>2 DEF Chained
  <2> QED BY <2>1, <2>2
<1> QED BY <1>10, <1>12 DEF Chained

LEMMA AvailabilityIsTyped ==
  ASSUME NEW ms \in Seq(Movement), Chained(ms)
  PROVE  /\ toStockAvailabilityPublications(ms) \in Availability
         /\ [version |-> Len(ms) + 1, quantity |-> balance(ms), cost |-> costInSql(ms)]
              \in Availability
<1>1. /\ balance(ms) \in Int /\ averageUnitCost(ms) \in Int \cup {None}
      /\ costInSql(ms) \in Int \cup {None} /\ Len(ms) + 1 \in Nat
  BY UnitsAreTheBalance, CostsAreNumbers
<1> QED BY <1>1 DEF toStockAvailabilityPublications, Availability

(* A step appends a typed movement, and publishes what is left or nothing. *)
LEMMA GoodsMove ==
  ASSUME GoodsTyped, NEW type \in MovementType, NEW quantity \in Nat \ {0},
         NEW cost \in Int \cup {None}, NEW origin \in Origin, NEW infer,
         \/ Moved(appendMovement(movement(type, quantity, cost, origin), infer))
         \/ /\ movements' \in appendMovement(movement(type, quantity, cost, origin), infer)
            /\ published' = published
  PROVE  GoodsTyped'
<1>1. movements' \in Seq(Movement) /\ Chained(movements)'
  <2>1. movements' \in appendMovement(movement(type, quantity, cost, origin), infer)
    BY DEF Moved
  <2>2. movements' \in Seq(Movement) /\ Chained(movements')
    BY <2>1, AppendIsTyped DEF GoodsTyped
  <2> QED BY <2>2 DEF Chained, stockAfter
<1>2. published' \in {published, published \cup {toStockAvailabilityPublications(movements')}}
  BY DEF Moved
<1>3. toStockAvailabilityPublications(movements') \in Availability
  BY <1>1, AvailabilityIsTyped DEF Chained, stockAfter
<1> QED BY <1>1, <1>2, <1>3 DEF GoodsTyped

LEMMA GoodsStayPut ==
  ASSUME GoodsTyped, UNCHANGED <<movements, published>> PROVE GoodsTyped'
BY DEF GoodsTyped, Chained, stockAfter

LEMMA RecordedIsTyped ==
  ASSUME movements \in Seq(Movement), NEW type, NEW origin, NEW i \in recorded(type, origin)
  PROVE  movements[i].quantity \in Nat \ {0} /\ movements[i].cost \in Int \cup {None}
<1>1. movements[i] \in Movement
  BY DEF recorded
<1> QED BY <1>1 DEF Movement

LEMMA PurchaseTypes ==
  ASSUME TypesInv, PurchaseStep PROVE GoodsTyped'
<1> USE DEF TypesInv
<1>1. ASSUME NEW r \in Receipt, Received(r), receipt[r].status # "ABSENT" PROVE GoodsTyped'
  <2>1. receipt[r].quantity \in Nat \ {0} /\ receipt[r].cost \in Int
    BY <1>1 DEF StockInv, RecordsOK, ReceiptRecord, DocumentsTyped
  <2>2. "PURCHASE_RECEIPT" \in MovementType /\ r \in Origin
    BY DEF MovementType, Origin
  <2> QED BY <1>1, <2>1, <2>2, GoodsMove DEF Received
<1>2. ASSUME NEW r \in Receipt, CompletePurchaseReceipt(r) PROVE GoodsTyped'
  BY <1>1, <1>2, GoodsStayPut DEF CompletePurchaseReceipt, Unmoved
<1>3. ASSUME NEW r \in Receipt, ReversePurchaseReceipt(r) PROVE GoodsTyped'
  <2>1. PICK i \in recorded("PURCHASE_RECEIPT", r) :
          movements' \in appendMovement(
            movement("ADJUSTMENT_OUT", movements[i].quantity, movements[i].cost, r), TRUE)
    BY <1>3 DEF ReversePurchaseReceipt
  <2>2. movements[i].quantity \in Nat \ {0} /\ movements[i].cost \in Int \cup {None}
    BY RecordedIsTyped DEF GoodsTyped
  <2>3. "ADJUSTMENT_OUT" \in MovementType /\ r \in Origin /\ published' = published
    BY <1>3 DEF MovementType, Origin, ReversePurchaseReceipt
  <2> QED BY <2>1, <2>2, <2>3, GoodsMove
<1>4. /\ AdjustmentType \subseteq MovementType /\ "PURCHASE_RECEIPT" \in MovementType
      /\ Quantity \subseteq Nat \ {0} /\ None \in Origin /\ None \in Int \cup {None}
  BY DEF MovementType, Quantity, Origin
<1>5. CASE ReceivePurchase
  <2>1. PICK quantity \in Quantity :
          Moved(appendMovement(movement("PURCHASE_RECEIPT", quantity, None, None), TRUE))
    BY <1>5 DEF ReceivePurchase
  <2> QED BY <1>4, <2>1, GoodsMove
<1>6. CASE RegisterStockAdjustment
  <2>1. PICK type \in AdjustmentType, quantity \in Quantity :
          Moved(appendMovement(movement(type, quantity, None, None), TRUE))
    BY <1>6 DEF RegisterStockAdjustment
  <2> QED BY <1>4, <2>1, GoodsMove
<1>7. ASSUME NEW r \in Receipt, NEW at \in Node, NEW source \in Source,
             StartPurchaseReceipt(r, at, source)
      PROVE  GoodsTyped'
  BY <1>7, GoodsStayPut DEF StartPurchaseReceipt
<1> QED BY <1>2, <1>3, <1>5, <1>6, <1>7 DEF PurchaseStep

LEMMA AdjustedTypes ==
  ASSUME TypesInv, NEW c \in StockCount, count[c].status \in {"COUNTED", "APPROVED"}, Adjusted(c)
  PROVE  GoodsTyped'
<1> DEFINE n == difference(c)
           type == IF n > 0 THEN "ADJUSTMENT_IN" ELSE "ADJUSTMENT_OUT"
           quantity == IF n > 0 THEN n ELSE -n
<1>1. n \in Int
  <2>1. count[c].counted \in Nat /\ count[c].expected \in Int
    BY DEF TypesInv, StockInv, CountsOK, CountOK, RecordsOK, CountRecord
  <2> QED BY <2>1 DEF difference
<1>2. CASE n = 0
  BY <1>2, GoodsStayPut DEF Adjusted, Unmoved, TypesInv
<1>3. CASE n # 0
  <2>1. Moved(appendMovement(movement(type, quantity, None, c), TRUE))
    BY <1>3 DEF Adjusted
  <2>2. quantity \in Nat \ {0} /\ type \in MovementType
    BY <1>1, <1>3 DEF MovementType
  <2>3. c \in Origin /\ None \in Int \cup {None}
    BY DEF Origin
  <2> HIDE DEF type, quantity, n
  <2> QED BY <2>1, <2>2, <2>3, GoodsMove DEF TypesInv
<1> QED BY <1>2, <1>3

LEMMA CountTypes ==
  ASSUME TypesInv, CountStep PROVE GoodsTyped'
<1>1. PICK c \in StockCount : \/ \E at \in Node : OpenStockCount(c, at)
                              \/ RecordStockCountLine(c) \/ CloseStockCount(c)
                              \/ ApproveStockCount(c) \/ RejectStockCount(c)
  BY DEF CountStep
<1>2. CASE ApproveStockCount(c)
  BY <1>2, AdjustedTypes, GoodsStayPut DEF ApproveStockCount, Unmoved, TypesInv
<1>3. CASE ~ ApproveStockCount(c)
  <2>1. UNCHANGED <<movements, published>>
    BY <1>1, <1>3 DEF OpenStockCount, RecordStockCountLine, CloseStockCount, RejectStockCount
  <2> QED BY <2>1, GoodsStayPut DEF TypesInv
<1> QED BY <1>2, <1>3

LEMMA SaleTypes ==
  ASSUME TypesInv, SaleStockStep PROVE GoodsTyped'
<1> USE DEF TypesInv
<1>0. {"SALE_ISSUE", "ADJUSTMENT_IN"} \subseteq MovementType /\ Sale \subseteq Origin
      /\ None \in Int \cup {None}
  BY DEF MovementType, Origin
<1>1. ASSUME NEW s \in Sale, NEW at \in Node, AddItemToSale(s, at) PROVE GoodsTyped'
  BY <1>1, GoodsStayPut DEF AddItemToSale
<1>2. ASSUME NEW s \in Sale, CompleteSale(s) PROVE GoodsTyped'
  <2>1. sale[s].quantity \in Nat \ {0}
    BY <1>2 DEF CompleteSale, DocumentsTyped, StockInv, RecordsOK, SaleRecord
  <2>2. CASE Moved(appendMovement(movement("SALE_ISSUE", sale[s].quantity, None, s), TRUE))
    BY <1>0, <2>1, <2>2, GoodsMove
  <2>3. CASE Unmoved
    BY <2>3, GoodsStayPut DEF Unmoved
  <2> QED BY <1>2, <2>2, <2>3 DEF CompleteSale
<1>3. ASSUME NEW s \in Sale, ReturnSale(s) PROVE GoodsTyped'
  <2>1. CASE UNCHANGED movements
    BY <1>3, <2>1, GoodsStayPut DEF ReturnSale
  <2>2. CASE Restored(s)
    <3>1. PICK i \in recorded("SALE_ISSUE", s) :
            movements' \in appendMovement(
              movement("ADJUSTMENT_IN", movements[i].quantity, movements[i].cost, s), TRUE)
      BY <2>2 DEF Restored
    <3>2. movements[i].quantity \in Nat \ {0} /\ movements[i].cost \in Int \cup {None}
      BY RecordedIsTyped DEF GoodsTyped
    <3>3. published' = published
      BY <1>3 DEF ReturnSale
    <3> QED BY <1>0, <3>1, <3>2, <3>3, GoodsMove
  <2> QED BY <1>3, <2>1, <2>2 DEF ReturnSale
<1> QED BY <1>1, <1>2, <1>3 DEF SaleStockStep

LEMMA AuthorityTypes ==
  ASSUME TypesInv, InventoryAuthorityStep PROVE GoodsTyped'
<1> USE DEF TypesInv
<1>0. /\ {"SALE_ISSUE", "ADJUSTMENT_IN", "PURCHASE_RECEIPT"} \subseteq MovementType
      /\ Sale \cup Receipt \subseteq Origin
  BY DEF MovementType, Origin
<1>1. ASSUME NEW r \in Receipt, ApplyPurchaseReceiptCompleted(r) PROVE GoodsTyped'
  <2>1. Received(r) /\ receipt[r].status = "COMPLETED"
    BY <1>1 DEF ApplyPurchaseReceiptCompleted, pending, StockInv, ReceiptsOK, ReceiptOK
  <2>2. receipt[r].quantity \in Nat \ {0} /\ receipt[r].cost \in Int
    BY <2>1 DEF StockInv, RecordsOK, ReceiptRecord, DocumentsTyped
  <2> QED BY <1>0, <2>1, <2>2, GoodsMove DEF Received
<1>2. ASSUME NEW c \in StockCount, ApplyStockCountApproved(c) PROVE GoodsTyped'
  <2>1. Adjusted(c) /\ count[c].status = "APPROVED"
    BY <1>2 DEF ApplyStockCountApproved, pending, StockInv, CountsOK, CountOK
  <2> QED BY <2>1, AdjustedTypes
<1>3. ASSUME NEW s \in Sale, ApplySaleCompleted(s) PROVE GoodsTyped'
  <2>1. sale[s].status \in {"COMPLETED", "RETURNED"}
    BY <1>3 DEF ApplySaleCompleted, pending, StockInv, SalesOK, SaleOK
  <2>2. sale[s].quantity \in Nat \ {0} /\ sale[s].cost \in Int \cup {None}
    BY <2>1 DEF DocumentsTyped, StockInv, RecordsOK, SaleRecord
  <2>3. Moved(appendMovement(movement("SALE_ISSUE", sale[s].quantity, sale[s].cost, s), FALSE))
    BY <1>3 DEF ApplySaleCompleted
  <2> QED BY <1>0, <2>2, <2>3, GoodsMove
<1>4. ASSUME NEW s \in Sale, ApplySaleReturned(s) PROVE GoodsTyped'
  <2>1. PICK i \in recorded("SALE_ISSUE", s) :
          Moved(appendMovement(
            movement("ADJUSTMENT_IN", movements[i].quantity, movements[i].cost, s), TRUE))
    BY <1>4 DEF ApplySaleReturned
  <2>2. movements[i].quantity \in Nat \ {0} /\ movements[i].cost \in Int \cup {None}
    BY RecordedIsTyped DEF GoodsTyped
  <2> QED BY <1>0, <2>1, <2>2, GoodsMove
<1> QED BY <1>1, <1>2, <1>3, <1>4 DEF InventoryAuthorityStep

LEMMA ReferenceTypes ==
  ASSUME TypesInv, ReferenceStep PROVE GoodsTyped'
<1> USE DEF TypesInv
<1>1. CASE PublishCatalogBootstrap
  <2>1. movements' = movements /\ published' = published \cup {listStockAvailability}
    BY <1>1 DEF PublishCatalogBootstrap
  <2>2. listStockAvailability \in Availability
    BY AvailabilityIsTyped DEF listStockAvailability, GoodsTyped
  <2> QED BY <2>1, <2>2 DEF GoodsTyped, Chained, stockAfter
<1>2. CASE \E p \in published : ApplyStockAvailability(p)
  BY <1>2, GoodsStayPut DEF ApplyStockAvailability
<1> QED BY <1>1, <1>2 DEF ReferenceStep

LEMMA DocumentTypes ==
  ASSUME TypesInv, StockNext PROVE DocumentsTyped'
<1> USE DEF TypesInv
<1>1. facts' = facts \/ \E f \in Fact : facts' = facts \cup {f}
  BY DEF Fact, Sent, Settled, StockNext, PurchaseStep, CountStep, SaleStockStep,
         InventoryAuthorityStep, ReferenceStep, StartPurchaseReceipt, CompletePurchaseReceipt,
         ReversePurchaseReceipt, ReceivePurchase, RegisterStockAdjustment, OpenStockCount,
         RecordStockCountLine, CloseStockCount, ApproveStockCount, RejectStockCount,
         AddItemToSale, CompleteSale, ReturnSale, ApplyPurchaseReceiptCompleted,
         ApplyStockCountApproved, ApplySaleCompleted, ApplySaleReturned,
         PublishCatalogBootstrap, ApplyStockAvailability
<1>2. \A r \in Receipt : receipt'[r].status # "ABSENT" => receipt'[r].quantity # 0
  <2>1. \/ receipt' = receipt
        \/ \E q \in Receipt :
             \/ \E at, source : StartPurchaseReceipt(q, at, source)
             \/ CompletePurchaseReceipt(q) \/ ReversePurchaseReceipt(q)
    BY DEF Settled, StockNext, PurchaseStep, CountStep, SaleStockStep,
           InventoryAuthorityStep, ReferenceStep, ReceivePurchase, RegisterStockAdjustment,
           OpenStockCount, RecordStockCountLine, CloseStockCount, ApproveStockCount,
           RejectStockCount, AddItemToSale, CompleteSale, ReturnSale,
           ApplyPurchaseReceiptCompleted, ApplyStockCountApproved, ApplySaleCompleted,
           ApplySaleReturned, PublishCatalogBootstrap, ApplyStockAvailability
  <2>2. ASSUME NEW q \in Receipt, NEW at, NEW source, StartPurchaseReceipt(q, at, source),
               NEW r \in Receipt, receipt'[r].status # "ABSENT"
        PROVE  receipt'[r].quantity # 0
    <3>1. PICK quantity \in Quantity, cost \in Cost :
            receipt' = [receipt EXCEPT ![q] =
              [status |-> "DRAFT", at |-> at, source |-> source, item |-> identityFor(q, at),
               quantity |-> quantity, cost |-> cost]]
      BY <2>2 DEF StartPurchaseReceipt
    <3>2. quantity # 0
      BY DEF Quantity
    <3> QED BY <2>2, <3>1, <3>2 DEF StockInv, RecordsOK, DocumentsTyped
  <2>3. ASSUME NEW q \in Receipt, CompletePurchaseReceipt(q) \/ ReversePurchaseReceipt(q),
               NEW r \in Receipt, receipt'[r].status # "ABSENT"
        PROVE  receipt'[r].quantity # 0
    <3>1. /\ receipt[q].status # "ABSENT"
          /\ \E status : receipt' = [receipt EXCEPT ![q].status = status]
      BY <2>3 DEF CompletePurchaseReceipt, ReversePurchaseReceipt, assertCanReverse
    <3>2. receipt'[r].quantity = receipt[r].quantity /\ receipt[r].status # "ABSENT"
      BY <2>3, <3>1 DEF StockInv, RecordsOK, ReceiptRecord
    <3> QED BY <3>2 DEF DocumentsTyped
  <2> QED BY <2>1, <2>2, <2>3 DEF DocumentsTyped
<1>3. \A s \in Sale : sale'[s].status # "ABSENT" => sale'[s].quantity # 0
  <2>1. \/ sale' = sale
        \/ \E d \in Sale : (\E at : AddItemToSale(d, at)) \/ CompleteSale(d) \/ ReturnSale(d)
    BY DEF Settled, StockNext, PurchaseStep, CountStep, SaleStockStep,
           InventoryAuthorityStep, ReferenceStep, StartPurchaseReceipt, CompletePurchaseReceipt,
           ReversePurchaseReceipt, ReceivePurchase, RegisterStockAdjustment,
           OpenStockCount, RecordStockCountLine, CloseStockCount, ApproveStockCount,
           RejectStockCount, ApplyPurchaseReceiptCompleted, ApplyStockCountApproved,
           ApplySaleCompleted, ApplySaleReturned, PublishCatalogBootstrap, ApplyStockAvailability
  <2>2. ASSUME NEW d \in Sale, NEW at, AddItemToSale(d, at),
               NEW s \in Sale, sale'[s].status # "ABSENT"
        PROVE  sale'[s].quantity # 0
    <3>1. PICK quantity \in Quantity :
            sale' = [sale EXCEPT ![d] = [status |-> "DRAFT", at |-> at, quantity |-> quantity,
                                         cost |-> costSnapshot(at)]]
      BY <2>2 DEF AddItemToSale
    <3>2. quantity # 0
      BY DEF Quantity
    <3> QED BY <2>2, <3>1, <3>2 DEF StockInv, RecordsOK, DocumentsTyped
  <2>3. ASSUME NEW d \in Sale, CompleteSale(d) \/ ReturnSale(d),
               NEW s \in Sale, sale'[s].status # "ABSENT"
        PROVE  sale'[s].quantity # 0
    <3>1. /\ sale[d].status # "ABSENT"
          /\ \E status : sale' = [sale EXCEPT ![d].status = status]
      BY <2>3 DEF CompleteSale, ReturnSale
    <3>2. sale'[s].quantity = sale[s].quantity /\ sale[s].status # "ABSENT"
      BY <2>3, <3>1 DEF StockInv, RecordsOK, SaleRecord
    <3> QED BY <3>2 DEF DocumentsTyped
  <2> QED BY <2>1, <2>2, <2>3 DEF DocumentsTyped
<1> QED BY <1>1, <1>2, <1>3 DEF DocumentsTyped

LEMMA TypesInvInit ==
  ASSUME StockInit PROVE TypesInv
<1>1. GoodsTyped
  BY DEF StockInit, GoodsTyped, Chained
<1>2. DocumentsTyped
  BY DEF StockInit, DocumentsTyped, absentReceipt, absentSale
<1> QED BY <1>1, <1>2, StockInitInv DEF TypesInv

LEMMA TypesInvStep ==
  ASSUME TypesInv, [StockNext]_stockVars PROVE TypesInv'
<1>1. StockInv'
  BY StockInvStep DEF TypesInv
<1>2. CASE StockNext
  <2>1. GoodsTyped'
    BY <1>2, PurchaseTypes, CountTypes, SaleTypes, AuthorityTypes, ReferenceTypes DEF StockNext
  <2>2. DocumentsTyped'
    BY <1>2, DocumentTypes
  <2> QED BY <1>1, <2>1, <2>2 DEF TypesInv
<1>3. CASE UNCHANGED stockVars
  <2>1. GoodsTyped'
    BY <1>3, GoodsStayPut DEF stockVars, TypesInv
  <2>2. DocumentsTyped'
    BY <1>3 DEF stockVars, TypesInv, DocumentsTyped
  <2> QED BY <1>1, <2>1, <2>2 DEF TypesInv
<1> QED BY <1>2, <1>3

THEOREM TypesInvariance == StockSpec => []TypesInv
BY TypesInvInit, TypesInvStep, PTL DEF StockSpec

(* Every variable keeps its type: no movement leaves less than nothing, no *)
(* cost that is worked out divides by nothing, and what is received, sold  *)
(* or adjusted has units.                                                  *)
THEOREM StockIsTyped == StockSpec => []StockTypeOK
<1>1. TypesInv => StockTypeOK
  <2> SUFFICES ASSUME TypesInv PROVE StockTypeOK
    OBVIOUS
  <2>1. reference \in Availability
    <3>1. noReference \in Availability
      BY DEF noReference, Availability
    <3> QED BY <3>1 DEF TypesInv, StockInv, ReferencesOK, GoodsTyped
  <2> QED BY <2>1 DEF TypesInv, StockInv, RecordsOK, ReceiptRecord, CountRecord, SaleRecord,
                      GoodsTyped, DocumentsTyped, Fact, StockTypeOK
<1> QED BY <1>1, TypesInvariance, PTL

(* The value of the stock is that of the units in stock: the units that    *)
(* its fold counts, which forgets what it counted whenever nothing is      *)
(* left, are those the last movement says it leaves (inventoryValue and    *)
(* the balance of appendMovement).                                         *)
THEOREM ValueIsOfTheStock ==
  StockSpec => [](inventoryValue(movements).units = balance(movements))
<1>1. TypesInv => inventoryValue(movements).units = balance(movements)
  BY UnitsAreTheBalance DEF TypesInv, GoodsTyped
<1> QED BY <1>1, TypesInvariance, PTL
-----------------------------------------------------------------------------
(* What is kept is only added to.                                          *)

MovementsGrow == movements' = movements \/ \E m : movements' = Append(movements, m)

HistoryIsKept ==
  /\ MovementsGrow /\ published \subseteq published' /\ facts \subseteq facts'
  /\ item # None => item' = item
  /\ reference'.version >= reference.version
  /\ \A r \in Receipt : receipt[r].status = "REVERSED" => receipt'[r] = receipt[r]
  /\ \A c \in StockCount :
       count[c].status \in {"APPROVED", "REJECTED"} => count'[c] = count[c]
  /\ \A s \in Sale : sale[s].status = "RETURNED" => sale'[s] = sale[s]

LEMMA MovingKeeps ==
  ASSUME NEW m, NEW infer,
         \/ Moved(appendMovement(m, infer))
         \/ movements' \in appendMovement(m, infer) /\ published' = published
  PROVE  MovementsGrow /\ published \subseteq published'
<1>1. movements' \in appendMovement(m, infer) /\ published \subseteq published'
  BY DEF Moved
<1>2. \E n : movements' = Append(movements, n)
  BY <1>1 DEF appendMovement
<1> QED BY <1>1, <1>2 DEF MovementsGrow

LEMMA VersionsAreNumbers ==
  ASSUME TypesInv
  PROVE  reference.version \in Nat /\ \A p \in published : p.version \in Nat
BY DEF TypesInv, StockInv, ReferencesOK, noReference

LEMMA PurchasesKeepHistory ==
  ASSUME TypesInv, PurchaseStep PROVE HistoryIsKept
<1>1. /\ UNCHANGED <<count, sale, reference>> /\ reference.version \in Nat
      /\ receipt \in [Receipt -> ReceiptRecord]
  BY VersionsAreNumbers DEF PurchaseStep, StartPurchaseReceipt, CompletePurchaseReceipt,
     ReversePurchaseReceipt, ReceivePurchase, RegisterStockAdjustment, TypesInv, StockInv, RecordsOK
<1>2. /\ MovementsGrow /\ published \subseteq published' /\ facts \subseteq facts'
      /\ item # None => item' = item
  <2>1. CASE \E r \in Receipt, at \in Node, source \in Source : StartPurchaseReceipt(r, at, source)
    BY <2>1 DEF StartPurchaseReceipt, MovementsGrow
  <2>2. CASE \E r \in Receipt : CompletePurchaseReceipt(r)
    BY <2>2, MovingKeeps DEF CompletePurchaseReceipt, Received, Sent, Unmoved, MovementsGrow
  <2>3. CASE \E r \in Receipt : ReversePurchaseReceipt(r)
    BY <2>3, MovingKeeps DEF ReversePurchaseReceipt
  <2>4. CASE ReceivePurchase \/ RegisterStockAdjustment
    BY <2>4, MovingKeeps DEF ReceivePurchase, RegisterStockAdjustment
  <2> QED BY <2>1, <2>2, <2>3, <2>4 DEF PurchaseStep
<1>3. \A r \in Receipt : receipt[r].status = "REVERSED" => receipt'[r] = receipt[r]
  <2>1. ASSUME NEW r \in Receipt, receipt[r].status # "REVERSED", NEW y,
               receipt' = [receipt EXCEPT ![r] = y]
        PROVE  \A q \in Receipt : receipt[q].status = "REVERSED" => receipt'[q] = receipt[q]
    BY <1>1, <2>1
  <2>2. ASSUME NEW r \in Receipt, NEW at \in Node, NEW source \in Source,
               StartPurchaseReceipt(r, at, source)
        PROVE  \A q \in Receipt : receipt[q].status = "REVERSED" => receipt'[q] = receipt[q]
    BY <2>1, <2>2 DEF StartPurchaseReceipt
  <2>3. ASSUME NEW r \in Receipt, CompletePurchaseReceipt(r) \/ ReversePurchaseReceipt(r)
        PROVE  \A q \in Receipt : receipt[q].status = "REVERSED" => receipt'[q] = receipt[q]
    BY <2>1, <2>3 DEF CompletePurchaseReceipt, ReversePurchaseReceipt, assertCanReverse
  <2>4. CASE ReceivePurchase \/ RegisterStockAdjustment
    BY <2>4 DEF ReceivePurchase, RegisterStockAdjustment
  <2> QED BY <2>2, <2>3, <2>4 DEF PurchaseStep
<1> QED BY <1>1, <1>2, <1>3 DEF HistoryIsKept

LEMMA AdjustingKeeps ==
  ASSUME NEW c, Adjusted(c) \/ Unmoved PROVE MovementsGrow /\ published \subseteq published'
BY MovingKeeps DEF Adjusted, Unmoved, MovementsGrow

LEMMA CountsKeepHistory ==
  ASSUME TypesInv, CountStep PROVE HistoryIsKept
<1>1. /\ UNCHANGED <<item, receipt, sale, reference>> /\ reference.version \in Nat
      /\ count \in [StockCount -> CountRecord]
  BY VersionsAreNumbers DEF CountStep, OpenStockCount, RecordStockCountLine, CloseStockCount,
     ApproveStockCount, RejectStockCount, TypesInv, StockInv, RecordsOK
<1>2. MovementsGrow /\ published \subseteq published' /\ facts \subseteq facts'
  <2>1. CASE \E c \in StockCount : ApproveStockCount(c)
    BY <2>1, AdjustingKeeps DEF ApproveStockCount, Sent
  <2>2. CASE UNCHANGED <<movements, published, facts>>
    BY <2>2 DEF MovementsGrow
  <2> QED BY <2>1, <2>2 DEF CountStep, OpenStockCount, RecordStockCountLine, CloseStockCount,
                            RejectStockCount
<1>3. \E c \in StockCount : /\ count[c].status \notin {"APPROVED", "REJECTED"}
                            /\ \A b \in StockCount \ {c} : count'[b] = count[b]
  <2>1. CASE \E c \in StockCount, at \in Node : OpenStockCount(c, at)
    BY <1>1, <2>1 DEF OpenStockCount
  <2>2. CASE \E c \in StockCount : RecordStockCountLine(c)
    BY <1>1, <2>2 DEF RecordStockCountLine
  <2>3. CASE \E c \in StockCount : CloseStockCount(c)
    BY <1>1, <2>3 DEF CloseStockCount
  <2>4. CASE \E c \in StockCount : ApproveStockCount(c) \/ RejectStockCount(c)
    BY <1>1, <2>4 DEF ApproveStockCount, RejectStockCount
  <2> QED BY <2>1, <2>2, <2>3, <2>4 DEF CountStep
<1>4. \A b \in StockCount :
        count[b].status \in {"APPROVED", "REJECTED"} => count'[b] = count[b]
  BY <1>3
<1> QED BY <1>1, <1>2, <1>4 DEF HistoryIsKept

LEMMA SalesKeepHistory ==
  ASSUME TypesInv, SaleStockStep PROVE HistoryIsKept
<1>1. /\ UNCHANGED <<item, receipt, count, reference>> /\ reference.version \in Nat
      /\ sale \in [Sale -> SaleRecord]
  BY VersionsAreNumbers DEF SaleStockStep, AddItemToSale, CompleteSale, ReturnSale,
     TypesInv, StockInv, RecordsOK
<1>2. MovementsGrow /\ published \subseteq published' /\ facts \subseteq facts'
  <2>1. CASE \E s \in Sale, at \in Node : AddItemToSale(s, at)
    BY <2>1 DEF AddItemToSale, MovementsGrow
  <2>2. CASE \E s \in Sale : CompleteSale(s)
    BY <2>2, MovingKeeps DEF CompleteSale, Sent, Unmoved, MovementsGrow
  <2>3. CASE \E s \in Sale : ReturnSale(s)
    BY <2>3, MovingKeeps DEF ReturnSale, Restored, Sent, MovementsGrow
  <2> QED BY <2>1, <2>2, <2>3 DEF SaleStockStep
<1>3. PICK s \in Sale : /\ sale[s].status # "RETURNED"
                        /\ \E y : sale' = [sale EXCEPT ![s] = y]
  BY DEF SaleStockStep, AddItemToSale, CompleteSale, ReturnSale
<1>4. \A t \in Sale : sale[t].status = "RETURNED" => sale'[t] = sale[t]
  BY <1>1, <1>3
<1> QED BY <1>1, <1>2, <1>4 DEF HistoryIsKept

LEMMA AuthorityKeepsHistory ==
  ASSUME TypesInv, InventoryAuthorityStep PROVE HistoryIsKept
<1>1. UNCHANGED <<receipt, count, sale, facts, reference>> /\ reference.version \in Nat
  BY VersionsAreNumbers DEF InventoryAuthorityStep, ApplyPurchaseReceiptCompleted,
     ApplyStockCountApproved, ApplySaleCompleted, ApplySaleReturned, Settled
<1>2. MovementsGrow /\ published \subseteq published' /\ (item # None => item' = item)
  <2>1. CASE \E r \in Receipt : ApplyPurchaseReceiptCompleted(r)
    BY <2>1, MovingKeeps DEF ApplyPurchaseReceiptCompleted, Received
  <2>2. CASE \E c \in StockCount : ApplyStockCountApproved(c)
    BY <2>2, AdjustingKeeps DEF ApplyStockCountApproved
  <2>3. CASE \E s \in Sale : ApplySaleCompleted(s)
    BY <2>3, MovingKeeps DEF ApplySaleCompleted
  <2>4. CASE \E s \in Sale : ApplySaleReturned(s)
    BY <2>4, MovingKeeps DEF ApplySaleReturned
  <2> QED BY <2>1, <2>2, <2>3, <2>4 DEF InventoryAuthorityStep
<1> QED BY <1>1, <1>2 DEF HistoryIsKept

(* No movement is ever removed or changed, and no fact or availability     *)
(* taken back; the item of the product keeps its identity, whichever       *)
(* receipt made it; the terminal never goes back to an older availability; *)
(* a reversed receipt, a decided count and a returned sale are final.      *)
THEOREM StockHistoryIsKept == StockSpec => [][HistoryIsKept]_stockVars
<1>1. TypesInv /\ [StockNext]_stockVars => HistoryIsKept
  <2> SUFFICES ASSUME TypesInv, [StockNext]_stockVars PROVE HistoryIsKept
    OBVIOUS
  <2>1. reference.version \in Nat /\ \A p \in published : p.version \in Nat
    BY VersionsAreNumbers
  <2>2. CASE ReferenceStep
    <3>1. CASE PublishCatalogBootstrap
      BY <2>1, <3>1 DEF PublishCatalogBootstrap, HistoryIsKept, MovementsGrow
    <3>2. CASE \E p \in published : ApplyStockAvailability(p)
      BY <2>1, <3>2 DEF ApplyStockAvailability, newer, HistoryIsKept, MovementsGrow
    <3> QED BY <2>2, <3>1, <3>2 DEF ReferenceStep
  <2>3. CASE UNCHANGED stockVars
    BY <2>1, <2>3 DEF stockVars, HistoryIsKept, MovementsGrow
  <2> QED BY <2>2, <2>3, PurchasesKeepHistory, CountsKeepHistory, SalesKeepHistory,
             AuthorityKeepsHistory DEF StockNext
<1> QED BY <1>1, TypesInvariance, PTL DEF StockSpec
===========================================================================
