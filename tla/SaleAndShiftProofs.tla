------------------------ MODULE SaleAndShiftProofs ------------------------
(***************************************************************************)
(* Proofs about SaleAndShift for any sales, shifts, keys, payment methods, *)
(* prices and bounds.  First which movements there are, and where; then    *)
(* what they add up to: the balances of the drawers, the stock and the     *)
(* totals of the sales.                                                    *)
(***************************************************************************)
EXTENDS SaleAndShift, FoldLemmas, TLAPS

USE StoreConstants

-----------------------------------------------------------------------------
(* The invariant.                                                          *)

SaleStatus == {"ABSENT", "DRAFT", "COMPLETED", "VOIDED"}
SaleRecord == [status : SaleStatus, shift : Shift \cup {None}, key : Key \cup {None}, items : Nat,
               discounted : Nat, paid : [Method -> Nat]]
ShiftRecord == [status : {"ABSENT", "OPEN", "CLOSED"}, key : Key \cup {None},
                movements : SUBSET Movement, closing : [Method -> Int]]

RecordsOK ==
  /\ sale \in [Sale -> SaleRecord]
  /\ shift \in [Shift -> ShiftRecord]
  /\ returned \in [Sale -> Shift \cup {None}]
  /\ \A h \in Shift : IsFiniteSet(shift[h].movements)
  /\ \A h \in Shift : shift[h].status = "ABSENT" => shift[h].movements = {}
  /\ \A s \in Sale : sale[s].status # "ABSENT" => sale[s].shift \in Shift

(* The only movement that the payment or the refund of a sale by a method  *)
(* can be.                                                                 *)
paymentOf(x, s, m) ==
  [type |-> "SALE_PAYMENT", origin |-> s, nth |-> 1, method |-> m, amount |-> x.paid[m]]
refundOf(x, s, m) ==
  [type |-> "SALE_REFUND", origin |-> s, nth |-> 1, method |-> m, amount |-> x.paid[m]]

PaymentsInPlace ==
  \A s \in Sale :
    /\ \A h \in Shift : \A v \in shift[h].movements :
         v.type = "SALE_PAYMENT" /\ v.origin = s =>
           /\ sale[s].status = "COMPLETED" /\ sale[s].shift = h
           /\ \E m \in methodsPaid(sale[s]) : v = paymentOf(sale[s], s, m)
    /\ sale[s].status = "COMPLETED" =>
         \A m \in methodsPaid(sale[s]) :
           paymentOf(sale[s], s, m) \in shift[sale[s].shift].movements

RefundsInPlace ==
  \A s \in Sale :
    /\ \A h \in Shift : \A v \in shift[h].movements :
         v.type = "SALE_REFUND" /\ v.origin = s =>
           /\ returned[s] = h
           /\ \E m \in methodsPaid(sale[s]) : v = refundOf(sale[s], s, m)
    /\ returned[s] # None =>
         /\ sale[s].status = "COMPLETED"
         /\ \A m \in methodsPaid(sale[s]) :
              refundOf(sale[s], s, m) \in shift[returned[s]].movements

ClosedForGood ==
  \A h \in Shift : shift[h].status = "CLOSED" =>
    /\ \A s \in Sale : sale[s].shift = h => sale[s].status # "DRAFT"
    /\ shift[h].closing = [m \in Method |-> balanceFor(shift[h].movements, m)]

isManual(v) == v.type \in {"INCOME", "WITHDRAWAL"}

KeysAreAnswered ==
  /\ \A h \in Shift : shift[h].key # None => <<"OpenShift", shift[h].key>> \in answered
  /\ \A s \in Sale : sale[s].key # None => <<"StartSale", sale[s].key>> \in answered
  /\ \A h \in Shift : \A v \in shift[h].movements :
       isManual(v) => <<"RegisterCashMovement", v.origin>> \in answered

KeysMakeOne ==
  /\ \A h, g \in Shift : shift[h].key # None /\ shift[h].key = shift[g].key => h = g
  /\ \A s, t \in Sale : sale[s].key # None /\ sale[s].key = sale[t].key => s = t
  /\ \A h, g \in Shift : \A v \in shift[h].movements, w \in shift[g].movements :
       isManual(v) /\ isManual(w) /\ v.origin = w.origin => h = g /\ v = w

StoreInv == /\ RecordsOK /\ PaymentsInPlace /\ RefundsInPlace
            /\ ClosedForGood /\ KeysAreAnswered /\ KeysMakeOne

-----------------------------------------------------------------------------
(* Movements.                                                              *)

LEMMA MovementsAreNumbered ==
  ASSUME RecordsOK, NEW h \in Shift, NEW type \in {"OPENING_FLOAT", "INCOME", "WITHDRAWAL",
                                                   "SALE_PAYMENT", "SALE_REFUND"},
         NEW origin \in Origin, NEW m \in Method, NEW amount \in Nat
  PROVE  /\ movement(h, type, origin, m, amount) \in Movement
         /\ (\A v \in shift[h].movements : ~(v.type = type /\ v.origin = origin)) =>
              movement(h, type, origin, m, amount)
                = [type |-> type, origin |-> origin, nth |-> 1, method |-> m, amount |-> amount]
<1> DEFINE same == {v \in shift[h].movements :
                      v.type = type /\ v.origin = origin /\ v.method = m}
<1>1. movement(h, type, origin, m, amount)
        = [type |-> type, origin |-> origin, nth |-> 1 + Cardinality(same),
           method |-> m, amount |-> amount]
  BY DEF movement
<1>2. IsFiniteSet(shift[h].movements) /\ same \subseteq shift[h].movements
  BY DEF RecordsOK
<1>3. Cardinality(same) \in Nat
  BY <1>2, FS_Subset, FS_CardinalityType
<1>4. ASSUME \A v \in shift[h].movements : ~(v.type = type /\ v.origin = origin)
      PROVE  Cardinality(same) = 0
  <2>1. same = {}
    BY <1>4
  <2> QED BY <2>1, FS_EmptySet
<1> HIDE DEF same
<1>5. [type |-> type, origin |-> origin, nth |-> 1 + Cardinality(same),
       method |-> m, amount |-> amount] \in Movement
  BY <1>3 DEF Movement
<1> QED BY <1>1, <1>4, <1>5

(* A balance is a sum of signed amounts, and what is added to a drawer is  *)
(* added to its balance.                                                   *)
signedAmounts == [v \in Movement |-> signed(v)]
byMethod(ms, m) == {v \in ms : v.method = m}

LEMMA BalanceIsASum ==
  ASSUME NEW ms \in SUBSET Movement, IsFiniteSet(ms), NEW m
  PROVE  /\ IsFiniteSet(byMethod(ms, m))
         /\ \A v \in ms : signedAmounts[v] = signed(v) /\ signed(v) \in Int
         /\ balanceFor(ms, m) = SumFunctionOnSet(signedAmounts, byMethod(ms, m))
         /\ balanceFor(ms, m) \in Int
<1> DEFINE S == byMethod(ms, m)
           g == [v \in S |-> signed(v)]
<1>1. IsFiniteSet(S)
  BY FS_Subset DEF byMethod
<1>2. \A v \in ms : signedAmounts[v] = signed(v) /\ signed(v) \in Int
  BY DEF signedAmounts, signed, Movement
<1>3. balanceFor(ms, m) = SumFunction(g)
  BY DEF balanceFor, byMethod
<1>4. DOMAIN g = S /\ \A v \in S : signedAmounts[v] = g[v] /\ signedAmounts[v] \in Int
  BY <1>2 DEF byMethod
<1> HIDE DEF S, g
<1>5. SumFunction(g) = SumFunctionOnSet(signedAmounts, S)
  BY <1>1, <1>4, SumOverDomain
<1>6. SumFunctionOnSet(signedAmounts, S) \in Int
  BY <1>1, <1>4, SumOfIntegers
<1> QED BY <1>1, <1>2, <1>3, <1>5, <1>6 DEF S

LEMMA BalancesAddUp ==
  ASSUME NEW ms \in SUBSET Movement, IsFiniteSet(ms),
         NEW ns \in SUBSET Movement, IsFiniteSet(ns), ms \cap ns = {}, NEW m
  PROVE  balanceFor(ms \cup ns, m) = balanceFor(ms, m) + balanceFor(ns, m)
<1>1. IsFiniteSet(ms \cup ns)
  BY FS_Union
<1>2. /\ byMethod(ms \cup ns, m) = byMethod(ms, m) \cup byMethod(ns, m)
      /\ byMethod(ms, m) \cap byMethod(ns, m) = {}
      /\ \A v \in byMethod(ms, m) \cup byMethod(ns, m) : v \in ms \cup ns
  BY DEF byMethod
<1>3. \A v \in byMethod(ms, m) \cup byMethod(ns, m) : signedAmounts[v] \in Int
  BY <1>1, <1>2, BalanceIsASum
<1>4. IsFiniteSet(byMethod(ms, m)) /\ IsFiniteSet(byMethod(ns, m))
  BY BalanceIsASum
<1>5. SumFunctionOnSet(signedAmounts, byMethod(ms, m) \cup byMethod(ns, m))
        = SumFunctionOnSet(signedAmounts, byMethod(ms, m))
            + SumFunctionOnSet(signedAmounts, byMethod(ns, m))
  BY <1>2, <1>3, <1>4, SumOfTwo
<1> QED BY <1>1, <1>2, <1>5, BalanceIsASum

(* Money that comes in never makes a balance negative, and money that      *)
(* leaves never makes it positive.                                         *)
LEMMA BalanceHasTheSign ==
  ASSUME NEW ms \in SUBSET Movement, IsFiniteSet(ms), NEW m
  PROVE  /\ (\A v \in ms : signed(v) >= 0) => balanceFor(ms, m) >= 0
         /\ (\A v \in ms : signed(v) <= 0) => balanceFor(ms, m) <= 0
<1> DEFINE S == byMethod(ms, m)
           Below == {i \in Int : i <= 0}
<1>1. /\ IsFiniteSet(S) /\ S \subseteq ms
      /\ \A v \in S : signedAmounts[v] = signed(v) /\ signed(v) \in Int
      /\ balanceFor(ms, m) = SumFunctionOnSet(signedAmounts, S)
  BY BalanceIsASum DEF byMethod
<1> HIDE DEF S
<1>2. ASSUME \A v \in ms : signed(v) >= 0
      PROVE  balanceFor(ms, m) >= 0
  <2>1. \A v \in S : signedAmounts[v] \in Nat
    BY <1>1, <1>2
  <2>2. 0 \in Nat /\ \A a, b \in Nat : a + b \in Nat
    OBVIOUS
  <2>3. SumFunctionOnSet(signedAmounts, S) \in Nat
    BY <1>1, <2>1, <2>2, SumStaysIn
  <2> QED BY <1>1, <2>3
<1>3. ASSUME \A v \in ms : signed(v) <= 0
      PROVE  balanceFor(ms, m) <= 0
  <2>1. \A v \in S : signedAmounts[v] \in Below
    BY <1>1, <1>3
  <2>2. 0 \in Below /\ \A a, b \in Below : a + b \in Below
    OBVIOUS
  <2> HIDE DEF Below
  <2>3. SumFunctionOnSet(signedAmounts, S) \in Below
    BY <1>1, <2>1, <2>2, SumStaysIn
  <2> QED BY <1>1, <2>3 DEF Below
<1> QED BY <1>2, <1>3

(* What `with` does: movements are added to one shift, and nothing else.   *)
LEMMA MovementsAreAdded ==
  ASSUME RecordsOK, NEW h \in Shift, NEW N \in SUBSET Movement, IsFiniteSet(N),
         shift' = with(h, N), shift[h].status = "OPEN"
  PROVE  /\ shift' \in [Shift -> ShiftRecord]
         /\ \A g \in Shift : /\ shift'[g].status = shift[g].status
                             /\ shift'[g].key = shift[g].key
                             /\ shift'[g].closing = shift[g].closing
                             /\ IsFiniteSet(shift'[g].movements)
                             /\ shift[g].status # "OPEN" => shift'[g] = shift[g]
                             /\ g # h => shift'[g] = shift[g]
                             /\ shift[g].movements \subseteq shift'[g].movements
         /\ shift'[h].movements = shift[h].movements \cup N
<1>1. shift' = [shift EXCEPT ![h] = [shift[h] EXCEPT !.movements = shift[h].movements \cup N]]
  BY DEF with, RecordsOK
<1>2. shift[h] \in ShiftRecord
  BY DEF RecordsOK
<1>3. [shift[h] EXCEPT !.movements = shift[h].movements \cup N] \in ShiftRecord
  BY <1>2 DEF ShiftRecord
<1>4. /\ [shift[h] EXCEPT !.movements = shift[h].movements \cup N].status = shift[h].status
      /\ [shift[h] EXCEPT !.movements = shift[h].movements \cup N].key = shift[h].key
      /\ [shift[h] EXCEPT !.movements = shift[h].movements \cup N].closing = shift[h].closing
      /\ [shift[h] EXCEPT !.movements = shift[h].movements \cup N].movements
           = shift[h].movements \cup N
  BY <1>2 DEF ShiftRecord
<1>5. IsFiniteSet(shift[h].movements \cup N)
  BY FS_Union DEF RecordsOK
<1>6. shift' \in [Shift -> ShiftRecord]
  BY <1>1, <1>3 DEF RecordsOK
<1>7. shift'[h] = [shift[h] EXCEPT !.movements = shift[h].movements \cup N]
  BY <1>1 DEF RecordsOK
<1>8. \A g \in Shift : g # h => shift'[g] = shift[g]
  BY <1>1 DEF RecordsOK
<1>9. \A g \in Shift : IsFiniteSet(shift[g].movements)
  BY DEF RecordsOK
<1> QED BY <1>4, <1>5, <1>6, <1>7, <1>8, <1>9

-----------------------------------------------------------------------------
(* Sales.                                                                  *)

(* What the operations on a draft have in common.                          *)
EditsDraft(x, y) ==
  /\ y \in SaleRecord
  /\ x.status = "DRAFT"
  /\ y.status \in {"DRAFT", "VOIDED"}
  /\ y.shift = x.shift /\ y.key = x.key

LEMMA LinesEditDrafts ==
  ASSUME NEW x \in SaleRecord, NEW y, y \in addItem(x) \cup removeItem(x) \cup applyDiscount(x)
  PROVE  EditsDraft(x, y)
<1>1. x.items \in Nat /\ x.discounted \in Nat
  BY DEF SaleRecord
<1>2. CASE y \in addItem(x)
  BY <1>1, <1>2 DEF addItem, assertEditable, EditsDraft, SaleRecord, SaleStatus
<1>3. CASE y \in applyDiscount(x)
  BY <1>1, <1>3 DEF applyDiscount, assertEditable, EditsDraft, SaleRecord, SaleStatus
<1>4. CASE y \in removeItem(x)
  <2>1. PICK d \in {0, 1} : y = [x EXCEPT !.items = x.items - 1, !.discounted = x.discounted - d]
    BY <1>4 DEF removeItem
  <2>2. x.status = "DRAFT" /\ x.items > 0 /\ y.discounted \in 0..y.items
    BY <1>4 DEF removeItem, assertEditable
  <2>3. x.items - 1 \in Nat
    BY <1>1, <2>2
  <2>4. y.discounted = x.discounted - d /\ y.items = x.items - 1
    BY <2>1 DEF SaleRecord
  <2>5. x.discounted - d \in Nat
    BY <1>1, <2>2, <2>3, <2>4
  <2> QED BY <2>1, <2>2, <2>3, <2>5 DEF EditsDraft, SaleRecord, SaleStatus
<1> QED BY <1>2, <1>3, <1>4

LEMMA PaymentsAndVoidsEditDrafts ==
  ASSUME NEW x \in SaleRecord, NEW y, y \in registerPayments(x) \cup void(x)
  PROVE  EditsDraft(x, y)
<1>1. CASE y \in void(x)
  BY <1>1 DEF void, EditsDraft, SaleRecord, SaleStatus
<1>2. CASE y \in registerPayments(x)
  <2>1. x.status = "DRAFT"
    BY <1>2 DEF registerPayments, assertEditable
  <2>2. PICK batch \in [Method -> 0..commercialTotal(x)] : y = [x EXCEPT !.paid = batch]
    BY <1>2, Zenon DEF registerPayments
  <2>3. 0..commercialTotal(x) \subseteq Nat
    OBVIOUS
  <2>4. batch \in [Method -> Nat]
    BY <2>2, <2>3
  <2> QED BY <2>1, <2>2, <2>4 DEF EditsDraft, SaleRecord, SaleStatus
<1> QED BY <1>1, <1>2

LEMMA EditStep ==
  ASSUME StoreInv, NEW s \in Sale, NEW outcomes, Edited(s, outcomes),
         \A y \in outcomes : EditsDraft(sale[s], y)
  PROVE  StoreInv'
<1> USE DEF StoreInv
<1>1. PICK y \in outcomes : sale' = [sale EXCEPT ![s] = y]
  BY DEF Edited
<1>2. UNCHANGED <<shift, answered, returned>>
  BY DEF Edited
<1>3. EditsDraft(sale[s], y)
  BY <1>1
<1>4. sale[s] \in SaleRecord /\ sale[s].status = "DRAFT"
  BY <1>3 DEF RecordsOK, EditsDraft
<1>5. /\ sale' \in [Sale -> SaleRecord]
      /\ sale'[s] = y /\ \A t \in Sale \ {s} : sale'[t] = sale[t]
  BY <1>1, <1>3 DEF RecordsOK, EditsDraft
<1>6. /\ sale'[s].status \in {"DRAFT", "VOIDED"}
      /\ sale'[s].shift = sale[s].shift /\ sale'[s].key = sale[s].key
  BY <1>3, <1>5 DEF EditsDraft
<1>7. RecordsOK'
  BY <1>2, <1>4, <1>5, <1>6 DEF RecordsOK
<1>8. PaymentsInPlace'
  BY <1>2, <1>4, <1>5, <1>6 DEF PaymentsInPlace, methodsPaid, paymentOf
<1>9. RefundsInPlace'
  BY <1>2, <1>4, <1>5, <1>6 DEF RefundsInPlace, methodsPaid, refundOf
<1>10. ClosedForGood'
  <2>1. \A t \in Sale : sale'[t].shift = sale[t].shift
    BY <1>5, <1>6
  <2>2. \A t \in Sale : sale'[t].status = "DRAFT" => sale[t].status = "DRAFT"
    BY <1>4, <1>5
  <2> QED BY <1>2, <2>1, <2>2 DEF ClosedForGood
<1>11. KeysAreAnswered' /\ KeysMakeOne'
  <2>1. \A t \in Sale : sale'[t].key = sale[t].key
    BY <1>5, <1>6
  <2> QED BY <1>2, <2>1 DEF KeysAreAnswered, KeysMakeOne
<1> QED BY <1>7, <1>8, <1>9, <1>10, <1>11

LEMMA StartSaleInv ==
  ASSUME StoreInv, NEW s \in Sale, NEW h \in Shift, NEW k \in Key, StartSale(s, h, k)
  PROVE  StoreInv'
<1> USE DEF StoreInv
<1> DEFINE y == [noSale EXCEPT !.status = "DRAFT", !.shift = h, !.key = k]
<1>1. /\ sale' = [sale EXCEPT ![s] = y] /\ sale[s].status = "ABSENT" /\ shift[h].status = "OPEN"
      /\ answered' = answered \cup {<<"StartSale", k>>} /\ <<"StartSale", k>> \notin answered
      /\ UNCHANGED <<shift, returned>>
  BY DEF StartSale, executeIdempotentCommand, isOpen
<1>2. y \in SaleRecord /\ y.status = "DRAFT" /\ y.shift = h /\ y.key = k
  BY DEF noSale, SaleRecord, SaleStatus
<1> HIDE DEF y
<1>3. /\ sale' \in [Sale -> SaleRecord]
      /\ sale'[s] = y /\ \A t \in Sale \ {s} : sale'[t] = sale[t]
  BY <1>1, <1>2 DEF RecordsOK
<1>4. k # None
  OBVIOUS
<1>5. RecordsOK'
  BY <1>1, <1>2, <1>3 DEF RecordsOK
<1>6. PaymentsInPlace'
  BY <1>1, <1>2, <1>3 DEF PaymentsInPlace, methodsPaid, paymentOf
<1>7. RefundsInPlace'
  BY <1>1, <1>2, <1>3 DEF RefundsInPlace, methodsPaid, refundOf
<1>8. ClosedForGood'
  BY <1>1, <1>2, <1>3 DEF ClosedForGood
<1>9. KeysAreAnswered'
  BY <1>1, <1>2, <1>3 DEF KeysAreAnswered
<1>10. KeysMakeOne'
  <2>1. \A t \in Sale \ {s} : sale[t].key # k
    BY <1>1, <1>4 DEF KeysAreAnswered
  <2> QED BY <1>1, <1>2, <1>3, <2>1 DEF KeysMakeOne
<1> QED BY <1>5, <1>6, <1>7, <1>8, <1>9, <1>10

-----------------------------------------------------------------------------
(* Cash.                                                                   *)

LEMMA OpenShiftInv ==
  ASSUME StoreInv, NEW h \in Shift, NEW k \in Key, OpenShift(h, k)
  PROVE  StoreInv'
<1> USE DEF StoreInv
<1>1. /\ shift[h].status = "ABSENT"
      /\ answered' = answered \cup {<<"OpenShift", k>>} /\ <<"OpenShift", k>> \notin answered
      /\ UNCHANGED <<sale, returned>>
  BY DEF OpenShift, executeIdempotentCommand
<1>2. PICK fund \in [CashMethod -> 0..MaxAmount] :
        shift' = [shift EXCEPT ![h] = [noShift EXCEPT !.status = "OPEN", !.key = k,
                    !.movements = {movement(h, "OPENING_FLOAT", None, m, fund[m]) :
                                     m \in {c \in CashMethod : fund[c] > 0}}]]
  BY Zenon DEF OpenShift
<1> DEFINE funded == {c \in CashMethod : fund[c] > 0}
           floats == {movement(h, "OPENING_FLOAT", None, m, fund[m]) : m \in funded}
           new == [noShift EXCEPT !.status = "OPEN", !.key = k, !.movements = floats]
<1>3. \A m \in CashMethod : m \in Method /\ fund[m] \in Nat
  BY <1>2
<1>4. \A m \in CashMethod : movement(h, "OPENING_FLOAT", None, m, fund[m]) \in Movement
  BY <1>3, MovementsAreNumbered DEF Origin
<1>5. floats \subseteq Movement
  BY <1>4
<1>6. IsFiniteSet(floats)
  <2> DEFINE f == [m \in CashMethod |-> movement(h, "OPENING_FLOAT", None, m, fund[m])]
  <2>1. IsFiniteSet(funded)
    <3>1. funded \subseteq Method
      OBVIOUS
    <3> QED BY <3>1, FS_Subset
  <2>2. floats = {f[m] : m \in funded}
    OBVIOUS
  <2> HIDE DEF floats, funded, f
  <2> QED BY <2>1, <2>2, ImagesAreFinite
<1>7. \A v \in floats : v.type = "OPENING_FLOAT"
  <2>1. \A m \in CashMethod :
          movement(h, "OPENING_FLOAT", None, m, fund[m]).type = "OPENING_FLOAT"
    BY DEF movement
  <2> QED BY <2>1
<1>8. shift' = [shift EXCEPT ![h] = new]
  BY <1>2
<1> HIDE DEF floats, funded
<1>9. new \in ShiftRecord /\ new.status = "OPEN" /\ new.key = k /\ new.movements = floats
  <2>1. [m \in Method |-> 0] \in [Method -> Int]
    OBVIOUS
  <2> QED BY <1>5, <2>1 DEF noShift, ShiftRecord
<1> HIDE DEF new
<1>10. /\ shift' \in [Shift -> ShiftRecord]
       /\ shift'[h] = new /\ \A g \in Shift \ {h} : shift'[g] = shift[g]
  BY <1>8, <1>9 DEF RecordsOK
<1>11. shift[h].movements = {}
  BY <1>1 DEF RecordsOK
<1>12. k # None
  OBVIOUS
<1>13. RecordsOK'
  BY <1>1, <1>6, <1>9, <1>10 DEF RecordsOK
<1>14. PaymentsInPlace'
  BY <1>1, <1>7, <1>9, <1>10, <1>11 DEF PaymentsInPlace, methodsPaid, paymentOf, RecordsOK
<1>15. RefundsInPlace'
  BY <1>1, <1>7, <1>9, <1>10, <1>11 DEF RefundsInPlace, methodsPaid, refundOf, RecordsOK
<1>16. ClosedForGood'
  BY <1>1, <1>9, <1>10 DEF ClosedForGood
<1>17. KeysAreAnswered'
  BY <1>1, <1>7, <1>9, <1>10 DEF KeysAreAnswered, isManual
<1>18. KeysMakeOne'
  <2>1. \A g \in Shift \ {h} : shift[g].key # k
    BY <1>1, <1>12 DEF KeysAreAnswered
  <2> QED BY <1>1, <1>7, <1>9, <1>10, <2>1 DEF KeysMakeOne, isManual
<1> QED BY <1>13, <1>14, <1>15, <1>16, <1>17, <1>18

LEMMA RegisterCashMovementInv ==
  ASSUME StoreInv, NEW h \in Shift, NEW k \in Key, RegisterCashMovement(h, k)
  PROVE  StoreInv'
<1> USE DEF StoreInv
<1>1. /\ answered' = answered \cup {<<"RegisterCashMovement", k>>}
      /\ <<"RegisterCashMovement", k>> \notin answered
      /\ UNCHANGED <<sale, returned>>
  BY DEF RegisterCashMovement, executeIdempotentCommand
<1>2. PICK type \in {"INCOME", "WITHDRAWAL"}, m \in CashMethod, amount \in 1..MaxAmount :
        /\ accepts(h, movement(h, type, k, m, amount))
        /\ shift' = with(h, {movement(h, type, k, m, amount)})
  BY DEF RegisterCashMovement
<1> DEFINE v == movement(h, type, k, m, amount)
<1>3. v \in Movement
  BY MovementsAreNumbered DEF Origin
<1>4. v.type = type /\ v.origin = k
  BY DEF movement
<1>5. shift[h].status = "OPEN"
  BY <1>2 DEF accepts, isOpen
<1> HIDE DEF v
<1>6. IsFiniteSet({v}) /\ {v} \in SUBSET Movement
  BY <1>3, FS_Singleton
<1>7. shift' = with(h, {v})
  BY <1>2 DEF v
<1>8. /\ shift' \in [Shift -> ShiftRecord]
      /\ \A g \in Shift : /\ shift'[g].status = shift[g].status
                          /\ shift'[g].key = shift[g].key
                          /\ shift'[g].closing = shift[g].closing
                          /\ IsFiniteSet(shift'[g].movements)
                          /\ shift[g].status # "OPEN" => shift'[g] = shift[g]
                          /\ g # h => shift'[g] = shift[g]
                          /\ shift[g].movements \subseteq shift'[g].movements
      /\ shift'[h].movements = shift[h].movements \cup {v}
  BY <1>3, <1>5, <1>6, <1>7, MovementsAreAdded
<1>9. RecordsOK'
  BY <1>1, <1>5, <1>8 DEF RecordsOK
<1>10. v.type # "SALE_PAYMENT" /\ v.type # "SALE_REFUND"
  BY <1>2, <1>4
<1>11. PaymentsInPlace'
  BY <1>1, <1>8, <1>10 DEF PaymentsInPlace, methodsPaid, paymentOf, RecordsOK
<1>12. RefundsInPlace'
  BY <1>1, <1>8, <1>10 DEF RefundsInPlace, methodsPaid, refundOf, RecordsOK
<1>13. ClosedForGood'
  BY <1>1, <1>8 DEF ClosedForGood
<1>14. KeysAreAnswered'
  BY <1>1, <1>4, <1>8 DEF KeysAreAnswered
<1>15. KeysMakeOne'
  <2>1. \A g \in Shift : \A w \in shift[g].movements : isManual(w) => w.origin # k
    BY <1>1 DEF KeysAreAnswered
  <2>2. \A g, f \in Shift : \A x \in shift'[g].movements, w \in shift'[f].movements :
          isManual(x) /\ isManual(w) /\ x.origin = w.origin => g = f /\ x = w
    BY <1>4, <1>8, <2>1 DEF KeysMakeOne
  <2> QED BY <1>1, <1>8, <2>2 DEF KeysMakeOne
<1> QED BY <1>9, <1>11, <1>12, <1>13, <1>14, <1>15

LEMMA CloseShiftInv ==
  ASSUME StoreInv, NEW h \in Shift, CloseShift(h)
  PROVE  StoreInv'
<1> USE DEF StoreInv
<1> DEFINE sums == [m \in Method |-> balanceFor(shift[h].movements, m)]
           new == [shift[h] EXCEPT !.status = "CLOSED", !.closing = sums]
<1>1. /\ shift[h].status = "OPEN" /\ drafts(h) = {}
      /\ UNCHANGED <<sale, answered, returned>>
  BY DEF CloseShift, isOpen
<1>2. shift' = [shift EXCEPT ![h].status = "CLOSED", ![h].closing = sums]
  BY DEF CloseShift, expectedBalances
<1>3. shift[h] \in ShiftRecord
  BY DEF RecordsOK
<1>4. sums \in [Method -> Int]
  BY <1>3, BalanceIsASum DEF RecordsOK, ShiftRecord
<1> HIDE DEF sums
<1>5. shift'[h] = new /\ \A g \in Shift \ {h} : shift'[g] = shift[g]
  BY <1>2 DEF RecordsOK
<1>6. /\ new \in ShiftRecord /\ new.status = "CLOSED" /\ new.closing = sums
      /\ new.key = shift[h].key /\ new.movements = shift[h].movements
  BY <1>3, <1>4 DEF ShiftRecord
<1> HIDE DEF new
<1>7. shift' \in [Shift -> ShiftRecord]
  BY <1>2, <1>5, <1>6 DEF RecordsOK
<1>8. \A g \in Shift : shift'[g].movements = shift[g].movements /\ shift'[g].key = shift[g].key
  BY <1>5, <1>6
<1>9. RecordsOK'
  BY <1>1, <1>5, <1>6, <1>7, <1>8 DEF RecordsOK
<1>10. PaymentsInPlace'
  BY <1>1, <1>8 DEF PaymentsInPlace, methodsPaid, paymentOf, RecordsOK
<1>11. RefundsInPlace'
  BY <1>1, <1>8 DEF RefundsInPlace, methodsPaid, refundOf, RecordsOK
<1>12. ClosedForGood'
  <2>1. \A s \in Sale : sale[s].shift = h => sale[s].status # "DRAFT"
    BY <1>1 DEF drafts
  <2>2. shift'[h].closing = [m \in Method |-> balanceFor(shift'[h].movements, m)]
    BY <1>5, <1>6, <1>8 DEF sums
  <2> QED BY <1>1, <1>5, <1>8, <2>1, <2>2 DEF ClosedForGood
<1>13. KeysAreAnswered' /\ KeysMakeOne'
  BY <1>1, <1>8 DEF KeysAreAnswered, KeysMakeOne
<1> QED BY <1>9, <1>10, <1>11, <1>12, <1>13

-----------------------------------------------------------------------------
(* Completing and returning.                                               *)

LEMMA PaymentsOfADraft ==
  ASSUME StoreInv, NEW s \in Sale, sale[s].status = "DRAFT", NEW h \in Shift
  PROVE  /\ payments(s, h) = {paymentOf(sale[s], s, m) : m \in methodsPaid(sale[s])}
         /\ payments(s, h) \in SUBSET Movement /\ IsFiniteSet(payments(s, h))
<1> DEFINE x == sale[s]
           f == [m \in Method |-> movement(h, "SALE_PAYMENT", s, m, x.paid[m])]
<1>1. \A m \in methodsPaid(x) : m \in Method /\ x.paid[m] \in Nat
  BY DEF StoreInv, RecordsOK, SaleRecord, methodsPaid
<1>2. \A v \in shift[h].movements : ~(v.type = "SALE_PAYMENT" /\ v.origin = s)
  BY DEF StoreInv, PaymentsInPlace
<1>3. {p \in methodsPaid(x) :
         ~ \E v \in shift[h].movements :
             v.type = "SALE_PAYMENT" /\ v.origin = s /\ v.method = p} = methodsPaid(x)
  BY <1>2
<1>4. payments(s, h) = {movement(h, "SALE_PAYMENT", s, m, x.paid[m]) : m \in methodsPaid(x)}
  BY <1>3, Zenon DEF payments
<1>5. \A m \in methodsPaid(x) :
        /\ movement(h, "SALE_PAYMENT", s, m, x.paid[m]) \in Movement
        /\ movement(h, "SALE_PAYMENT", s, m, x.paid[m]) = paymentOf(x, s, m)
  <2> TAKE m \in methodsPaid(x)
  <2>1. s \in Origin /\ RecordsOK
    BY DEF Origin, StoreInv
  <2> QED BY <1>1, <1>2, <2>1, MovementsAreNumbered DEF paymentOf
<1>6. payments(s, h) = {f[m] : m \in methodsPaid(x)}
  BY <1>1, <1>4
<1>7. IsFiniteSet(methodsPaid(x))
  <2>1. methodsPaid(x) \subseteq Method
    BY DEF methodsPaid
  <2> QED BY <2>1, FS_Subset
<1>8. IsFiniteSet(payments(s, h))
  <2> HIDE DEF f
  <2> QED BY <1>6, <1>7, ImagesAreFinite
<1>9. payments(s, h) = {paymentOf(x, s, m) : m \in methodsPaid(x)}
  BY <1>4, <1>5
<1> QED BY <1>4, <1>5, <1>8, <1>9

LEMMA RefundsOfASale ==
  ASSUME StoreInv, NEW s \in Sale, returned[s] = None, NEW h \in Shift
  PROVE  LET refunds == {movement(h, "SALE_REFUND", s, m, sale[s].paid[m]) :
                           m \in methodsPaid(sale[s])}
         IN /\ refunds = {refundOf(sale[s], s, m) : m \in methodsPaid(sale[s])}
            /\ refunds \in SUBSET Movement /\ IsFiniteSet(refunds)
<1> DEFINE x == sale[s]
           refunds == {movement(h, "SALE_REFUND", s, m, x.paid[m]) : m \in methodsPaid(x)}
           f == [m \in Method |-> movement(h, "SALE_REFUND", s, m, x.paid[m])]
<1>1. \A m \in methodsPaid(x) : m \in Method /\ x.paid[m] \in Nat
  BY DEF StoreInv, RecordsOK, SaleRecord, methodsPaid
<1>2. \A v \in shift[h].movements : ~(v.type = "SALE_REFUND" /\ v.origin = s)
  BY DEF StoreInv, RefundsInPlace
<1>3. \A m \in methodsPaid(x) :
        /\ movement(h, "SALE_REFUND", s, m, x.paid[m]) \in Movement
        /\ movement(h, "SALE_REFUND", s, m, x.paid[m]) = refundOf(x, s, m)
  <2> TAKE m \in methodsPaid(x)
  <2>1. s \in Origin /\ RecordsOK
    BY DEF Origin, StoreInv
  <2> QED BY <1>1, <1>2, <2>1, MovementsAreNumbered DEF refundOf
<1>4. refunds = {f[m] : m \in methodsPaid(x)}
  BY <1>1
<1>5. IsFiniteSet(methodsPaid(x))
  <2>1. methodsPaid(x) \subseteq Method
    BY DEF methodsPaid
  <2> QED BY <2>1, FS_Subset
<1>6. IsFiniteSet(refunds)
  <2> HIDE DEF f, refunds
  <2> QED BY <1>4, <1>5, ImagesAreFinite
<1>7. refunds = {refundOf(x, s, m) : m \in methodsPaid(x)}
  BY <1>3
<1>8. refunds \in SUBSET Movement
  BY <1>3
<1> QED BY <1>6, <1>7, <1>8

LEMMA CompleteSaleInv ==
  ASSUME StoreInv, NEW s \in Sale, CompleteSale(s)
  PROVE  StoreInv'
<1> USE DEF StoreInv
<1> DEFINE h == sale[s].shift
           N == payments(s, h)
           y == [sale[s] EXCEPT !.status = "COMPLETED"]
<1>1. /\ sale[s].status = "DRAFT" /\ methodsPaid(sale[s]) # {}
      /\ sale' = [sale EXCEPT ![s] = y]
      /\ shift' = with(h, N)
      /\ UNCHANGED <<answered, returned>>
  BY DEF CompleteSale, complete
<1>2. h \in Shift
  BY <1>1 DEF RecordsOK
<1>3. /\ N = {paymentOf(sale[s], s, m) : m \in methodsPaid(sale[s])}
      /\ N \in SUBSET Movement /\ IsFiniteSet(N)
  BY <1>1, <1>2, PaymentsOfADraft
<1>4. shift[h].status = "OPEN"
  <2>1. PICK v \in N : TRUE
    BY <1>1, <1>3
  <2> QED BY <2>1 DEF CompleteSale, accepts, isOpen
<1>5. sale[s] \in SaleRecord
  BY DEF RecordsOK
<1>6. /\ y \in SaleRecord /\ y.status = "COMPLETED" /\ y.shift = h /\ y.key = sale[s].key
      /\ y.paid = sale[s].paid
  BY <1>5 DEF SaleRecord, SaleStatus
<1> HIDE DEF N, y
<1>7. /\ sale' \in [Sale -> SaleRecord]
      /\ sale'[s] = y /\ \A t \in Sale \ {s} : sale'[t] = sale[t]
  BY <1>1, <1>6 DEF RecordsOK
<1>8. /\ shift' \in [Shift -> ShiftRecord]
      /\ \A g \in Shift : /\ shift'[g].status = shift[g].status
                          /\ shift'[g].key = shift[g].key
                          /\ shift'[g].closing = shift[g].closing
                          /\ IsFiniteSet(shift'[g].movements)
                          /\ shift[g].status # "OPEN" => shift'[g] = shift[g]
                          /\ g # h => shift'[g] = shift[g]
                          /\ shift[g].movements \subseteq shift'[g].movements
      /\ shift'[h].movements = shift[h].movements \cup N
  BY <1>1, <1>2, <1>3, <1>4, MovementsAreAdded
<1> HIDE DEF h
<1>9. methodsPaid(y) = methodsPaid(sale[s])
  BY <1>6 DEF methodsPaid
<1>10. \A m : paymentOf(y, s, m) = paymentOf(sale[s], s, m)
  BY <1>6 DEF paymentOf
<1>11. \A v \in N : /\ v.type = "SALE_PAYMENT" /\ v.origin = s
                    /\ \E m \in methodsPaid(y) : v = paymentOf(y, s, m)
  <2>1. \A m : /\ paymentOf(sale[s], s, m).type = "SALE_PAYMENT"
               /\ paymentOf(sale[s], s, m).origin = s
    BY DEF paymentOf
  <2> QED BY <1>3, <1>9, <1>10, <2>1
<1>12. \A t \in Sale \ {s} : /\ methodsPaid(sale'[t]) = methodsPaid(sale[t])
                             /\ \A m : /\ paymentOf(sale'[t], t, m) = paymentOf(sale[t], t, m)
                                       /\ refundOf(sale'[t], t, m) = refundOf(sale[t], t, m)
  BY <1>7
<1>13. RecordsOK'
  BY <1>1, <1>2, <1>4, <1>6, <1>7, <1>8 DEF RecordsOK
<1>14. PaymentsInPlace'
  <2>1. ASSUME NEW t \in Sale, NEW g \in Shift, NEW v \in shift'[g].movements,
               v.type = "SALE_PAYMENT", v.origin = t
        PROVE  /\ sale'[t].status = "COMPLETED" /\ sale'[t].shift = g
               /\ \E m \in methodsPaid(sale'[t]) : v = paymentOf(sale'[t], t, m)
    <3>1. CASE v \in shift[g].movements
      <4>1. /\ sale[t].status = "COMPLETED" /\ sale[t].shift = g
            /\ \E m \in methodsPaid(sale[t]) : v = paymentOf(sale[t], t, m)
        BY <2>1, <3>1 DEF PaymentsInPlace
      <4> QED BY <1>1, <1>7, <4>1
    <3>2. CASE v \notin shift[g].movements
      <4>1. g = h /\ v \in N
        BY <1>8, <3>2
      <4> QED BY <1>6, <1>7, <1>11, <2>1, <4>1
    <3> QED BY <3>1, <3>2
  <2>2. ASSUME NEW t \in Sale, sale'[t].status = "COMPLETED", NEW m \in methodsPaid(sale'[t])
        PROVE  paymentOf(sale'[t], t, m) \in shift'[sale'[t].shift].movements
    <3>1. CASE t = s
      BY <1>2, <1>3, <1>6, <1>7, <1>8, <1>9, <1>10, <3>1
    <3>2. CASE t # s
      <4>1. sale[t].shift \in Shift /\ sale'[t] = sale[t]
        BY <1>7, <2>2, <3>2 DEF RecordsOK
      <4>2. paymentOf(sale[t], t, m) \in shift[sale[t].shift].movements
        BY <1>7, <2>2, <3>2 DEF PaymentsInPlace
      <4> QED BY <1>8, <4>1, <4>2
    <3> QED BY <3>1, <3>2
  <2> QED BY <2>1, <2>2 DEF PaymentsInPlace
<1>15. RefundsInPlace'
  <2>1. returned[s] = None
    BY <1>1 DEF RefundsInPlace
  <2>2. ASSUME NEW t \in Sale, NEW g \in Shift, NEW v \in shift'[g].movements,
               v.type = "SALE_REFUND", v.origin = t
        PROVE  returned[t] = g /\ \E m \in methodsPaid(sale'[t]) : v = refundOf(sale'[t], t, m)
    <3>1. v \in shift[g].movements
      BY <1>8, <1>11, <2>2
    <3>2. returned[t] = g /\ \E m \in methodsPaid(sale[t]) : v = refundOf(sale[t], t, m)
      BY <2>2, <3>1 DEF RefundsInPlace
    <3> QED BY <1>7, <2>1, <3>2
  <2>3. ASSUME NEW t \in Sale, returned[t] # None
        PROVE  /\ sale'[t].status = "COMPLETED"
               /\ \A m \in methodsPaid(sale'[t]) :
                    refundOf(sale'[t], t, m) \in shift'[returned[t]].movements
    <3>1. returned[t] \in Shift /\ sale'[t] = sale[t]
      BY <1>7, <2>1, <2>3 DEF RecordsOK
    <3> QED BY <1>8, <2>3, <3>1 DEF RefundsInPlace
  <2> QED BY <1>1, <2>2, <2>3 DEF RefundsInPlace
<1>16. ClosedForGood'
  <2>1. \A t \in Sale : /\ sale'[t].shift = sale[t].shift
                        /\ sale'[t].status = "DRAFT" => sale[t].status = "DRAFT"
    BY <1>6, <1>7 DEF h
  <2>2. \A g \in Shift : shift'[g].status = "CLOSED" =>
          shift[g].status = "CLOSED" /\ shift'[g] = shift[g]
    BY <1>8
  <2> QED BY <2>1, <2>2 DEF ClosedForGood
<1>17. KeysAreAnswered' /\ KeysMakeOne'
  <2>1. \A t \in Sale : sale'[t].key = sale[t].key
    BY <1>6, <1>7
  <2>2. \A g \in Shift : \A v \in shift'[g].movements :
          isManual(v) => v \in shift[g].movements
    BY <1>8, <1>11 DEF isManual
  <2> QED BY <1>1, <1>8, <2>1, <2>2 DEF KeysAreAnswered, KeysMakeOne
<1> QED BY <1>13, <1>14, <1>15, <1>16, <1>17

LEMMA ReturnSaleInv ==
  ASSUME StoreInv, NEW s \in Sale, NEW h \in Shift, ReturnSale(s, h)
  PROVE  StoreInv'
<1> USE DEF StoreInv
<1> DEFINE N == {movement(h, "SALE_REFUND", s, m, sale[s].paid[m]) : m \in methodsPaid(sale[s])}
<1>1. /\ sale[s].status = "COMPLETED" /\ returned[s] = None /\ shift[h].status = "OPEN"
      /\ returned' = [returned EXCEPT ![s] = h]
      /\ shift' = with(h, N)
      /\ UNCHANGED <<sale, answered>>
  BY DEF ReturnSale, returnable, isOpen
<1>2. /\ N = {refundOf(sale[s], s, m) : m \in methodsPaid(sale[s])}
      /\ N \in SUBSET Movement /\ IsFiniteSet(N)
  BY <1>1, RefundsOfASale
<1> HIDE DEF N
<1>3. /\ shift' \in [Shift -> ShiftRecord]
      /\ \A g \in Shift : /\ shift'[g].status = shift[g].status
                          /\ shift'[g].key = shift[g].key
                          /\ shift'[g].closing = shift[g].closing
                          /\ IsFiniteSet(shift'[g].movements)
                          /\ shift[g].status # "OPEN" => shift'[g] = shift[g]
                          /\ g # h => shift'[g] = shift[g]
                          /\ shift[g].movements \subseteq shift'[g].movements
      /\ shift'[h].movements = shift[h].movements \cup N
  BY <1>1, <1>2, MovementsAreAdded
<1>4. /\ returned' \in [Sale -> Shift \cup {None}]
      /\ returned'[s] = h /\ \A t \in Sale \ {s} : returned'[t] = returned[t]
  BY <1>1 DEF RecordsOK
<1>5. \A v \in N : /\ v.type = "SALE_REFUND" /\ v.origin = s
                   /\ \E m \in methodsPaid(sale[s]) : v = refundOf(sale[s], s, m)
  BY <1>2 DEF refundOf
<1>6. RecordsOK'
  BY <1>1, <1>3, <1>4 DEF RecordsOK
<1>7. PaymentsInPlace'
  <2>1. \A g \in Shift : \A v \in shift'[g].movements :
          v.type = "SALE_PAYMENT" => v \in shift[g].movements
    BY <1>3, <1>5
  <2>2. \A t \in Sale : sale[t].status = "COMPLETED" => sale[t].shift \in Shift
    BY DEF RecordsOK
  <2> QED BY <1>1, <1>3, <2>1, <2>2 DEF PaymentsInPlace, methodsPaid, paymentOf
<1>8. RefundsInPlace'
  <2>1. ASSUME NEW t \in Sale, NEW g \in Shift, NEW v \in shift'[g].movements,
               v.type = "SALE_REFUND", v.origin = t
        PROVE  returned'[t] = g /\ \E m \in methodsPaid(sale[t]) : v = refundOf(sale[t], t, m)
    <3>1. CASE v \in shift[g].movements
      <4>1. returned[t] = g /\ \E m \in methodsPaid(sale[t]) : v = refundOf(sale[t], t, m)
        BY <2>1, <3>1 DEF RefundsInPlace
      <4>2. t # s
        BY <1>1, <4>1
      <4> QED BY <1>4, <4>1, <4>2
    <3>2. CASE v \notin shift[g].movements
      <4>1. g = h /\ v \in N
        BY <1>3, <3>2
      <4> QED BY <1>4, <1>5, <2>1, <4>1
    <3> QED BY <3>1, <3>2
  <2>2. ASSUME NEW t \in Sale, returned'[t] # None
        PROVE  /\ sale[t].status = "COMPLETED"
               /\ \A m \in methodsPaid(sale[t]) :
                    refundOf(sale[t], t, m) \in shift'[returned'[t]].movements
    <3>1. CASE t = s
      BY <1>1, <1>2, <1>3, <1>4, <3>1
    <3>2. CASE t # s
      <4>1. returned'[t] = returned[t] /\ returned[t] \in Shift
        BY <1>4, <2>2, <3>2 DEF RecordsOK
      <4> QED BY <1>3, <2>2, <4>1 DEF RefundsInPlace
    <3> QED BY <3>1, <3>2
  <2>3. sale' = sale
    BY <1>1
  <2> QED BY <2>1, <2>2, <2>3 DEF RefundsInPlace, methodsPaid, refundOf
<1>9. ClosedForGood'
  <2>1. \A g \in Shift : shift'[g].status = "CLOSED" =>
          shift[g].status = "CLOSED" /\ shift'[g] = shift[g]
    BY <1>3
  <2> QED BY <1>1, <2>1 DEF ClosedForGood
<1>10. KeysAreAnswered' /\ KeysMakeOne'
  <2>1. \A g \in Shift : \A v \in shift'[g].movements :
          isManual(v) => v \in shift[g].movements
    BY <1>3, <1>5 DEF isManual
  <2> QED BY <1>1, <1>3, <2>1 DEF KeysAreAnswered, KeysMakeOne
<1> QED BY <1>6, <1>7, <1>8, <1>9, <1>10

-----------------------------------------------------------------------------
(* Results.                                                                *)

LEMMA InitStoreInv == StoreInit => StoreInv
<1> SUFFICES ASSUME StoreInit PROVE StoreInv
  OBVIOUS
<1>1. noSale \in SaleRecord /\ noSale.status = "ABSENT" /\ noSale.key = None
  BY DEF noSale, SaleRecord, SaleStatus
<1>2. /\ noShift \in ShiftRecord /\ noShift.status = "ABSENT" /\ noShift.key = None
      /\ noShift.movements = {}
  <2>1. [m \in Method |-> 0] \in [Method -> Int]
    OBVIOUS
  <2> QED BY <2>1 DEF noShift, ShiftRecord
<1>3. \A s \in Sale : sale[s] = noSale /\ returned[s] = None
  BY DEF StoreInit
<1>4. \A h \in Shift : shift[h] = noShift
  BY DEF StoreInit
<1>5. RecordsOK
  BY <1>1, <1>2, <1>3, <1>4, FS_EmptySet DEF StoreInit, RecordsOK
<1>6. PaymentsInPlace /\ RefundsInPlace
  BY <1>1, <1>2, <1>3, <1>4 DEF PaymentsInPlace, RefundsInPlace
<1>7. ClosedForGood /\ KeysAreAnswered /\ KeysMakeOne
  BY <1>1, <1>2, <1>3, <1>4 DEF ClosedForGood, KeysAreAnswered, KeysMakeOne
<1> QED BY <1>5, <1>6, <1>7 DEF StoreInv

LEMMA StoreInvStep == StoreInv /\ [StoreNext]_storeVars => StoreInv'
<1> SUFFICES ASSUME StoreInv, [StoreNext]_storeVars PROVE StoreInv'
  OBVIOUS
<1>1. ASSUME UNCHANGED <<sale, shift, answered, returned>> PROVE StoreInv'
  BY <1>1 DEF StoreInv, RecordsOK, PaymentsInPlace, RefundsInPlace, ClosedForGood,
              KeysAreAnswered, KeysMakeOne, methodsPaid, paymentOf, refundOf
<1>2. ASSUME NEW h \in Shift, CashStep(h) PROVE StoreInv'
  BY <1>2, OpenShiftInv, RegisterCashMovementInv, CloseShiftInv DEF CashStep
<1>3. ASSUME NEW s \in Sale, SaleStep(s) PROVE StoreInv'
  <2>1. sale[s] \in SaleRecord
    BY DEF StoreInv, RecordsOK
  <2>2. CASE \E h \in Shift, k \in Key : StartSale(s, h, k)
    BY <2>2, StartSaleInv
  <2>3. CASE \E h \in Shift : ReturnSale(s, h)
    BY <2>3, ReturnSaleInv
  <2>4. CASE AddItemToSale(s) \/ RemoveItemFromSale(s) \/ ApplyDiscountToSale(s)
    BY <2>1, <2>4, LinesEditDrafts, EditStep
       DEF AddItemToSale, RemoveItemFromSale, ApplyDiscountToSale
  <2>5. CASE RegisterMixedPayment(s) \/ VoidSale(s)
    BY <2>1, <2>5, PaymentsAndVoidsEditDrafts, EditStep DEF RegisterMixedPayment, VoidSale
  <2>6. CASE CompleteSale(s)
    BY <2>6, CompleteSaleInv
  <2>7. CASE IssueSaleInvoice(s) \/ CoordinatorIssues(s)
    BY <1>1, <2>7 DEF IssueSaleInvoice, CoordinatorIssues
  <2> QED BY <1>3, <2>2, <2>3, <2>4, <2>5, <2>6, <2>7 DEF SaleStep
<1>4. CASE UNCHANGED storeVars
  BY <1>1, <1>4 DEF storeVars
<1> QED BY <1>2, <1>3, <1>4 DEF StoreNext

(* The argument of the others: the payment and the refund of a sale by a   *)
(* method can be one movement of one shift only, a closed shift is left    *)
(* alone, and whatever a key made has its answer stored.                   *)
THEOREM StoreInvariance == StoreSpec => []StoreInv
<1> QED BY InitStoreInv, StoreInvStep, PTL DEF StoreSpec

(* The money of a completed sale is in its shift once, for any number of   *)
(* sales, registers, repeated commands and shifts closed in between.       *)
THEOREM PaymentsReachTheirShift == StoreSpec => []PaymentsAreInTheirShift
<1>1. StoreInv => PaymentsAreInTheirShift
  <2> SUFFICES ASSUME StoreInv, NEW s \in Sale
               PROVE  recorded("SALE_PAYMENT", s) =
                        IF sale[s].status # "COMPLETED" THEN {}
                        ELSE {<<sale[s].shift, paymentOf(sale[s], s, m)>> :
                                m \in methodsPaid(sale[s])}
    BY DEF PaymentsAreInTheirShift, paymentOf
  <2>1. \A r \in recorded("SALE_PAYMENT", s) :
          /\ sale[s].status = "COMPLETED"
          /\ \E m \in methodsPaid(sale[s]) : r = <<sale[s].shift, paymentOf(sale[s], s, m)>>
    BY DEF StoreInv, PaymentsInPlace, recorded, inShifts
  <2>2. ASSUME sale[s].status = "COMPLETED", NEW m \in methodsPaid(sale[s])
        PROVE  <<sale[s].shift, paymentOf(sale[s], s, m)>> \in recorded("SALE_PAYMENT", s)
    <3>1. sale[s].shift \in Shift
      BY <2>2 DEF StoreInv, RecordsOK
    <3>2. paymentOf(sale[s], s, m) \in shift[sale[s].shift].movements
      BY <2>2 DEF StoreInv, PaymentsInPlace
    <3>3. paymentOf(sale[s], s, m).type = "SALE_PAYMENT" /\ paymentOf(sale[s], s, m).origin = s
      BY DEF paymentOf
    <3> QED BY <3>1, <3>2, <3>3 DEF recorded, inShifts
  <2> QED BY <2>1, <2>2
<1> QED BY <1>1, StoreInvariance, PTL

(* Nothing reaches a shift after it was closed, nor is a sale of it left   *)
(* waiting.                                                                *)
THEOREM ClosedShiftsStayBalanced == StoreSpec => []ClosedShiftsBalance
<1>1. StoreInv => ClosedShiftsBalance
  BY DEF StoreInv, ClosedForGood, ClosedShiftsBalance, drafts, expectedBalances
<1> QED BY <1>1, StoreInvariance, PTL

(* A return gives back what its sale brought in: all of it, once, and only *)
(* then.                                                                   *)
THEOREM RefundsGiveBackTheSale == StoreSpec => []RefundsMatchReturns
<1>1. ASSUME StoreInv, NEW s \in Sale
      PROVE  {<<r[1], r[2].method, r[2].amount, r[2].nth>> : r \in recorded("SALE_REFUND", s)} =
               IF returned[s] = None THEN {}
               ELSE {<<returned[s], r[2].method, r[2].amount, 1>> :
                       r \in recorded("SALE_PAYMENT", s)}
  <2> DEFINE pay == recorded("SALE_PAYMENT", s)
             back == recorded("SALE_REFUND", s)
             x == sale[s]
  <2>1. \A r \in back : /\ returned[s] # None
                        /\ \E m \in methodsPaid(x) : r = <<returned[s], refundOf(x, s, m)>>
    BY <1>1 DEF StoreInv, RefundsInPlace, recorded, inShifts
  <2>2. ASSUME returned[s] # None, NEW m \in methodsPaid(x)
        PROVE  <<returned[s], refundOf(x, s, m)>> \in back
    <3>1. returned[s] \in Shift
      BY <1>1, <2>2 DEF StoreInv, RecordsOK
    <3>2. refundOf(x, s, m) \in shift[returned[s]].movements
      BY <1>1, <2>2 DEF StoreInv, RefundsInPlace
    <3>3. refundOf(x, s, m).type = "SALE_REFUND" /\ refundOf(x, s, m).origin = s
      BY DEF refundOf
    <3> QED BY <3>1, <3>2, <3>3 DEF recorded, inShifts
  <2>3. \A r \in pay : \E m \in methodsPaid(x) : r = <<x.shift, paymentOf(x, s, m)>>
    BY <1>1 DEF StoreInv, PaymentsInPlace, recorded, inShifts
  <2>4. ASSUME returned[s] # None, NEW m \in methodsPaid(x)
        PROVE  <<x.shift, paymentOf(x, s, m)>> \in pay
    <3>1. x.status = "COMPLETED" /\ x.shift \in Shift
      BY <1>1, <2>4 DEF StoreInv, RefundsInPlace, RecordsOK
    <3>2. paymentOf(x, s, m) \in shift[x.shift].movements
      BY <1>1, <2>4, <3>1 DEF StoreInv, PaymentsInPlace
    <3>3. paymentOf(x, s, m).type = "SALE_PAYMENT" /\ paymentOf(x, s, m).origin = s
      BY DEF paymentOf
    <3> QED BY <3>1, <3>2, <3>3 DEF recorded, inShifts
  <2>5. \A m : /\ paymentOf(x, s, m).method = m /\ refundOf(x, s, m).method = m
               /\ paymentOf(x, s, m).amount = x.paid[m] /\ refundOf(x, s, m).amount = x.paid[m]
               /\ refundOf(x, s, m).nth = 1
    BY DEF paymentOf, refundOf
  <2> HIDE DEF pay, back, x
  <2>6. CASE returned[s] = None
    BY <2>1, <2>6 DEF back
  <2>7. CASE returned[s] # None
    <3>1. {<<r[1], r[2].method, r[2].amount, r[2].nth>> : r \in back}
            = {<<returned[s], m, x.paid[m], 1>> : m \in methodsPaid(x)}
      <4>1. ASSUME NEW r \in back
            PROVE  \E m \in methodsPaid(x) :
                     <<r[1], r[2].method, r[2].amount, r[2].nth>>
                       = <<returned[s], m, x.paid[m], 1>>
        <5>1. PICK m \in methodsPaid(x) : r = <<returned[s], refundOf(x, s, m)>>
          BY <2>1
        <5>2. r[1] = returned[s] /\ r[2] = refundOf(x, s, m)
          BY <5>1
        <5> QED BY <2>5, <5>2
      <4>2. ASSUME NEW m \in methodsPaid(x)
            PROVE  \E r \in back : <<returned[s], m, x.paid[m], 1>>
                                    = <<r[1], r[2].method, r[2].amount, r[2].nth>>
        <5> DEFINE q == <<returned[s], refundOf(x, s, m)>>
        <5>1. q \in back
          BY <2>2, <2>7
        <5>2. q[1] = returned[s] /\ q[2] = refundOf(x, s, m)
          OBVIOUS
        <5>3. <<q[1], q[2].method, q[2].amount, q[2].nth>> = <<returned[s], m, x.paid[m], 1>>
          BY <2>5, <5>2
        <5> HIDE DEF q
        <5> QED BY <5>1, <5>3
      <4> DEFINE A == {<<r[1], r[2].method, r[2].amount, r[2].nth>> : r \in back}
                 B == {<<returned[s], m, x.paid[m], 1>> : m \in methodsPaid(x)}
      <4>3. A \subseteq B
        BY <4>1, Zenon
      <4>4. B \subseteq A
        <5> SUFFICES ASSUME NEW z \in B PROVE z \in A
          OBVIOUS
        <5>1. PICK m \in methodsPaid(x) : z = <<returned[s], m, x.paid[m], 1>>
          OBVIOUS
        <5>2. PICK r \in back : z = <<r[1], r[2].method, r[2].amount, r[2].nth>>
          BY <4>2, <5>1
        <5> QED BY <5>2
      <4> QED BY <4>3, <4>4
    <3>2. {<<returned[s], r[2].method, r[2].amount, 1>> : r \in pay}
            = {<<returned[s], m, x.paid[m], 1>> : m \in methodsPaid(x)}
      <4>1. ASSUME NEW r \in pay
            PROVE  \E m \in methodsPaid(x) :
                     <<returned[s], r[2].method, r[2].amount, 1>>
                       = <<returned[s], m, x.paid[m], 1>>
        <5>1. PICK m \in methodsPaid(x) : r = <<x.shift, paymentOf(x, s, m)>>
          BY <2>3
        <5>2. r[2] = paymentOf(x, s, m)
          BY <5>1
        <5> QED BY <2>5, <5>2
      <4>2. ASSUME NEW m \in methodsPaid(x)
            PROVE  \E r \in pay : <<returned[s], m, x.paid[m], 1>>
                                   = <<returned[s], r[2].method, r[2].amount, 1>>
        <5> DEFINE q == <<x.shift, paymentOf(x, s, m)>>
        <5>1. q \in pay
          BY <2>4, <2>7
        <5>2. q[2] = paymentOf(x, s, m)
          OBVIOUS
        <5>3. <<returned[s], q[2].method, q[2].amount, 1>> = <<returned[s], m, x.paid[m], 1>>
          BY <2>5, <5>2
        <5> HIDE DEF q
        <5> QED BY <5>1, <5>3
      <4> DEFINE A == {<<returned[s], r[2].method, r[2].amount, 1>> : r \in pay}
                 B == {<<returned[s], m, x.paid[m], 1>> : m \in methodsPaid(x)}
      <4>3. A \subseteq B
        BY <4>1, Zenon
      <4>4. B \subseteq A
        <5> SUFFICES ASSUME NEW z \in B PROVE z \in A
          OBVIOUS
        <5>1. PICK m \in methodsPaid(x) : z = <<returned[s], m, x.paid[m], 1>>
          OBVIOUS
        <5>2. PICK r \in pay : z = <<returned[s], r[2].method, r[2].amount, 1>>
          BY <4>2, <5>1
        <5> QED BY <5>2
      <4> QED BY <4>3, <4>4
    <3> QED BY <2>7, <3>1, <3>2 DEF back, pay
  <2> QED BY <2>6, <2>7
<1>2. StoreInv => RefundsMatchReturns
  BY <1>1 DEF RefundsMatchReturns
<1> QED BY <1>2, StoreInvariance, PTL

(* A key makes at most one shift, one sale and one movement, however often *)
(* and however late the command is sent again.                             *)
THEOREM KeysHaveOneEffect == StoreSpec => []OneEffectPerKey
<1>1. StoreInv => OneEffectPerKey
  <2> SUFFICES ASSUME StoreInv PROVE OneEffectPerKey
    OBVIOUS
  <2>1. \A r, q \in manual : r[2].origin = q[2].origin => r = q
    <3> SUFFICES ASSUME NEW r \in manual, NEW q \in manual, r[2].origin = q[2].origin
                 PROVE  r = q
      OBVIOUS
    <3>1. /\ r[1] \in Shift /\ r[2] \in shift[r[1]].movements /\ isManual(r[2])
          /\ r = <<r[1], r[2]>>
      BY DEF manual, inShifts, isManual
    <3>2. /\ q[1] \in Shift /\ q[2] \in shift[q[1]].movements /\ isManual(q[2])
          /\ q = <<q[1], q[2]>>
      BY DEF manual, inShifts, isManual
    <3>3. r[1] = q[1] /\ r[2] = q[2]
      BY <3>1, <3>2 DEF StoreInv, KeysMakeOne
    <3> QED BY <3>1, <3>2, <3>3
  <2> QED BY <2>1 DEF StoreInv, KeysMakeOne, OneEffectPerKey
<1> QED BY <1>1, StoreInvariance, PTL

-----------------------------------------------------------------------------
(* Types.  Only the balances of a close are not plain assignments.         *)

LEMMA StoreTypeStep ==
  StoreInv /\ StoreInv' /\ StoreTypeOK /\ [StoreNext]_storeVars => StoreTypeOK'
<1> SUFFICES ASSUME StoreInv, StoreInv', StoreTypeOK, [StoreNext]_storeVars PROVE StoreTypeOK'
  OBVIOUS
<1>1. /\ (sale \in [Sale -> SaleRecord])' /\ (shift \in [Shift -> ShiftRecord])'
      /\ (returned \in [Sale -> Shift \cup {None}])'
  BY DEF StoreInv, RecordsOK
<1> DEFINE Rest == /\ answered \subseteq {"OpenShift", "StartSale", "RegisterCashMovement"} \X Key
                   /\ invoiced \subseteq Sale /\ issued \subseteq Sale
                   /\ stock \in Int /\ local \in BOOLEAN
<1>2. Rest /\ \A s \in Sale : sale[s].items \in Nat
  BY DEF StoreTypeOK
<1>3. Rest'
  <2>1. ASSUME NEW h \in Shift, CashStep(h) PROVE Rest'
    <3>1. \/ UNCHANGED answered
          \/ \E k \in Key : \/ executeIdempotentCommand("OpenShift", k)
                            \/ executeIdempotentCommand("RegisterCashMovement", k)
      BY <2>1 DEF CashStep, OpenShift, RegisterCashMovement, CloseShift
    <3>2. UNCHANGED <<invoiced, issued, stock, local>>
      BY <2>1 DEF CashStep, OpenShift, RegisterCashMovement, CloseShift
    <3> DEFINE Answers == {"OpenShift", "StartSale", "RegisterCashMovement"} \X Key
    <3>3. \A k \in Key : /\ <<"OpenShift", k>> \in Answers
                         /\ <<"RegisterCashMovement", k>> \in Answers
      OBVIOUS
    <3>4. answered \subseteq Answers
      BY <1>2
    <3> HIDE DEF Answers
    <3>5. answered' = answered \/ \E e \in Answers : answered' = answered \cup {e}
      BY <3>1, <3>3, Zenon DEF executeIdempotentCommand
    <3>6. answered' \subseteq Answers
      BY <3>4, <3>5
    <3> QED BY <1>2, <3>2, <3>6 DEF Answers
  <2>2. ASSUME NEW s \in Sale, SaleStep(s) PROVE Rest'
    <3>1. CASE \E h \in Shift, k \in Key : StartSale(s, h, k)
      BY <1>2, <3>1 DEF StartSale, executeIdempotentCommand
    <3>2. CASE \E h \in Shift : ReturnSale(s, h)
      BY <1>2, <3>2 DEF ReturnSale
    <3>3. CASE \/ AddItemToSale(s) \/ RemoveItemFromSale(s) \/ ApplyDiscountToSale(s)
               \/ RegisterMixedPayment(s) \/ VoidSale(s)
      BY <1>2, <3>3 DEF AddItemToSale, RemoveItemFromSale, ApplyDiscountToSale,
                        RegisterMixedPayment, VoidSale, Edited
    <3>4. CASE CompleteSale(s)
      BY <1>2, <3>4 DEF CompleteSale, issueSoldStock
    <3>5. CASE IssueSaleInvoice(s) \/ CoordinatorIssues(s)
      BY <1>2, <3>5 DEF IssueSaleInvoice, CoordinatorIssues
    <3> QED BY <2>2, <3>1, <3>2, <3>3, <3>4, <3>5 DEF SaleStep
  <2>3. CASE UNCHANGED storeVars
    BY <1>2, <2>3 DEF storeVars
  <2> QED BY <2>1, <2>2, <2>3 DEF StoreNext
<1> QED BY <1>1, <1>3 DEF StoreTypeOK, SaleRecord, SaleStatus, ShiftRecord

(* Every value has its type; in particular what a close declares expected  *)
(* is a number for each method, whatever the movements were.               *)
THEOREM StoreIsTyped == StoreSpec => []StoreTypeOK
<1>1. StoreInit => StoreTypeOK
  BY InitStoreInv DEF StoreInit, StoreTypeOK, StoreInv, RecordsOK, SaleRecord, SaleStatus,
                      ShiftRecord
<1>2. StoreInv /\ StoreTypeOK /\ [StoreNext]_storeVars => StoreTypeOK'
  BY StoreInvStep, StoreTypeStep
<1> QED BY <1>1, <1>2, StoreInvariance, PTL DEF StoreSpec

-----------------------------------------------------------------------------
(* Drawers.  A withdrawal is compared with a balance in which the refunds  *)
(* already count, so it is covered by the money that came in.              *)

notRefunds(ms) == {v \in ms : v.type # "SALE_REFUND"}

LEMMA RefundsOnlyTakeOut ==
  ASSUME NEW ms \in SUBSET Movement, IsFiniteSet(ms), NEW m
  PROVE  /\ notRefunds(ms) \in SUBSET Movement /\ IsFiniteSet(notRefunds(ms))
         /\ balanceFor(ms, m) <= balanceFor(notRefunds(ms), m)
<1> DEFINE kept == notRefunds(ms)
           gone == ms \ kept
<1>1. /\ kept \in SUBSET Movement /\ gone \in SUBSET Movement
      /\ kept \cap gone = {} /\ kept \cup gone = ms
      /\ \A v \in gone : signed(v) <= 0
  BY DEF notRefunds, signed, Movement
<1>2. IsFiniteSet(kept) /\ IsFiniteSet(gone)
  BY <1>1, FS_Subset
<1> HIDE DEF kept, gone
<1>3. balanceFor(ms, m) = balanceFor(kept, m) + balanceFor(gone, m)
  BY <1>1, <1>2, BalancesAddUp
<1>4. balanceFor(gone, m) <= 0 /\ balanceFor(kept, m) \in Int /\ balanceFor(gone, m) \in Int
  BY <1>1, <1>2, BalanceHasTheSign, BalanceIsASum
<1> QED BY <1>1, <1>2, <1>3, <1>4 DEF kept

(* Movements that are not withdrawals may be added to any drawer.          *)
LEMMA IncomeCoversTheDrawer ==
  ASSUME NEW ms \in SUBSET Movement, IsFiniteSet(ms),
         NEW ns \in SUBSET Movement, IsFiniteSet(ns), \A v \in ns : v.type # "WITHDRAWAL",
         NEW m, balanceFor(notRefunds(ms), m) >= 0
  PROVE  balanceFor(notRefunds(ms \cup ns), m) >= 0
<1> DEFINE old == notRefunds(ms)
           new == notRefunds(ns) \ old
<1>1. /\ old \in SUBSET Movement /\ new \in SUBSET Movement
      /\ old \cap new = {} /\ old \cup new = notRefunds(ms \cup ns)
      /\ \A v \in new : signed(v) >= 0
  BY DEF notRefunds, signed, Movement
<1>2. IsFiniteSet(old) /\ IsFiniteSet(new)
  BY FS_Subset DEF notRefunds
<1>3. balanceFor(old, m) >= 0
  OBVIOUS
<1> HIDE DEF old, new
<1>4. balanceFor(old \cup new, m) = balanceFor(old, m) + balanceFor(new, m)
  BY <1>1, <1>2, BalancesAddUp
<1>5. balanceFor(new, m) >= 0 /\ balanceFor(old, m) \in Int /\ balanceFor(new, m) \in Int
  BY <1>1, <1>2, BalanceHasTheSign, BalanceIsASum
<1>6. balanceFor(old \cup new, m) >= 0
  BY <1>3, <1>4, <1>5
<1>7. old \cup new = notRefunds(ms \cup ns)
  BY <1>1
<1> QED BY <1>6, <1>7, Zenon

LEMMA DrawersStayCovered ==
  StoreInv /\ StoreInv' /\ OverdrawnOnlyByRefunds /\ [StoreNext]_storeVars
    => OverdrawnOnlyByRefunds'
<1> SUFFICES ASSUME StoreInv, StoreInv', OverdrawnOnlyByRefunds, [StoreNext]_storeVars,
                    NEW g \in Shift, NEW m \in Method
             PROVE  balanceFor(notRefunds(shift'[g].movements), m) >= 0
  BY DEF OverdrawnOnlyByRefunds, notRefunds
<1> DEFINE ms == shift[g].movements
<1>1. ms \in SUBSET Movement /\ IsFiniteSet(ms)
  BY DEF StoreInv, RecordsOK, ShiftRecord
<1>2. balanceFor(notRefunds(ms), m) >= 0
  BY DEF OverdrawnOnlyByRefunds, notRefunds
<1>3. CASE shift'[g].movements = ms
  BY <1>2, <1>3
<1>4. ASSUME NEW ns \in SUBSET Movement, IsFiniteSet(ns), \A v \in ns : v.type # "WITHDRAWAL",
             shift'[g].movements = ms \cup ns
      PROVE  balanceFor(notRefunds(shift'[g].movements), m) >= 0
  BY <1>1, <1>2, <1>4, IncomeCoversTheDrawer
<1>5. shift \in [Shift -> ShiftRecord] /\ shift' \in [Shift -> ShiftRecord]
  BY DEF StoreInv, RecordsOK
<1>6. ASSUME NEW h \in Shift, NEW k \in Key, OpenShift(h, k)
      PROVE  balanceFor(notRefunds(shift'[g].movements), m) >= 0
  <2>1. PICK fund \in [CashMethod -> 0..MaxAmount] :
          shift' = [shift EXCEPT ![h] = [noShift EXCEPT !.status = "OPEN", !.key = k,
                      !.movements = {movement(h, "OPENING_FLOAT", None, c, fund[c]) :
                                       c \in {d \in CashMethod : fund[d] > 0}}]]
    BY <1>6, Zenon DEF OpenShift
  <2> DEFINE funded == {c \in CashMethod : fund[c] > 0}
             floats == {movement(h, "OPENING_FLOAT", None, c, fund[c]) : c \in funded}
  <2>2. CASE g # h
    BY <1>3, <1>5, <2>1, <2>2
  <2>3. CASE g = h
    <3>1. \A v \in floats : v.type = "OPENING_FLOAT"
      <4>1. \A c \in CashMethod : movement(h, "OPENING_FLOAT", None, c, fund[c]).type
                                    = "OPENING_FLOAT"
        BY DEF movement
      <4> QED BY <4>1
    <3>2. shift[h].status = "ABSENT"
      BY <1>6 DEF OpenShift
    <3>3. ms = {}
      BY <2>3, <3>2 DEF StoreInv, RecordsOK
    <3> HIDE DEF floats
    <3>4. shift'[g].movements = floats
      BY <1>5, <2>1, <2>3 DEF floats, noShift
    <3>5. floats \in SUBSET Movement /\ IsFiniteSet(floats)
      BY <3>4 DEF StoreInv, RecordsOK, ShiftRecord
    <3>6. \A v \in floats : v.type # "WITHDRAWAL"
      BY <3>1
    <3> QED BY <1>4, <3>3, <3>4, <3>5, <3>6
  <2> QED BY <2>2, <2>3
<1>7. ASSUME NEW h \in Shift, NEW k \in Key, RegisterCashMovement(h, k)
      PROVE  balanceFor(notRefunds(shift'[g].movements), m) >= 0
  <2>1. PICK type \in {"INCOME", "WITHDRAWAL"}, c \in CashMethod, amount \in 1..MaxAmount :
          /\ accepts(h, movement(h, type, k, c, amount))
          /\ shift' = with(h, {movement(h, type, k, c, amount)})
    BY <1>7 DEF RegisterCashMovement
  <2> DEFINE v == movement(h, type, k, c, amount)
  <2>2. /\ v \in Movement /\ v.type = type /\ v.method = c /\ v.amount = amount
    <3>1. v \in Movement
      BY MovementsAreNumbered DEF Origin, StoreInv
    <3> QED BY <3>1 DEF movement
  <2> HIDE DEF v
  <2>3. accepts(h, v) /\ shift' = with(h, {v})
    BY <2>1 DEF v
  <2>4. IsFiniteSet({v}) /\ {v} \in SUBSET Movement
    BY <2>2, FS_Singleton
  <2>5. /\ g # h => shift'[g] = shift[g]
        /\ shift'[h].movements = shift[h].movements \cup {v}
    BY <1>5, <2>3 DEF with, ShiftRecord
  <2>6. CASE g # h \/ v \in ms \/ type = "INCOME"
    BY <1>3, <1>4, <2>2, <2>4, <2>5, <2>6
  <2>7. CASE g = h /\ v \notin ms /\ type = "WITHDRAWAL"
    <3> DEFINE kept == notRefunds(ms)
    <3>1. /\ kept \in SUBSET Movement /\ IsFiniteSet(kept)
          /\ balanceFor(ms, m) <= balanceFor(kept, m)
      BY <1>1, RefundsOnlyTakeOut
    <3>2. v \notin kept /\ notRefunds(shift'[g].movements) = kept \cup {v}
      BY <2>2, <2>5, <2>7 DEF notRefunds
    <3>3. kept \cap {v} = {}
      BY <3>2
    <3> HIDE DEF kept
    <3>4. balanceFor(kept \cup {v}, m) = balanceFor(kept, m) + balanceFor({v}, m)
      BY <2>4, <3>1, <3>3, BalancesAddUp
    <3>5. balanceFor(kept, m) >= 0 /\ balanceFor(kept, m) \in Int /\ balanceFor(ms, m) \in Int
      BY <1>1, <1>2, <3>1, BalanceIsASum DEF kept
    <3>6. balanceFor({v}, m) = IF m = c THEN -amount ELSE 0
      <4>1. /\ balanceFor({v}, m) = SumFunctionOnSet(signedAmounts, byMethod({v}, m))
            /\ signedAmounts[v] = signed(v) /\ signed(v) = -amount
        BY <2>2, <2>4, <2>7, BalanceIsASum DEF signed
      <4>2. CASE m # c
        <5>1. byMethod({v}, m) = {}
          BY <2>2, <4>2 DEF byMethod
        <5> QED BY <4>1, <4>2, <5>1, SumOfNothing
      <4>3. CASE m = c
        <5>1. byMethod({v}, m) = {} \cup {v}
          BY <2>2, <4>3 DEF byMethod
        <5>2. IsFiniteSet({}) /\ signedAmounts[v] \in Int /\ v \notin {}
          BY <4>1, FS_EmptySet
        <5>3. SumFunctionOnSet(signedAmounts, {} \cup {v})
                = signedAmounts[v] + SumFunctionOnSet(signedAmounts, {})
          BY <5>2, SumWithOneMore
        <5>4. -amount + 0 = -amount
          OBVIOUS
        <5> QED BY <4>1, <4>3, <5>1, <5>3, <5>4, SumOfNothing
      <4> QED BY <4>2, <4>3
    <3>7. amount <= balanceFor(ms, c)
      BY <2>2, <2>3, <2>7 DEF accepts
    <3>8. CASE m = c
      BY <3>1, <3>2, <3>4, <3>5, <3>6, <3>7, <3>8
    <3>9. CASE m # c
      BY <3>2, <3>4, <3>5, <3>6, <3>9
    <3> QED BY <3>8, <3>9
  <2> QED BY <2>6, <2>7
<1>8. ASSUME NEW h \in Shift, CloseShift(h)
      PROVE  shift'[g].movements = ms
  BY <1>5, <1>8 DEF CloseShift, ShiftRecord
<1>9. ASSUME NEW s \in Sale, CompleteSale(s)
      PROVE  balanceFor(notRefunds(shift'[g].movements), m) >= 0
  <2> DEFINE h == sale[s].shift
             N == payments(s, h)
  <2>1. sale[s].status = "DRAFT" /\ shift' = with(h, N)
    BY <1>9 DEF CompleteSale, complete
  <2>2. h \in Shift
    BY <2>1 DEF StoreInv, RecordsOK
  <2>3. /\ N = {paymentOf(sale[s], s, p) : p \in methodsPaid(sale[s])}
        /\ N \in SUBSET Movement /\ IsFiniteSet(N)
    BY <2>1, <2>2, PaymentsOfADraft
  <2>4. \A v \in N : v.type # "WITHDRAWAL"
    BY <2>3 DEF paymentOf
  <2> HIDE DEF h, N
  <2>5. /\ g # h => shift'[g] = shift[g]
        /\ shift'[h].movements = shift[h].movements \cup N
    BY <1>5, <2>1, <2>2 DEF with, ShiftRecord
  <2> QED BY <1>3, <1>4, <2>3, <2>4, <2>5
<1>10. ASSUME NEW s \in Sale, NEW h \in Shift, ReturnSale(s, h)
       PROVE  balanceFor(notRefunds(shift'[g].movements), m) >= 0
  <2> DEFINE N == {movement(h, "SALE_REFUND", s, p, sale[s].paid[p]) :
                     p \in methodsPaid(sale[s])}
  <2>1. returned[s] = None /\ shift' = with(h, N)
    BY <1>10 DEF ReturnSale, returnable
  <2>2. /\ N = {refundOf(sale[s], s, p) : p \in methodsPaid(sale[s])}
        /\ N \in SUBSET Movement /\ IsFiniteSet(N)
    BY <2>1, RefundsOfASale
  <2>3. \A v \in N : v.type # "WITHDRAWAL"
    BY <2>2 DEF refundOf
  <2> HIDE DEF N
  <2>4. /\ g # h => shift'[g] = shift[g]
        /\ shift'[h].movements = shift[h].movements \cup N
    BY <1>5, <2>1 DEF with, ShiftRecord
  <2> QED BY <1>3, <1>4, <2>2, <2>3, <2>4
<1>11. CASE UNCHANGED shift
  BY <1>3, <1>11
<1>12. ASSUME NEW s \in Sale, SaleStep(s)
       PROVE  \/ UNCHANGED shift \/ CompleteSale(s) \/ \E h \in Shift : ReturnSale(s, h)
  BY <1>12 DEF SaleStep, StartSale, AddItemToSale, RemoveItemFromSale, ApplyDiscountToSale,
               RegisterMixedPayment, VoidSale, Edited, IssueSaleInvoice, CoordinatorIssues
<1>13. CASE \E h \in Shift : CashStep(h)
  BY <1>3, <1>6, <1>7, <1>8, <1>13 DEF CashStep
<1>14. CASE \E s \in Sale : SaleStep(s)
  BY <1>9, <1>10, <1>11, <1>12, <1>14
<1>15. CASE UNCHANGED storeVars
  BY <1>11, <1>15 DEF storeVars
<1> QED BY <1>13, <1>14, <1>15 DEF StoreNext

(* Only a refund can leave a shift owing money: without the refunds, what  *)
(* a method has brought in always covers what was withdrawn of it.         *)
THEOREM DrawersAreCovered == StoreSpec => []OverdrawnOnlyByRefunds
<1>1. StoreInit => OverdrawnOnlyByRefunds
  <2> SUFFICES ASSUME StoreInit, NEW h \in Shift, NEW m \in Method
               PROVE  balanceFor({v \in shift[h].movements : v.type # "SALE_REFUND"}, m) >= 0
    BY DEF OverdrawnOnlyByRefunds
  <2>1. {v \in shift[h].movements : v.type # "SALE_REFUND"} = {}
    BY DEF StoreInit, noShift
  <2> QED BY <2>1, FS_EmptySet, BalanceHasTheSign
<1>2. StoreInv /\ OverdrawnOnlyByRefunds /\ [StoreNext]_storeVars => OverdrawnOnlyByRefunds'
  BY StoreInvStep, DrawersStayCovered
<1> QED BY <1>1, <1>2, StoreInvariance, PTL DEF StoreSpec

-----------------------------------------------------------------------------
(* Stock.  The lines of a sale whose goods have left no longer change, so  *)
(* what is out of the stock changes only with the sales that are out.      *)

soldItems(rows) == [s \in Sale |-> rows[s].items]
goodsOut == {t \in issued : returned[t] = None}

GoodsInv ==
  /\ issued \subseteq Sale /\ IsFiniteSet(issued) /\ stock \in Int
  /\ \A s \in issued : sale[s].status = "COMPLETED"
  /\ local => stock + SumFunctionOnSet(soldItems(sale), goodsOut) = OpeningStock

LEMMA GoodsOutAreCounted ==
  ASSUME StoreInv, issued \subseteq Sale, IsFiniteSet(issued)
  PROVE  /\ goodsOut \subseteq Sale /\ IsFiniteSet(goodsOut)
         /\ \A s \in Sale : soldItems(sale)[s] = sale[s].items /\ sale[s].items \in Int
         /\ \A T \in SUBSET goodsOut : SumFunctionOnSet(soldItems(sale), T) \in Int
<1>1. goodsOut \subseteq issued
  BY DEF goodsOut
<1>2. goodsOut \subseteq Sale /\ IsFiniteSet(goodsOut)
  BY <1>1, FS_Subset
<1>3. \A s \in Sale : soldItems(sale)[s] = sale[s].items /\ sale[s].items \in Int
  BY DEF soldItems, StoreInv, RecordsOK, SaleRecord
<1>4. ASSUME NEW T \in SUBSET goodsOut
      PROVE  SumFunctionOnSet(soldItems(sale), T) \in Int
  <2>1. IsFiniteSet(T) /\ \A s \in T : soldItems(sale)[s] \in Int
    BY <1>2, <1>3, FS_Subset
  <2> QED BY <2>1, SumOfIntegers
<1> QED BY <1>2, <1>3, <1>4

(* A step that leaves the goods alone, and every sale whose goods are out. *)
LEMMA GoodsStay ==
  ASSUME StoreInv, GoodsInv, UNCHANGED <<issued, returned, stock, local>>,
         \A s \in issued : sale'[s].status = "COMPLETED" /\ sale'[s].items = sale[s].items
  PROVE  GoodsInv'
<1>1. goodsOut' = goodsOut /\ goodsOut \subseteq issued
  BY DEF goodsOut
<1>2. IsFiniteSet(goodsOut) /\ goodsOut \subseteq Sale
  BY GoodsOutAreCounted DEF GoodsInv
<1>3. \A s \in goodsOut : soldItems(sale)[s] = soldItems(sale')[s]
  BY <1>1, <1>2 DEF soldItems
<1>4. SumFunctionOnSet(soldItems(sale), goodsOut) = SumFunctionOnSet(soldItems(sale'), goodsOut)
  BY <1>2, <1>3, SumsAgree
<1> QED BY <1>1, <1>4 DEF GoodsInv

LEMMA CompletedGoodsLeave ==
  ASSUME StoreInv, GoodsInv, NEW s \in Sale, CompleteSale(s)
  PROVE  GoodsInv'
<1>1. sale[s].status = "DRAFT" /\ sale' = [sale EXCEPT ![s] = [sale[s] EXCEPT !.status = "COMPLETED"]]
  BY DEF CompleteSale, complete
<1>2. /\ issueSoldStock(s) /\ UNCHANGED <<returned, local>>
      /\ sale \in [Sale -> SaleRecord]
  BY DEF CompleteSale, StoreInv, RecordsOK
<1>3. /\ sale'[s].status = "COMPLETED"
      /\ \A t \in Sale : /\ sale'[t].items = sale[t].items
                         /\ sale[t].status = "COMPLETED" => sale'[t].status = "COMPLETED"
  BY <1>1, <1>2 DEF SaleRecord
<1>4. CASE UNCHANGED <<issued, stock>>
  BY <1>2, <1>3, <1>4, GoodsStay DEF GoodsInv
<1>5. CASE issued' = issued \cup {s} /\ stock' = stock - sale[s].items
  <2>1. s \notin issued /\ returned[s] = None
    BY <1>1 DEF GoodsInv, StoreInv, RefundsInPlace
  <2>2. goodsOut' = goodsOut \cup {s} /\ s \notin goodsOut
    BY <1>2, <1>5, <2>1 DEF goodsOut
  <2>3. /\ goodsOut \subseteq Sale /\ IsFiniteSet(goodsOut)
        /\ \A t \in Sale : soldItems(sale)[t] = sale[t].items /\ sale[t].items \in Int
        /\ SumFunctionOnSet(soldItems(sale), goodsOut) \in Int
    BY GoodsOutAreCounted DEF GoodsInv
  <2>4. soldItems(sale') = soldItems(sale)
    BY <1>3 DEF soldItems
  <2>5. SumFunctionOnSet(soldItems(sale), goodsOut \cup {s})
          = sale[s].items + SumFunctionOnSet(soldItems(sale), goodsOut)
    BY <2>2, <2>3, SumWithOneMore
  <2>6. issued' \subseteq Sale /\ IsFiniteSet(issued') /\ stock' \in Int
    BY <1>5, <2>3, FS_AddElement DEF GoodsInv
  <2>7. \A t \in issued' : sale'[t].status = "COMPLETED"
    BY <1>3, <1>5 DEF GoodsInv
  <2>8. ASSUME local
        PROVE  stock' + SumFunctionOnSet(soldItems(sale'), goodsOut') = OpeningStock
    <3>1. stock + SumFunctionOnSet(soldItems(sale), goodsOut) = OpeningStock /\ stock \in Int
      BY <2>8 DEF GoodsInv
    <3>2. stock' + SumFunctionOnSet(soldItems(sale), goodsOut \cup {s}) = OpeningStock
      BY <1>5, <2>3, <2>5, <3>1
    <3> QED BY <2>2, <2>4, <3>2
  <2> QED BY <1>2, <2>6, <2>7, <2>8 DEF GoodsInv
<1> QED BY <1>2, <1>4, <1>5 DEF issueSoldStock

LEMMA ReturnedGoodsComeBack ==
  ASSUME StoreInv, GoodsInv, NEW s \in Sale, NEW h \in Shift, ReturnSale(s, h)
  PROVE  GoodsInv'
<1>1. /\ s \in issued /\ returned[s] = None /\ returned' = [returned EXCEPT ![s] = h]
      /\ stock' = IF local THEN stock + sale[s].items ELSE stock
      /\ UNCHANGED <<sale, issued, local>>
  BY DEF ReturnSale, restorable, returnable
<1>2. returned \in [Sale -> Shift \cup {None}] /\ h # None
  BY DEF StoreInv, RecordsOK
<1>3. goodsOut' = goodsOut \ {s} /\ s \in goodsOut
  <2>1. \A t \in Sale \ {s} : returned'[t] = returned[t]
    BY <1>1, <1>2
  <2>2. returned'[s] = h
    BY <1>1, <1>2
  <2> QED BY <1>1, <1>2, <2>1, <2>2 DEF goodsOut, GoodsInv
<1>4. /\ goodsOut \subseteq Sale /\ IsFiniteSet(goodsOut)
      /\ \A t \in Sale : soldItems(sale)[t] = sale[t].items /\ sale[t].items \in Int
      /\ SumFunctionOnSet(soldItems(sale), goodsOut \ {s}) \in Int
  BY GoodsOutAreCounted DEF GoodsInv
<1>5. SumFunctionOnSet(soldItems(sale), goodsOut)
        = sale[s].items + SumFunctionOnSet(soldItems(sale), goodsOut \ {s})
  <2>1. \A t \in goodsOut : soldItems(sale)[t] \in Int
    BY <1>4
  <2> QED BY <1>3, <1>4, <2>1, SumWithout
<1>6. stock' \in Int
  BY <1>1, <1>4 DEF GoodsInv
<1>7. ASSUME local
      PROVE  stock' + SumFunctionOnSet(soldItems(sale'), goodsOut') = OpeningStock
  <2>1. stock + SumFunctionOnSet(soldItems(sale), goodsOut) = OpeningStock /\ stock \in Int
    BY <1>7 DEF GoodsInv
  <2>2. stock' + SumFunctionOnSet(soldItems(sale), goodsOut \ {s}) = OpeningStock
    BY <1>1, <1>4, <1>5, <1>7, <2>1
  <2> QED BY <1>1, <1>3, <2>2
<1> QED BY <1>1, <1>6, <1>7 DEF GoodsInv

LEMMA GoodsInvStep == StoreInv /\ GoodsInv /\ [StoreNext]_storeVars => GoodsInv'
<1> SUFFICES ASSUME StoreInv, GoodsInv, [StoreNext]_storeVars PROVE GoodsInv'
  OBVIOUS
<1>1. \A s \in issued : sale[s].status = "COMPLETED" /\ s \in Sale
  BY DEF GoodsInv
<1>2. CASE UNCHANGED <<sale, issued, returned, stock, local>>
  BY <1>1, <1>2, GoodsStay
<1>3. ASSUME NEW h \in Shift, CashStep(h) PROVE GoodsInv'
  BY <1>2, <1>3 DEF CashStep, OpenShift, RegisterCashMovement, CloseShift
<1>4. ASSUME NEW s \in Sale, SaleStep(s) PROVE GoodsInv'
  <2>1. ASSUME sale[s].status # "COMPLETED", UNCHANGED <<issued, returned, stock, local>>,
               NEW y, sale' = [sale EXCEPT ![s] = y]
        PROVE  GoodsInv'
    <3>1. \A t \in issued : sale'[t] = sale[t]
      BY <1>1, <2>1 DEF StoreInv, RecordsOK
    <3> QED BY <1>1, <2>1, <3>1, GoodsStay
  <2>2. CASE \E h \in Shift, k \in Key : StartSale(s, h, k)
    BY <2>1, <2>2 DEF StartSale
  <2>3. CASE \E h \in Shift : ReturnSale(s, h)
    BY <2>3, ReturnedGoodsComeBack
  <2>4. ASSUME NEW outcomes, Edited(s, outcomes), \A y \in outcomes : EditsDraft(sale[s], y)
        PROVE  GoodsInv'
    BY <2>1, <2>4 DEF Edited, EditsDraft
  <2>5. sale[s] \in SaleRecord
    BY DEF StoreInv, RecordsOK
  <2>6. CASE AddItemToSale(s) \/ RemoveItemFromSale(s) \/ ApplyDiscountToSale(s)
    BY <2>4, <2>5, <2>6, LinesEditDrafts
       DEF AddItemToSale, RemoveItemFromSale, ApplyDiscountToSale
  <2>7. CASE RegisterMixedPayment(s) \/ VoidSale(s)
    BY <2>4, <2>5, <2>7, PaymentsAndVoidsEditDrafts DEF RegisterMixedPayment, VoidSale
  <2>8. CASE CompleteSale(s)
    BY <2>8, CompletedGoodsLeave
  <2>9. CASE IssueSaleInvoice(s)
    BY <1>2, <2>9 DEF IssueSaleInvoice
  <2>10. CASE CoordinatorIssues(s)
    <3>1. /\ ~local /\ sale[s].status = "COMPLETED" /\ issued' = issued \cup {s}
          /\ UNCHANGED <<sale, stock, local>>
      BY <2>10 DEF CoordinatorIssues
    <3>2. issued' \subseteq Sale /\ IsFiniteSet(issued')
      BY <3>1, FS_AddElement DEF GoodsInv
    <3> QED BY <3>1, <3>2 DEF GoodsInv
  <2> QED BY <1>4, <2>2, <2>3, <2>6, <2>7, <2>8, <2>9, <2>10 DEF SaleStep
<1>5. CASE UNCHANGED storeVars
  BY <1>2, <1>5 DEF storeVars
<1> QED BY <1>3, <1>4, <1>5 DEF StoreNext

(* Where this node keeps the stock, every unit is in it or left with a     *)
(* completed sale that was not returned, for any number of sales.          *)
THEOREM StockStaysConserved == StoreSpec => []StockIsConserved
<1>1. StoreInit => GoodsInv
  <2> SUFFICES ASSUME StoreInit PROVE GoodsInv
    OBVIOUS
  <2>1. issued = {} /\ stock = OpeningStock /\ goodsOut = {}
    BY DEF StoreInit, goodsOut
  <2> QED BY <2>1, FS_EmptySet, SumOfNothing DEF GoodsInv
<1>2. StoreInv /\ GoodsInv => StockIsConserved
  <2> SUFFICES ASSUME StoreInv, GoodsInv, local
               PROVE  stock + SumFunction([s \in goodsOut |-> sale[s].items]) = OpeningStock
    BY DEF StockIsConserved, goodsOut
  <2> DEFINE g == [s \in goodsOut |-> sale[s].items]
  <2>1. IsFiniteSet(goodsOut) /\ \A s \in goodsOut : soldItems(sale)[s] = g[s]
    BY GoodsOutAreCounted DEF GoodsInv
  <2>2. DOMAIN g = goodsOut
    OBVIOUS
  <2> HIDE DEF g
  <2>3. SumFunction(g) = SumFunctionOnSet(soldItems(sale), goodsOut)
    BY <2>1, <2>2, SumOverDomain
  <2>4. stock + SumFunctionOnSet(soldItems(sale), goodsOut) = OpeningStock
    BY DEF GoodsInv
  <2> QED BY <2>3, <2>4 DEF g
<1>3. StoreInv /\ GoodsInv /\ [StoreNext]_storeVars => GoodsInv'
  BY GoodsInvStep
<1> QED BY <1>1, <1>2, <1>3, StoreInvariance, PTL DEF StoreSpec
-----------------------------------------------------------------------------
(* The money of the sales.  What a sale owes is settled by its one batch   *)
(* of payments, which nothing changes afterwards.                          *)

paidOff(x) == /\ methodsPaid(x) # {} => settled(x) = commercialTotal(x)
              /\ x.status = "COMPLETED" => methodsPaid(x) # {}
PaidInFull == \A s \in Sale : paidOff(sale[s])

(* What the shifts hold of a sale, and what they gave back for it.         *)
moneyOf(type, s) == SumFunction([r \in recorded(type, s) |-> r[2].amount])

SalesBringTheirTotal ==
  \A s \in Sale :
    /\ moneyOf("SALE_PAYMENT", s) =
         IF sale[s].status = "COMPLETED" THEN commercialTotal(sale[s]) ELSE 0
    /\ moneyOf("SALE_REFUND", s) =
         IF returned[s] # None THEN commercialTotal(sale[s]) ELSE 0

LEMMA EditsStayPaidOff ==
  ASSUME NEW x \in SaleRecord, paidOff(x), NEW y,
         y \in addItem(x) \cup removeItem(x) \cup applyDiscount(x)
                \cup registerPayments(x) \cup void(x)
  PROVE  paidOff(y)
<1>1. CASE y \in addItem(x) \cup removeItem(x) \cup applyDiscount(x)
  <2>1. EditsDraft(x, y)
    BY <1>1, LinesEditDrafts
  <2>2. methodsPaid(x) = {} /\ x.paid = y.paid
    BY <1>1 DEF addItem, removeItem, applyDiscount, assertEditable, SaleRecord
  <2>3. y.status # "COMPLETED"
    BY <2>1 DEF EditsDraft
  <2> QED BY <2>2, <2>3 DEF paidOff, methodsPaid
<1>2. CASE y \in registerPayments(x)
  <2>1. PICK batch \in [Method -> 0..commercialTotal(x)] : y = [x EXCEPT !.paid = batch]
    BY <1>2, Zenon DEF registerPayments
  <2>2. settled(y) = commercialTotal(x) /\ methodsPaid(y) # {}
    BY <1>2 DEF registerPayments
  <2>3. commercialTotal(y) = commercialTotal(x)
    BY <2>1 DEF commercialTotal, SaleRecord
  <2> QED BY <2>2, <2>3 DEF paidOff
<1>3. CASE y \in void(x)
  <2>1. y = [x EXCEPT !.status = "VOIDED"]
    BY <1>3 DEF void
  <2>2. /\ y.status = "VOIDED" /\ y.paid = x.paid
        /\ y.items = x.items /\ y.discounted = x.discounted
    BY <2>1 DEF SaleRecord
  <2> QED BY <2>2 DEF paidOff, methodsPaid, settled, commercialTotal
<1> QED BY <1>1, <1>2, <1>3

LEMMA PaidInFullStep == StoreInv /\ PaidInFull /\ [StoreNext]_storeVars => PaidInFull'
<1> SUFFICES ASSUME StoreInv, PaidInFull, [StoreNext]_storeVars PROVE PaidInFull'
  OBVIOUS
<1>1. CASE UNCHANGED sale
  BY <1>1 DEF PaidInFull, paidOff, methodsPaid, settled, commercialTotal
<1>2. ASSUME NEW s \in Sale, NEW y, sale' = [sale EXCEPT ![s] = y], paidOff(y)
      PROVE  PaidInFull'
  <2>1. sale'[s] = y /\ \A t \in Sale \ {s} : sale'[t] = sale[t]
    BY <1>2 DEF StoreInv, RecordsOK
  <2>2. \A t \in Sale : paidOff(sale'[t])
    BY <1>2, <2>1 DEF PaidInFull
  <2> QED BY <2>2 DEF PaidInFull, paidOff, methodsPaid, settled, commercialTotal
<1>3. ASSUME NEW h \in Shift, CashStep(h) PROVE PaidInFull'
  BY <1>1, <1>3 DEF CashStep, OpenShift, RegisterCashMovement, CloseShift
<1>4. ASSUME NEW s \in Sale, SaleStep(s) PROVE PaidInFull'
  <2>1. sale[s] \in SaleRecord /\ paidOff(sale[s])
    BY DEF StoreInv, RecordsOK, PaidInFull
  <2>2. ASSUME NEW outcomes, Edited(s, outcomes),
               outcomes \subseteq addItem(sale[s]) \cup removeItem(sale[s])
                 \cup applyDiscount(sale[s]) \cup registerPayments(sale[s]) \cup void(sale[s])
        PROVE  PaidInFull'
    <3>1. PICK y \in outcomes : sale' = [sale EXCEPT ![s] = y]
      BY <2>2 DEF Edited
    <3>2. paidOff(y)
      BY <2>1, <2>2, EditsStayPaidOff
    <3> QED BY <1>2, <3>1, <3>2
  <2>3. CASE AddItemToSale(s) \/ RemoveItemFromSale(s) \/ ApplyDiscountToSale(s)
    BY <2>2, <2>3 DEF AddItemToSale, RemoveItemFromSale, ApplyDiscountToSale
  <2>4. CASE RegisterMixedPayment(s) \/ VoidSale(s)
    BY <2>2, <2>4 DEF RegisterMixedPayment, VoidSale
  <2>5. CASE \E h \in Shift, k \in Key : StartSale(s, h, k)
    <3>1. PICK h \in Shift, k \in Key :
            sale' = [sale EXCEPT ![s] =
                       [noSale EXCEPT !.status = "DRAFT", !.shift = h, !.key = k]]
      BY <2>5 DEF StartSale
    <3> DEFINE y == [noSale EXCEPT !.status = "DRAFT", !.shift = h, !.key = k]
    <3>2. y.status = "DRAFT" /\ methodsPaid(y) = {}
      BY DEF noSale, methodsPaid
    <3>3. paidOff(y)
      BY <3>2 DEF paidOff
    <3> HIDE DEF y
    <3> QED BY <1>2, <3>1, <3>3 DEF y
  <2>6. CASE CompleteSale(s)
    <3> DEFINE y == [sale[s] EXCEPT !.status = "COMPLETED"]
    <3>1. sale' = [sale EXCEPT ![s] = y] /\ methodsPaid(sale[s]) # {}
      BY <2>6 DEF CompleteSale, complete
    <3>2. y.paid = sale[s].paid /\ y.items = sale[s].items /\ y.discounted = sale[s].discounted
      BY <2>1 DEF SaleRecord
    <3> HIDE DEF y
    <3>3. paidOff(y)
      BY <2>1, <3>1, <3>2 DEF paidOff, methodsPaid, settled, commercialTotal
    <3> QED BY <1>2, <3>1, <3>3
  <2>7. CASE (\E h \in Shift : ReturnSale(s, h)) \/ IssueSaleInvoice(s) \/ CoordinatorIssues(s)
    BY <1>1, <2>7 DEF ReturnSale, IssueSaleInvoice, CoordinatorIssues
  <2> QED BY <1>4, <2>3, <2>4, <2>5, <2>6, <2>7 DEF SaleStep
<1>5. CASE UNCHANGED storeVars
  BY <1>1, <1>5 DEF storeVars
<1> QED BY <1>3, <1>4, <1>5 DEF StoreNext

(* The methods of a batch that pay nothing add nothing; the others have    *)
(* one part each.                                                          *)
LEMMA PartsOfABatch ==
  ASSUME NEW x \in SaleRecord, NEW part, NEW f,
         \A m, n \in methodsPaid(x) : part[m] = part[n] => m = n,
         \A m \in methodsPaid(x) : f[part[m]] = x.paid[m]
  PROVE  SumFunctionOnSet(f, {part[m] : m \in methodsPaid(x)}) = settled(x)
<1> DEFINE P == methodsPaid(x)
           Q == Method \ P
           nil == {0}
<1>1. /\ P \subseteq Method /\ DOMAIN x.paid = Method
      /\ \A m \in Method : x.paid[m] \in Nat
      /\ \A m \in Q : x.paid[m] \in nil
  BY DEF methodsPaid, SaleRecord
<1>2. IsFiniteSet(P) /\ IsFiniteSet(Q) /\ IsFiniteSet(Method)
  BY <1>1, FS_Subset, StoreConstants
<1>3. P \cup Q = Method /\ P \cap Q = {}
  BY <1>1
<1>4. /\ \A m, n \in P : part[m] = part[n] => m = n
      /\ \A m \in P : x.paid[m] = f[part[m]] /\ f[part[m]] \in Int
  BY <1>1
<1>5. 0 \in nil /\ \A a, b \in nil : a + b \in nil
  OBVIOUS
<1>6. settled(x) = SumFunctionOnSet(x.paid, Method)
  BY <1>1 DEF settled, SumFunction
<1> HIDE DEF P, Q, nil
<1>7. SumFunctionOnSet(f, {part[m] : m \in P}) = SumFunctionOnSet(x.paid, P)
  BY <1>2, <1>4, SumOfImages
<1>8. SumFunctionOnSet(x.paid, Method)
        = SumFunctionOnSet(x.paid, P) + SumFunctionOnSet(x.paid, Q)
  <2>1. \A m \in P \cup Q : x.paid[m] \in Int
    BY <1>1, <1>3
  <2> QED BY <1>2, <1>3, <2>1, SumOfTwo
<1>9. SumFunctionOnSet(x.paid, Q) = 0
  <2>1. SumFunctionOnSet(x.paid, Q) \in nil
    BY <1>1, <1>2, <1>5, SumStaysIn
  <2> QED BY <2>1 DEF nil
<1>10. SumFunctionOnSet(x.paid, P) \in Int
  <2>1. \A m \in P : x.paid[m] \in Int
    BY <1>1
  <2> QED BY <1>2, <2>1, SumOfIntegers
<1> QED BY <1>6, <1>7, <1>8, <1>9, <1>10 DEF P

(* The movements of a sale are the parts of its batch, in one shift.       *)
LEMMA MoneyByParts ==
  ASSUME NEW x \in SaleRecord, NEW type, NEW s, NEW part,
         \A r \in recorded(type, s) : \E m \in methodsPaid(x) : r = part[m],
         \A m \in methodsPaid(x) : /\ part[m] \in recorded(type, s)
                                   /\ part[m][2].method = m
                                   /\ part[m][2].amount = x.paid[m]
  PROVE  moneyOf(type, s) = settled(x)
<1> DEFINE g == [r \in recorded(type, s) |-> r[2].amount]
<1>1. \A m, n \in methodsPaid(x) : part[m] = part[n] => m = n
  OBVIOUS
<1>2. recorded(type, s) = {part[m] : m \in methodsPaid(x)}
  OBVIOUS
<1>3. \A m \in methodsPaid(x) : g[part[m]] = x.paid[m]
  OBVIOUS
<1>4. DOMAIN g = {part[m] : m \in methodsPaid(x)}
  BY <1>2
<1>5. moneyOf(type, s) = SumFunction(g)
  BY DEF moneyOf
<1> HIDE DEF g
<1> QED BY <1>1, <1>3, <1>4, <1>5, PartsOfABatch DEF SumFunction

(* The drawers hold, of each completed sale, exactly its total - lines     *)
(* less discounts - and gave back exactly that for each return, however    *)
(* it was split between methods and whatever shift refunded it.            *)
THEOREM DrawersHoldTheTotals == StoreSpec => []SalesBringTheirTotal
<1>1. StoreInit => PaidInFull
  BY DEF StoreInit, PaidInFull, paidOff, noSale, methodsPaid
<1>2. StoreInv /\ PaidInFull /\ PaymentsAreInTheirShift => SalesBringTheirTotal
  <2> SUFFICES ASSUME StoreInv, PaidInFull, PaymentsAreInTheirShift, NEW s \in Sale
               PROVE  /\ moneyOf("SALE_PAYMENT", s) =
                           IF sale[s].status = "COMPLETED" THEN commercialTotal(sale[s]) ELSE 0
                      /\ moneyOf("SALE_REFUND", s) =
                           IF returned[s] # None THEN commercialTotal(sale[s]) ELSE 0
    BY DEF SalesBringTheirTotal
  <2> DEFINE x == sale[s]
             brought == recorded("SALE_PAYMENT", s)
             gave == recorded("SALE_REFUND", s)
             P == methodsPaid(x)
  <2>1. x \in SaleRecord /\ paidOff(x)
    BY DEF StoreInv, RecordsOK, PaidInFull
  <2>2. ASSUME NEW type, recorded(type, s) = {} PROVE moneyOf(type, s) = 0
    <3> DEFINE g == [r \in recorded(type, s) |-> r[2].amount]
    <3>1. DOMAIN g = {}
      BY <2>2
    <3> HIDE DEF g
    <3> QED BY <3>1, SumOfNothing DEF moneyOf, SumFunction, g
  <2>3. moneyOf("SALE_PAYMENT", s) =
          IF sale[s].status = "COMPLETED" THEN commercialTotal(sale[s]) ELSE 0
    <3>1. CASE x.status # "COMPLETED"
      BY <2>2, <3>1 DEF PaymentsAreInTheirShift
    <3>2. CASE x.status = "COMPLETED"
      <4> DEFINE part == [m \in P |-> <<x.shift, paymentOf(x, s, m)>>]
      <4>1. /\ \A r \in brought : \E m \in P : r = part[m]
            /\ \A m \in P : part[m] \in brought
        BY <3>2 DEF PaymentsAreInTheirShift, paymentOf
      <4>2. \A m \in P : part[m][2].method = m /\ part[m][2].amount = x.paid[m]
        BY DEF paymentOf
      <4> HIDE DEF part
      <4>3. moneyOf("SALE_PAYMENT", s) = settled(x)
        BY <2>1, <4>1, <4>2, MoneyByParts
      <4> QED BY <2>1, <3>2, <4>3 DEF paidOff
    <3> QED BY <3>1, <3>2
  <2>4. moneyOf("SALE_REFUND", s) =
          IF returned[s] # None THEN commercialTotal(sale[s]) ELSE 0
    <3>1. CASE returned[s] = None
      <4>1. gave = {}
        BY <3>1 DEF StoreInv, RefundsInPlace, recorded, inShifts
      <4> QED BY <2>2, <3>1, <4>1
    <3>2. CASE returned[s] # None
      <4> DEFINE part == [m \in P |-> <<returned[s], refundOf(x, s, m)>>]
      <4>1. x.status = "COMPLETED" /\ returned[s] \in Shift
        BY <3>2 DEF StoreInv, RefundsInPlace, RecordsOK
      <4>2. \A r \in gave : \E m \in P : r = part[m]
        BY DEF StoreInv, RefundsInPlace, recorded, inShifts
      <4>3. ASSUME NEW m \in P PROVE part[m] \in gave
        <5>1. refundOf(x, s, m) \in shift[returned[s]].movements
          BY <3>2 DEF StoreInv, RefundsInPlace
        <5>2. refundOf(x, s, m).type = "SALE_REFUND" /\ refundOf(x, s, m).origin = s
          BY DEF refundOf
        <5> QED BY <4>1, <5>1, <5>2 DEF recorded, inShifts
      <4>4. \A m \in P : part[m][2].method = m /\ part[m][2].amount = x.paid[m]
        BY DEF refundOf
      <4> HIDE DEF part
      <4>5. moneyOf("SALE_REFUND", s) = settled(x)
        BY <2>1, <4>2, <4>3, <4>4, MoneyByParts
      <4> QED BY <2>1, <3>2, <4>1, <4>5 DEF paidOff
    <3> QED BY <3>1, <3>2
  <2> QED BY <2>3, <2>4
<1> QED BY <1>1, <1>2, PaidInFullStep, StoreInvariance, PaymentsReachTheirShift, PTL DEF StoreSpec

-----------------------------------------------------------------------------
(* What is kept is only added to.                                          *)

MoneyIsKept ==
  /\ \A h \in Shift : /\ shift[h].movements \subseteq shift'[h].movements
                      /\ shift[h].status = "CLOSED" => shift'[h] = shift[h]
  /\ \A s \in Sale : /\ sale[s].status \in {"COMPLETED", "VOIDED"} => sale'[s] = sale[s]
                     /\ returned[s] # None => returned'[s] = returned[s]

LEMMA DrawersAreKept ==
  ASSUME StoreInv, NEW h \in Shift, NEW N, shift[h].status = "OPEN", shift' = with(h, N)
  PROVE  \A g \in Shift : /\ shift[g].movements \subseteq shift'[g].movements
                          /\ shift[g].status = "CLOSED" => shift'[g] = shift[g]
<1>1. shift \in [Shift -> ShiftRecord]
  BY DEF StoreInv, RecordsOK
<1>2. /\ shift'[h].movements = shift[h].movements \cup N
      /\ \A g \in Shift \ {h} : shift'[g] = shift[g]
  BY <1>1 DEF with, ShiftRecord
<1> QED BY <1>2

(* No step takes a movement out of a drawer or changes one, reopens or     *)
(* corrects a closed shift, or touches a sale once it is completed or      *)
(* voided; a return is for good.                                           *)
THEOREM MoneyIsNeverRewritten == StoreSpec => [][MoneyIsKept]_storeVars
<1>1. StoreInv /\ [StoreNext]_storeVars => MoneyIsKept
  <2> SUFFICES ASSUME StoreInv, [StoreNext]_storeVars PROVE MoneyIsKept
    OBVIOUS
  <2>1. /\ shift \in [Shift -> ShiftRecord] /\ sale \in [Sale -> SaleRecord]
        /\ returned \in [Sale -> Shift \cup {None}]
    BY DEF StoreInv, RecordsOK
  <2>2. CASE UNCHANGED <<sale, shift, returned>>
    BY <2>2 DEF MoneyIsKept
  <2>3. ASSUME NEW s \in Sale, sale[s].status \in {"ABSENT", "DRAFT"}, NEW y,
               sale' = [sale EXCEPT ![s] = y]
        PROVE  \A t \in Sale :
                 sale[t].status \in {"COMPLETED", "VOIDED"} => sale'[t] = sale[t]
    BY <2>1, <2>3
  <2>4. ASSUME NEW h \in Shift, CashStep(h) PROVE MoneyIsKept
    <3>1. UNCHANGED <<sale, returned>>
      BY <2>4 DEF CashStep, OpenShift, RegisterCashMovement, CloseShift
    <3>2. CASE \E k \in Key : OpenShift(h, k)
      <4>1. PICK y : shift' = [shift EXCEPT ![h] = y]
        BY <3>2 DEF OpenShift
      <4>2. shift[h].status = "ABSENT" /\ shift[h].movements = {}
        BY <3>2 DEF OpenShift, StoreInv, RecordsOK
      <4> QED BY <2>1, <3>1, <4>1, <4>2 DEF MoneyIsKept
    <3>3. CASE \E k \in Key : RegisterCashMovement(h, k)
      <4>1. shift[h].status = "OPEN" /\ \E N : shift' = with(h, N)
        BY <3>3 DEF RegisterCashMovement, accepts, isOpen
      <4> QED BY <3>1, <4>1, DrawersAreKept DEF MoneyIsKept
    <3>4. CASE CloseShift(h)
      <4>1. shift[h].status = "OPEN"
        BY <3>4 DEF CloseShift, isOpen
      <4>2. /\ shift'[h].movements = shift[h].movements
            /\ \A g \in Shift \ {h} : shift'[g] = shift[g]
        BY <2>1, <3>4 DEF CloseShift, ShiftRecord
      <4> QED BY <3>1, <4>1, <4>2 DEF MoneyIsKept
    <3> QED BY <2>4, <3>2, <3>3, <3>4 DEF CashStep
  <2>5. ASSUME NEW s \in Sale, SaleStep(s) PROVE MoneyIsKept
    <3>1. ASSUME NEW outcomes, Edited(s, outcomes), \A y \in outcomes : EditsDraft(sale[s], y)
          PROVE  MoneyIsKept
      <4>1. PICK y \in outcomes : sale' = [sale EXCEPT ![s] = y]
        BY <3>1 DEF Edited
      <4>2. sale[s].status = "DRAFT" /\ UNCHANGED <<shift, returned>>
        BY <3>1, <4>1 DEF Edited, EditsDraft
      <4> QED BY <2>3, <4>1, <4>2 DEF MoneyIsKept
    <3>2. CASE AddItemToSale(s) \/ RemoveItemFromSale(s) \/ ApplyDiscountToSale(s)
      BY <2>1, <3>1, <3>2, LinesEditDrafts
         DEF AddItemToSale, RemoveItemFromSale, ApplyDiscountToSale
    <3>3. CASE RegisterMixedPayment(s) \/ VoidSale(s)
      BY <2>1, <3>1, <3>3, PaymentsAndVoidsEditDrafts DEF RegisterMixedPayment, VoidSale
    <3>4. CASE \E h \in Shift, k \in Key : StartSale(s, h, k)
      <4>1. sale[s].status = "ABSENT" /\ UNCHANGED <<shift, returned>>
        BY <3>4 DEF StartSale
      <4>2. \E y : sale' = [sale EXCEPT ![s] = y]
        BY <3>4 DEF StartSale
      <4> QED BY <2>3, <4>1, <4>2 DEF MoneyIsKept
    <3>5. CASE CompleteSale(s)
      <4> DEFINE h == sale[s].shift
      <4>1. /\ sale[s].status = "DRAFT" /\ h \in Shift
            /\ shift' = with(h, payments(s, h)) /\ UNCHANGED returned
            /\ \A v \in payments(s, h) : accepts(h, v)
        BY <3>5 DEF CompleteSale, complete, StoreInv, RecordsOK
      <4>2. \E y : sale' = [sale EXCEPT ![s] = y]
        BY <3>5 DEF CompleteSale
      <4> HIDE DEF h
      <4>3. CASE payments(s, h) = {}
        <5>1. \A g \in Shift : shift'[g] = shift[g]
          BY <2>1, <4>1, <4>3 DEF with, ShiftRecord
        <5> QED BY <2>3, <4>1, <4>2, <5>1 DEF MoneyIsKept
      <4>4. CASE payments(s, h) # {}
        <5>1. shift[h].status = "OPEN"
          BY <4>1, <4>4 DEF accepts, isOpen
        <5> QED BY <2>3, <4>1, <4>2, <5>1, DrawersAreKept DEF MoneyIsKept
      <4> QED BY <4>3, <4>4
    <3>6. ASSUME NEW h \in Shift, ReturnSale(s, h) PROVE MoneyIsKept
      <4>1. shift[h].status = "OPEN" /\ (\E N : shift' = with(h, N)) /\ UNCHANGED sale
        BY <3>6 DEF ReturnSale, isOpen
      <4>2. returned[s] = None /\ returned' = [returned EXCEPT ![s] = h]
        BY <3>6 DEF ReturnSale, returnable
      <4>3. \A t \in Sale : returned[t] # None => returned'[t] = returned[t]
        BY <2>1, <4>2
      <4> QED BY <4>1, <4>3, DrawersAreKept DEF MoneyIsKept
    <3>7. CASE IssueSaleInvoice(s) \/ CoordinatorIssues(s)
      BY <2>2, <3>7 DEF IssueSaleInvoice, CoordinatorIssues
    <3> QED BY <2>5, <3>2, <3>3, <3>4, <3>5, <3>6, <3>7 DEF SaleStep
  <2>6. CASE UNCHANGED storeVars
    BY <2>2, <2>6 DEF storeVars
  <2> QED BY <2>4, <2>5, <2>6 DEF StoreNext
<1> QED BY <1>1, StoreInvariance, PTL DEF StoreSpec
===========================================================================
