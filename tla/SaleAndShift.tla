--------------------------- MODULE SaleAndShift ---------------------------
(***************************************************************************)
(* The sales of one register and the shifts that keep their money          *)
(* (core/.../sales, core/.../cash, core/.../idempotency and their SQLite   *)
(* repositories).  A command is one transaction: it loads its aggregates,  *)
(* applies the rules of the domain and stores everything, or nothing.  A   *)
(* client may send a command again, at any later time, with its key or     *)
(* with a new one.                                                         *)
(***************************************************************************)
EXTENDS Integers, FiniteSets, Functions

CONSTANTS
  Sale, Shift,    \* identifiers the generators may give
  Key,            \* idempotency keys of the clients
  Method,         \* payment methods
  CashMethod,     \* the methods of kind CASH
  Price,          \* price of a line before its discount
  MaxItems,       \* bound: lines of a sale
  MaxAmount,      \* bound: a fund, an income or a withdrawal
  MaxMovements,   \* bound: manual movements of the register
  OpeningStock,   \* units of the product in stock
  None

ASSUME StoreConstants ==
  /\ IsFiniteSet(Method) /\ CashMethod \subseteq Method
  /\ Price \in Nat \ {0} /\ MaxItems \in Nat /\ MaxAmount \in Nat
  /\ MaxMovements \in Nat /\ OpeningStock \in Nat
  /\ None \notin Sale \cup Shift \cup Key

VARIABLES
  sale,           \* each sale: status, its shift, its lines and its payments
  shift,          \* each shift: status, cash movements, balances at its close
  answered,       \* <<operation, key>> whose answer is stored
  invoiced,       \* sales whose fiscal document is ISSUED
  issued,         \* sales whose goods have left the stock
  returned,       \* the shift that refunded each sale
  stock,          \* units in stock
  local           \* whether this node keeps the stock itself

storeVars == <<sale, shift, answered, invoiced, issued, returned, stock, local>>

Origin == Sale \cup Key \cup {None}
Movement ==
  [type : {"OPENING_FLOAT", "INCOME", "WITHDRAWAL", "SALE_PAYMENT", "SALE_REFUND"},
   origin : Origin, nth : Nat, method : Method, amount : Nat]

noSale == [status |-> "ABSENT", shift |-> None, key |-> None, items |-> 0,
           discounted |-> 0, paid |-> [m \in Method |-> 0]]
noShift == [status |-> "ABSENT", key |-> None, movements |-> {},
            closing |-> [m \in Method |-> 0]]

StoreTypeOK ==
  /\ sale \in [Sale -> [status : {"ABSENT", "DRAFT", "COMPLETED", "VOIDED"},
                        shift : Shift \cup {None}, key : Key \cup {None}, items : Nat,
                        discounted : Nat, paid : [Method -> Nat]]]
  /\ shift \in [Shift -> [status : {"ABSENT", "OPEN", "CLOSED"}, key : Key \cup {None},
                          movements : SUBSET Movement, closing : [Method -> Int]]]
  /\ answered \subseteq {"OpenShift", "StartSale", "RegisterCashMovement"} \X Key
  /\ invoiced \subseteq Sale
  /\ issued \subseteq Sale
  /\ returned \in [Sale -> Shift \cup {None}]
  /\ stock \in Int
  /\ local \in BOOLEAN

StoreInit ==
  /\ sale = [s \in Sale |-> noSale]
  /\ shift = [h \in Shift |-> noShift]
  /\ answered = {}
  /\ invoiced = {}
  /\ issued = {}
  /\ returned = [s \in Sale |-> None]
  /\ stock = OpeningStock
  /\ local \in BOOLEAN

-----------------------------------------------------------------------------
(* Idempotency: a stored answer is the whole command; a first success      *)
(* stores it.  An expired row is no longer found, but its primary key      *)
(* still refuses the insertion and the transaction goes back.              *)

executeAgain(operation, k) == answered' = answered \cup {<<operation, k>>}
executeIdempotentCommand(operation, k) ==
  /\ <<operation, k>> \notin answered
  /\ answered' = answered \cup {<<operation, k>>}

-----------------------------------------------------------------------------
(* The aggregates.                                                         *)

signed(v) == IF v.type \in {"WITHDRAWAL", "SALE_REFUND"} THEN -v.amount ELSE v.amount
balanceFor(movements, m) ==
  SumFunction([v \in {w \in movements : w.method = m} |-> signed(v)])
expectedBalances(h) == [m \in Method |-> balanceFor(shift[h].movements, m)]

isOpen(h) == shift[h].status = "OPEN"
openShifts == {h \in Shift : isOpen(h)}

movement(h, type, origin, m, amount) ==
  [type |-> type, origin |-> origin, method |-> m, amount |-> amount,
   nth |-> 1 + Cardinality({v \in shift[h].movements :
                              v.type = type /\ v.origin = origin /\ v.method = m})]

(* `registerMovement`: a withdrawal must be covered by the balance.        *)
acceptsLate(h, v) ==
  v.type = "WITHDRAWAL" => v.amount <= balanceFor(shift[h].movements, v.method)
acceptsUncovered(h, v) == isOpen(h)
accepts(h, v) ==
  /\ isOpen(h)
  /\ v.type = "WITHDRAWAL" => v.amount <= balanceFor(shift[h].movements, v.method)
with(h, movements) == [shift EXCEPT ![h].movements = @ \cup movements]

commercialTotal(x) == Price * x.items - x.discounted
methodsPaid(x) == {m \in Method : x.paid[m] > 0}
settled(x) == SumFunction(x.paid)
assertEditable(x) == x.status = "DRAFT" /\ methodsPaid(x) = {}

(* What each operation makes of a sale: nothing when it is refused.        *)
addItem(x) ==
  {y \in {[x EXCEPT !.items = @ + 1]} : assertEditable(x) /\ y.items <= MaxItems}

(* A line goes with its discount; a discount of one unit on one line.      *)
removeAnyItem(x) == {y \in {[x EXCEPT !.items = @ - 1]} : assertEditable(x)}
removeItem(x) ==
  {y \in {[x EXCEPT !.items = @ - 1, !.discounted = @ - d] : d \in {0, 1}} :
     /\ assertEditable(x)
     /\ x.items > 0
     /\ y.discounted \in 0..y.items}

applyDiscount(x) ==
  {y \in {[x EXCEPT !.discounted = @ + 1]} : assertEditable(x) /\ y.discounted <= x.items}

(* One batch that pays the total exactly, and closes the sale to changes.  *)
registerPayments(x) ==
  {y \in {[x EXCEPT !.paid = batch] : batch \in [Method -> 0..commercialTotal(x)]} :
     /\ assertEditable(x)
     /\ x.items > 0
     /\ methodsPaid(y) # {}
     /\ settled(y) = commercialTotal(x)}

completeAgain(x) ==
  {y \in {[x EXCEPT !.status = "COMPLETED"]} : x.items > 0 /\ methodsPaid(x) # {}}
complete(x) ==
  {y \in {[x EXCEPT !.status = "COMPLETED"]} :
     x.status = "DRAFT" /\ x.items > 0 /\ methodsPaid(x) # {}}

voidAny(x) == {y \in {[x EXCEPT !.status = "VOIDED"]} : x.status # "ABSENT"}
void(x) == {y \in {[x EXCEPT !.status = "VOIDED"]} : x.status = "DRAFT"}

drafts(h) == {s \in Sale : sale[s].shift = h /\ sale[s].status = "DRAFT"}
inShifts == Shift \X UNION {shift[h].movements : h \in Shift}
manual == {r \in inShifts :
             r[2] \in shift[r[1]].movements /\ r[2].type \in {"INCOME", "WITHDRAWAL"}}

-----------------------------------------------------------------------------
(* Cash.                                                                   *)

OpenShift(h, k) ==
  /\ shift[h].status = "ABSENT"
  /\ openShifts = {}
  /\ executeIdempotentCommand("OpenShift", k)
  /\ \E fund \in [CashMethod -> 0..MaxAmount] :
       shift' = [shift EXCEPT ![h] = [noShift EXCEPT !.status = "OPEN", !.key = k,
                   !.movements = {movement(h, "OPENING_FLOAT", None, m, fund[m]) :
                                    m \in {c \in CashMethod : fund[c] > 0}}]]
  /\ UNCHANGED <<sale, invoiced, issued, returned, stock, local>>

RegisterCashMovement(h, k) ==
  /\ Cardinality(manual) < MaxMovements
  /\ \E type \in {"INCOME", "WITHDRAWAL"}, m \in CashMethod, amount \in 1..MaxAmount :
       LET v == movement(h, type, k, m, amount) IN
       /\ accepts(h, v)
       /\ shift' = with(h, {v})
  /\ executeIdempotentCommand("RegisterCashMovement", k)
  /\ UNCHANGED <<sale, invoiced, issued, returned, stock, local>>

(* The differences between what is declared and what is expected ask for   *)
(* one more permission and a reason, and change nothing else.              *)
CloseShift(h) ==
  /\ isOpen(h)
  /\ drafts(h) = {}
  /\ shift' = [shift EXCEPT ![h].status = "CLOSED", ![h].closing = expectedBalances(h)]
  /\ UNCHANGED <<sale, answered, invoiced, issued, returned, stock, local>>

-----------------------------------------------------------------------------
(* A sale until it is completed or voided.                                 *)

StartSale(s, h, k) ==
  /\ sale[s].status = "ABSENT"
  /\ isOpen(h)
  /\ executeIdempotentCommand("StartSale", k)
  /\ sale' = [sale EXCEPT ![s] = [noSale EXCEPT !.status = "DRAFT", !.shift = h, !.key = k]]
  /\ UNCHANGED <<shift, invoiced, issued, returned, stock, local>>

Edited(s, outcomes) ==
  /\ \E edited \in outcomes : sale' = [sale EXCEPT ![s] = edited]
  /\ UNCHANGED <<shift, answered, invoiced, issued, returned, stock, local>>

AddItemToSale(s) == Edited(s, addItem(sale[s]))
RemoveItemFromSale(s) == Edited(s, removeItem(sale[s]))
ApplyDiscountToSale(s) == Edited(s, applyDiscount(sale[s]))
RegisterMixedPayment(s) == Edited(s, registerPayments(sale[s]))
VoidSale(s) == Edited(s, void(sale[s]))

-----------------------------------------------------------------------------
(* Completing and returning.                                               *)

(* `ApplySaleCompletedToShift`: one movement per payment, in the shift of  *)
(* the sale; an identifier it already holds is not registered again.       *)
payments(s, h) ==
  {movement(h, "SALE_PAYMENT", s, m, sale[s].paid[m]) :
     m \in {p \in methodsPaid(sale[s]) :
              ~ \E v \in shift[h].movements :
                  v.type = "SALE_PAYMENT" /\ v.origin = s /\ v.method = p}}

(* The goods leave in the same transaction when this node keeps the stock  *)
(* and has them; if it does not have them the sale stands without its      *)
(* issue, and an audit entry says so.                                      *)
issueSoldStock(s) ==
  IF local /\ sale[s].items <= stock
  THEN issued' = issued \cup {s} /\ stock' = stock - sale[s].items
  ELSE UNCHANGED <<issued, stock>>

CompleteSale(s) ==
  LET h == sale[s].shift IN
  /\ \A v \in payments(s, h) : accepts(h, v)
  /\ \E completed \in complete(sale[s]) : sale' = [sale EXCEPT ![s] = completed]
  /\ shift' = with(h, payments(s, h))
  /\ issueSoldStock(s)
  /\ UNCHANGED <<answered, invoiced, returned, local>>

returnableAgain(s) == sale[s].status = "COMPLETED" /\ Cardinality(methodsPaid(sale[s])) = 1
returnable(s) ==
  /\ sale[s].status = "COMPLETED"
  /\ Cardinality(methodsPaid(sale[s])) = 1
  /\ returned[s] = None

(* What comes back is exactly what left: the issue of this node, or the    *)
(* one the coordinator says it applied.                                    *)
restorable(s) == s \in issued

(* The shift that refunds is the one now open at the register of the       *)
(* sale, and it may be left owing money.  The stock of the store is the    *)
(* coordinator's when there is one.                                        *)
ReturnSale(s, h) ==
  /\ returnable(s)
  /\ s \in invoiced
  /\ isOpen(h)
  /\ restorable(s)
  /\ returned' = [returned EXCEPT ![s] = h]
  /\ shift' = with(h, {movement(h, "SALE_REFUND", s, m, sale[s].paid[m]) :
                         m \in methodsPaid(sale[s])})
  /\ stock' = IF local THEN stock + sale[s].items ELSE stock
  /\ UNCHANGED <<sale, answered, invoiced, issued, local>>

(* The fiscal document of a completed sale is issued, in its own time; the *)
(* coordinator applies the sale and answers that its goods left.           *)
IssueSaleInvoice(s) ==
  /\ sale[s].status = "COMPLETED"
  /\ invoiced' = invoiced \cup {s}
  /\ UNCHANGED <<sale, shift, answered, issued, returned, stock, local>>

CoordinatorIssues(s) ==
  /\ ~local
  /\ sale[s].status = "COMPLETED"
  /\ issued' = issued \cup {s}
  /\ UNCHANGED <<sale, shift, answered, invoiced, returned, stock, local>>

-----------------------------------------------------------------------------
CashStep(h) ==
  \/ \E k \in Key : OpenShift(h, k) \/ RegisterCashMovement(h, k)
  \/ CloseShift(h)

SaleStep(s) ==
  \/ \E h \in Shift, k \in Key : StartSale(s, h, k)
  \/ \E h \in Shift : ReturnSale(s, h)
  \/ AddItemToSale(s) \/ RemoveItemFromSale(s) \/ ApplyDiscountToSale(s)
  \/ RegisterMixedPayment(s) \/ VoidSale(s)
  \/ CompleteSale(s) \/ IssueSaleInvoice(s) \/ CoordinatorIssues(s)

StoreNext == \/ \E h \in Shift : CashStep(h)
             \/ \E s \in Sale : SaleStep(s)

StoreSpec == StoreInit /\ [][StoreNext]_storeVars

-----------------------------------------------------------------------------
(* Properties.                                                             *)

recorded(type, s) ==
  {r \in inShifts : /\ r[2] \in shift[r[1]].movements
                    /\ r[2].type = type /\ r[2].origin = s}

(* The drawer holds the payments of a sale exactly once, in the shift of   *)
(* the sale, from the moment it is completed and not before, although the  *)
(* payments were taken earlier and the shift may have been closing         *)
(* (CompleteSale with ApplySaleCompletedToShift).                          *)
PaymentsAreInTheirShift ==
  \A s \in Sale :
    recorded("SALE_PAYMENT", s) =
      IF sale[s].status # "COMPLETED" THEN {}
      ELSE {<<sale[s].shift, [type |-> "SALE_PAYMENT", origin |-> s, nth |-> 1, method |-> m,
                              amount |-> sale[s].paid[m]]>> : m \in methodsPaid(sale[s])}

(* A closed shift leaves no sale waiting for its payment, and what its     *)
(* close counted is still what its movements say: no sale, refund, retry   *)
(* or movement reaches it afterwards (CloseShift, registerMovement).       *)
ClosedShiftsBalance ==
  \A h \in Shift : shift[h].status = "CLOSED" =>
    drafts(h) = {} /\ shift[h].closing = expectedBalances(h)

(* Each return gave back once, and completely, what its sale had brought   *)
(* in, from the shift it names, and no money left as a refund otherwise    *)
(* (ReturnSale, also when it is sent again with another key).              *)
RefundsMatchReturns ==
  \A s \in Sale :
    {<<r[1], r[2].method, r[2].amount, r[2].nth>> : r \in recorded("SALE_REFUND", s)} =
      IF returned[s] = None THEN {}
      ELSE {<<returned[s], r[2].method, r[2].amount, 1>> : r \in recorded("SALE_PAYMENT", s)}

(* A shift owes money only because of refunds: without them no method      *)
(* would be below zero, whatever was withdrawn between sales.              *)
OverdrawnOnlyByRefunds ==
  \A h \in Shift, m \in Method :
    balanceFor({v \in shift[h].movements : v.type # "SALE_REFUND"}, m) >= 0

(* A command that creates something creates it at most once per key,       *)
(* however late its repetition comes (executeIdempotentCommand).           *)
OneEffectPerKey ==
  /\ \A h, g \in Shift : shift[h].key # None /\ shift[h].key = shift[g].key => h = g
  /\ \A s, t \in Sale : sale[s].key # None /\ sale[s].key = sale[t].key => s = t
  /\ \A r, q \in manual : r[2].origin = q[2].origin => r = q

(* The goods are in the stock, or left with a completed sale that was not  *)
(* returned.                                                               *)
StockIsConserved ==
  local => stock + SumFunction([s \in {t \in issued : returned[t] = None} |-> sale[s].items])
             = OpeningStock
===========================================================================
