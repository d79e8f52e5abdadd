------------------------- MODULE CatalogReferences -------------------------
(***************************************************************************)
(* The masters of the coordinator and the references that a terminal holds *)
(* of them (core/.../catalog, core/.../config, core/.../currency and the   *)
(* catalogue projection).  Each command changes one row under a version    *)
(* and publishes it in the same transaction; the initial cut publishes     *)
(* them all again.  A terminal applies publications in any order that      *)
(* their dependencies and the barcodes it holds allow.                     *)
(***************************************************************************)
EXTENDS Naturals

CONSTANTS
  Category, Unit, \* masters of the products
  Method,         \* payment methods
  Policy,         \* types of operational policy
  Pair,           \* pairs of currencies that have a rate
  Product, Barcode,
  Price,          \* prices and rates
  Setting,        \* values of a policy
  MaxChanges,     \* bound: commands of the coordinator
  None            \* what an absent row contains

ASSUME ReferenceConstants ==
  /\ MaxChanges \in Nat
  /\ Product \cap (Category \cup Unit \cup Method \cup Policy \cup Pair) = {}
  /\ (Policy \cup Pair) \cap (Category \cup Unit \cup Method) = {}
  /\ Policy \cap Pair = {} /\ Method \cap (Category \cup Unit) = {}

VARIABLES
  row,            \* the rows of the coordinator, each with its version
  published,      \* every reference ever published
  sent,           \* publications that the terminal has not applied yet
  held,           \* the rows of the terminal
  changes         \* commands so far

referenceVars == <<row, published, sent, held, changes>>

Master == Category \cup Unit \cup Method
Reference == Master \cup Policy \cup Pair \cup Product

MasterContent == [active : BOOLEAN]
SettingContent == [value : Setting]
RateContent == [value : Price]
ProductContent == [active : BOOLEAN, category : Category, unit : Unit,
                   barcode : Barcode \cup {None}, price : Price]
ContentOf(id) == IF id \in Master THEN MasterContent
                 ELSE IF id \in Product THEN ProductContent
                 ELSE IF id \in Pair THEN RateContent ELSE SettingContent

absent == [version |-> 0, content |-> None]
RowOf(id) == [version : Nat \ {0}, content : ContentOf(id)] \cup {absent}
isPublication(p) ==
  p.id \in Reference /\ p \in [id : {p.id}, version : Nat \ {0}, content : ContentOf(p.id)]
publication(id, r) == [id |-> id, version |-> r.version, content |-> r.content]

ReferencesTypeOK ==
  /\ DOMAIN row = Reference /\ DOMAIN held = Reference
  /\ \A id \in Reference : row[id] \in RowOf(id) /\ held[id] \in RowOf(id)
  /\ \A p \in published : isPublication(p)
  /\ sent \subseteq published
  /\ changes \in 0..MaxChanges

(* A node may begin with what `bootstrap-operations` leaves (methods and   *)
(* policies) and with the catalogue of `seed-products`; neither publishes. *)
first(content) == [version |-> 1, content |-> content]
masterSeed == first([active |-> TRUE])
productSeeds == {first(c) : c \in {x \in ProductContent : x.active /\ x.barcode # None}}

ReferencesInit ==
  /\ \E operations \in {masterSeed, absent}, setting \in Setting,
        catalogue \in {masterSeed, absent}, products \in [Product -> productSeeds \cup {absent}] :
       /\ \A p, q \in Product : p # q /\ products[p] # absent /\ products[q] # absent =>
            products[p].content.barcode # products[q].content.barcode
       /\ row = [id \in Reference |->
            IF id \in Pair THEN absent
            ELSE IF id \in Method THEN operations
            ELSE IF id \in Policy
                 THEN IF operations = absent THEN absent ELSE first([value |-> setting])
            ELSE IF id \in Product THEN IF catalogue = absent THEN absent ELSE products[id]
            ELSE catalogue]
  /\ published = {}
  /\ sent = {}
  /\ held = [id \in Reference |-> absent]
  /\ changes = 0

-----------------------------------------------------------------------------
(* The coordinator.                                                        *)

exists(id) == row[id].version > 0
active(id) == exists(id) /\ row[id].content.active
MayChange == changes < MaxChanges /\ changes' = changes + 1

Published(references) ==
  /\ published' = published \cup references
  /\ sent' = sent \cup references
  /\ UNCHANGED held

(* A change advances the version of its row and is published with it.      *)
Save(id, content) ==
  LET saved == [version |-> row[id].version + 1, content |-> content] IN
  /\ MayChange
  /\ row' = [row EXCEPT ![id] = saved]
  /\ Published({publication(id, saved)})

(* A category or a unit that an active product uses stays active.          *)
isCategoryInUse(c) == \E p \in Product : active(p) /\ row[p].content.category = c
isUnitInUse(u) == \E p \in Product : active(p) /\ row[p].content.unit = u

SaveCategory(c) ==
  \E content \in MasterContent :
    /\ active(c) /\ isCategoryInUse(c) => content.active
    /\ Save(c, content)

SaveUnit(u) ==
  \E content \in MasterContent :
    /\ active(u) /\ isUnitInUse(u) => content.active
    /\ Save(u, content)

(* A method in use by an open sale or shift is not deactivated; those are  *)
(* not here, so that it always may be.                                     *)
SavePaymentMethod(m) == \E content \in MasterContent : Save(m, content)

(* The same configuration again makes no new version.                      *)
ActivatePolicy(q) ==
  \E content \in SettingContent :
    /\ row[q].content # content
    /\ Save(q, content)

UpdateExchangeRate(r) == \E content \in RateContent : Save(r, content)

(* A barcode is of one product, active or not.                             *)
\* Mutant: the barcodes of a product out of sale are free.
activeConflict(p, barcode) ==
  \E q \in Product \ {p} : active(q) /\ barcode # None /\ row[q].content.barcode = barcode

barcodeConflict(p, barcode) ==
  \E q \in Product \ {p} : exists(q) /\ barcode # None /\ row[q].content.barcode = barcode

CreateProduct(p) ==
  \E content \in ProductContent :
    /\ ~exists(p)
    /\ content.active
    /\ active(content.category) /\ active(content.unit)
    /\ ~barcodeConflict(p, content.barcode)
    /\ Save(p, content)

(* What is not given stays, also a category that is no longer active.      *)
UpdateProduct(p) ==
  \E content \in ProductContent :
    /\ exists(p)
    /\ content.category = row[p].content.category \/ active(content.category)
    /\ content.unit = row[p].content.unit \/ active(content.unit)
    /\ ~barcodeConflict(p, content.barcode)
    /\ content.price = row[p].content.price
    /\ Save(p, content)

\* Mutant: the price alone is published, as `PriceChanged` did.
priceOnly(p) ==
  \E price \in Price : exists(p) /\ Save(p, [price |-> price])

UpdatePrice(p) ==
  \E price \in Price :
    /\ exists(p)
    /\ Save(p, [row[p].content EXCEPT !.price = price])

(* The initial cut: every row as it is, and of the rates, which are a      *)
(* history, those whose validity is not over.                              *)
cut == {publication(id, row[id]) : id \in {i \in Reference \ Pair : exists(i)}}
PublishCatalogBootstrap ==
  /\ MayChange
  /\ \E valid \in SUBSET {p \in published : p.id \in Pair} : Published(cut \cup valid)
  /\ UNCHANGED row

-----------------------------------------------------------------------------
(* The terminal.                                                           *)

(* The dependencies of the contract.  A product waits for its masters to   *)
(* be applied; work of theirs that still waits (as in SyncInbox) delays it *)
(* more, and never for ever, since nothing holds a master back.            *)
dependencies(p) == IF p.id \in Product THEN {p.content.category, p.content.unit} ELSE {}
isDependencyApplied(m) == held[m].version > 0

newer(p) == p.version > held[p.id].version

(* The unique index of active barcodes refuses the whole transaction, and  *)
(* the work is tried again later.                                          *)
barcodesTaken(p) ==
  p.id \in Product /\ \E q \in Product \ {p.id} :
    /\ held[q].version > 0 /\ p.content.barcode # None
    /\ held[q].content.barcode = p.content.barcode

(* A publication that is not newer is consumed without effect.             *)
Apply(p) ==
  /\ \A m \in dependencies(p) : isDependencyApplied(m)
  /\ newer(p) => ~barcodesTaken(p)
  /\ held' = IF newer(p)
             THEN [held EXCEPT ![p.id] = [version |-> p.version, content |-> p.content]]
             ELSE held
  /\ sent' = sent \ {p}
  /\ UNCHANGED <<row, published, changes>>

-----------------------------------------------------------------------------
Command ==
  \/ \E c \in Category : SaveCategory(c)
  \/ \E u \in Unit : SaveUnit(u)
  \/ \E m \in Method : SavePaymentMethod(m)
  \/ \E q \in Policy : ActivatePolicy(q)
  \/ \E r \in Pair : UpdateExchangeRate(r)
  \/ \E p \in Product : CreateProduct(p) \/ UpdateProduct(p) \/ UpdatePrice(p)
  \/ PublishCatalogBootstrap

Consume == \E p \in sent : Apply(p)

\* The bound comes first, so that past it no command is tried.
ReferencesNext ==
  \/ changes < MaxChanges /\ Command
  \/ Consume

ReferencesSpec == ReferencesInit /\ [][ReferencesNext]_referenceVars

-----------------------------------------------------------------------------
(* Properties.                                                             *)

isPublished(id) == \E p \in published : p.id = id
current(id) == publication(id, row[id])

(* A version names one content for ever.                                   *)
VersionsNameOneContent ==
  \A p, q \in published : p.id = q.id /\ p.version = q.version => p = q

(* The terminal holds nothing that the coordinator did not publish.        *)
HeldWasPublished ==
  \A id \in Reference : held[id] = absent \/ publication(id, held[id]) \in published

(* Of what was published the terminal holds the current state, or that is  *)
(* on its way: no order of application, nor the initial cut among the      *)
(* changes, loses it.  It is not said that it can be applied: products     *)
(* that pass three barcodes around may wait for each other in a circle.    *)
CurrentArrives ==
  \A id \in Reference : isPublished(id) => held[id] = row[id] \/ current(id) \in sent

(* A product of the terminal that holds a barcode which is now of another  *)
(* product has a release of it on its way.                                 *)
BarcodesAreReleased ==
  \A p, q \in Product :
    /\ p # q /\ exists(p) /\ held[q].version > 0
    /\ row[p].content.barcode # None
    /\ held[q].content.barcode = row[p].content.barcode
    => \E r \in sent : r.id = q /\ newer(r)

(* What the terminals have follows the coordinator, in whatever order the  *)
(* publications are applied.                                               *)
ReferencesFollowTheCoordinator ==
  /\ VersionsNameOneContent
  /\ HeldWasPublished
  /\ CurrentArrives
  /\ BarcodesAreReleased

(* The argument behind them: a row only moves to newer versions, once its  *)
(* reference is published every state of it is, and what the terminal took *)
(* out of its queue it holds, or something newer.                          *)
PublishedIsBehind ==
  \A p \in published :
    /\ p.version <= row[p.id].version
    /\ p.version = row[p.id].version => p = current(p.id)
CurrentIsPublished == \A p \in published : current(p.id) \in published
ConsumedIsHeld == \A p \in published : p \in sent \/ p.version <= held[p.id].version
BarcodesAreUnique ==
  \A p, q \in Product :
    p # q /\ exists(p) /\ exists(q) /\ row[p].content.barcode # None
    => row[p].content.barcode # row[q].content.barcode

ReferencesInv ==
  /\ ReferencesTypeOK
  /\ VersionsNameOneContent
  /\ HeldWasPublished
  /\ PublishedIsBehind
  /\ CurrentIsPublished
  /\ ConsumedIsHeld
  /\ BarcodesAreUnique
=============================================================================
