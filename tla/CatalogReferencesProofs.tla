---------------------- MODULE CatalogReferencesProofs ----------------------
(***************************************************************************)
(* What CatalogReferences guarantees for any masters, products, barcodes   *)
(* and commands.  Every command but the initial cut is a `Save`, so that   *)
(* there are three kinds of step: a reference is saved, the current rows   *)
(* are published again, or the terminal consumes a publication.            *)
(***************************************************************************)
EXTENDS CatalogReferences, TLAPS

-----------------------------------------------------------------------------
(* A product is of no other kind.                                          *)
LEMMA ContentOfProduct ==
  ASSUME NEW id \in Product
  PROVE  id \in Reference /\ ContentOf(id) = ProductContent
PROOF BY ReferenceConstants DEF Reference, Master, ContentOf

LEMMA ContentOfMaster ==
  ASSUME NEW id \in Master
  PROVE  id \in Reference /\ id \notin Product /\ ContentOf(id) = MasterContent
PROOF BY ReferenceConstants DEF Reference, Master, ContentOf

LEMMA ContentOfSetting ==
  ASSUME NEW id \in Policy
  PROVE  id \in Reference /\ id \notin Product /\ ContentOf(id) = SettingContent
PROOF BY ReferenceConstants DEF Reference, Master, ContentOf

LEMMA ContentOfPair ==
  ASSUME NEW id \in Pair
  PROVE  id \in Reference /\ id \notin Product /\ ContentOf(id) = RateContent
PROOF BY ReferenceConstants DEF Reference, Master, ContentOf

LEMMA FirstOfContent ==
  ASSUME NEW id, NEW content \in ContentOf(id)
  PROVE  first(content) \in RowOf(id)
PROOF BY DEF first, RowOf

(* The version of a row is a number, and one that exists has its content.  *)
LEMMA RowFields ==
  ASSUME NEW id, NEW r \in RowOf(id)
  PROVE  /\ r.version \in Nat
         /\ r.version > 0 => r = [version |-> r.version, content |-> r.content]
         /\ r.version > 0 => r.content \in ContentOf(id)
         /\ r.version = 0 => r = absent
PROOF
<1>1. CASE r = absent
  BY <1>1 DEF absent
<1>2. CASE r \in [version : Nat \ {0}, content : ContentOf(id)]
  BY <1>2
<1> QED BY <1>1, <1>2 DEF RowOf

LEMMA PublicationFields ==
  ASSUME NEW p, isPublication(p)
  PROVE  /\ p.id \in Reference /\ p.version \in Nat /\ p.version > 0
         /\ p.content \in ContentOf(p.id)
         /\ p = [id |-> p.id, version |-> p.version, content |-> p.content]
PROOF BY DEF isPublication

LEMMA PublicationOfRow ==
  ASSUME NEW id \in Reference, NEW r \in RowOf(id), r.version > 0
  PROVE  /\ isPublication(publication(id, r))
         /\ publication(id, r).id = id
         /\ publication(id, r).version = r.version
         /\ publication(id, r).content = r.content
PROOF BY RowFields DEF publication, isPublication

-----------------------------------------------------------------------------
(* Nothing is published at first, and the seeds give a barcode once.       *)
LEMMA ReferencesInitInv == ReferencesInit => ReferencesInv
PROOF
<1> SUFFICES ASSUME ReferencesInit PROVE ReferencesInv OBVIOUS
<1>1. PICK operations \in {masterSeed, absent}, setting \in Setting,
           catalogue \in {masterSeed, absent}, products \in [Product -> productSeeds \cup {absent}] :
        /\ \A p, q \in Product : p # q /\ products[p] # absent /\ products[q] # absent =>
             products[p].content.barcode # products[q].content.barcode
        /\ row = [id \in Reference |->
             IF id \in Pair THEN absent
             ELSE IF id \in Method THEN operations
             ELSE IF id \in Policy
                  THEN IF operations = absent THEN absent ELSE first([value |-> setting])
             ELSE IF id \in Product THEN IF catalogue = absent THEN absent ELSE products[id]
             ELSE catalogue]
  BY DEF ReferencesInit
<1>2. published = {} /\ sent = {} /\ held = [id \in Reference |-> absent] /\ changes = 0
  BY DEF ReferencesInit
<1>3. ASSUME NEW id \in Product PROVE row[id] = absent \/ row[id] = products[id]
  BY <1>1, ContentOfProduct, ReferenceConstants DEF Reference, Master
<1>4. ASSUME NEW id \in Reference PROVE row[id] \in RowOf(id)
  <2>1. CASE id \in Product
    <3>1. ASSUME NEW s \in productSeeds PROVE s \in RowOf(id)
      BY <2>1, ContentOfProduct DEF productSeeds, first, RowOf
    <3> QED BY <2>1, <1>3, <3>1 DEF RowOf
  <2>2. CASE id \in Pair
    BY <1>1, <2>2 DEF RowOf
  <2>3. CASE id \in Policy
    <3>1. first([value |-> setting]) \in RowOf(id)
      <4>1. [value |-> setting] \in SettingContent
        BY DEF SettingContent
      <4> QED BY <4>1, <2>3, ContentOfSetting, FirstOfContent
    <3>2. row[id] \in {absent, first([value |-> setting])}
      BY <1>1, <2>3, ReferenceConstants DEF Reference, Master
    <3> QED BY <3>1, <3>2 DEF RowOf
  <2>4. CASE id \in Master
    <3>1. masterSeed \in RowOf(id)
      <4>1. [active |-> TRUE] \in MasterContent
        BY DEF MasterContent
      <4> QED BY <4>1, <2>4, ContentOfMaster, FirstOfContent DEF masterSeed
    <3>2. row[id] \in {absent, masterSeed}
      BY <1>1, <2>4, ReferenceConstants DEF Reference, Master
    <3> QED BY <3>1, <3>2 DEF RowOf
  <2> QED BY <2>1, <2>2, <2>3, <2>4 DEF Reference
<1>5. ReferencesTypeOK
  <2>1. DOMAIN row = Reference /\ DOMAIN held = Reference
    BY <1>1, <1>2
  <2>2. \A id \in Reference : held[id] \in RowOf(id)
    BY <1>2 DEF RowOf
  <2> QED BY <1>2, <1>4, <2>1, <2>2, ReferenceConstants DEF ReferencesTypeOK
<1>6. BarcodesAreUnique
  <2> SUFFICES ASSUME NEW p \in Product, NEW q \in Product, p # q, exists(p), exists(q)
               PROVE  row[p].content.barcode # row[q].content.barcode
    BY DEF BarcodesAreUnique
  <2>1. row[p] # absent /\ row[q] # absent
    BY DEF exists, absent
  <2> QED BY <1>1, <1>3, <2>1
<1> QED
  BY <1>2, <1>5, <1>6
  DEF ReferencesInv, VersionsNameOneContent, HeldWasPublished, PublishedIsBehind,
      CurrentIsPublished, ConsumedIsHeld

-----------------------------------------------------------------------------
(* A saved reference is newer than all that was published of it.           *)
LEMMA SaveKeepsInv ==
  ASSUME ReferencesInv, NEW id \in Reference, NEW content \in ContentOf(id),
         Save(id, content),
         id \in Product => ~barcodeConflict(id, content.barcode)
  PROVE  ReferencesInv'
PROOF
<1> DEFINE saved == [version |-> row[id].version + 1, content |-> content]
           news == publication(id, saved)
<1>1. /\ row' = [row EXCEPT ![id] = saved]
      /\ published' = published \cup {news} /\ sent' = sent \cup {news} /\ held' = held
      /\ changes < MaxChanges /\ changes' = changes + 1
  BY DEF Save, Published, MayChange
<1>2. /\ ReferencesTypeOK /\ VersionsNameOneContent /\ HeldWasPublished /\ PublishedIsBehind
      /\ CurrentIsPublished /\ ConsumedIsHeld /\ BarcodesAreUnique
  BY DEF ReferencesInv
<1>3. /\ DOMAIN row = Reference
      /\ \A i \in Reference : row[i] \in RowOf(i) /\ row[i].version \in Nat
      /\ \A p \in published : isPublication(p)
  BY <1>2, RowFields DEF ReferencesTypeOK
<1>4. /\ saved \in RowOf(id) /\ saved.version > 0 /\ saved.version = row[id].version + 1
      /\ saved.content = content
  BY <1>3 DEF RowOf
<1>5. /\ isPublication(news) /\ news.id = id /\ news.version = row[id].version + 1
      /\ news.content = content
  BY <1>4, PublicationOfRow
<1>6. /\ row'[id] = saved
      /\ \A i \in Reference \ {id} : row'[i] = row[i]
      /\ DOMAIN row' = Reference
  BY <1>1, <1>3
<1> HIDE DEF saved, news
<1>7. ReferencesTypeOK'
  <2>1. changes' \in 0..MaxChanges
    BY <1>1, <1>2, ReferenceConstants DEF ReferencesTypeOK
  <2>2. \A i \in Reference : row'[i] \in RowOf(i)
    BY <1>3, <1>4, <1>6
  <2> QED BY <1>1, <1>2, <1>5, <1>6, <2>1, <2>2 DEF ReferencesTypeOK
<1>8. \A p \in published : p.id = id => p.version < news.version
  <2> SUFFICES ASSUME NEW p \in published, p.id = id PROVE p.version < news.version
    OBVIOUS
  <2>1. p.version <= row[id].version /\ p.version \in Nat
    BY <1>2, <1>3, PublicationFields DEF PublishedIsBehind
  <2> QED BY <2>1, <1>3, <1>5
<1>9. VersionsNameOneContent'
  <2> SUFFICES ASSUME NEW p \in published', NEW q \in published', p.id = q.id, p.version = q.version
               PROVE  p = q
    BY DEF VersionsNameOneContent
  <2>1. p \in published => p.version \in Nat
    BY <1>3, PublicationFields
  <2>2. q \in published => q.version \in Nat
    BY <1>3, PublicationFields
  <2>3. news.version \in Nat
    BY <1>3, <1>5
  <2> QED BY <1>1, <1>2, <1>5, <1>8, <2>1, <2>2, <2>3 DEF VersionsNameOneContent
<1>10. HeldWasPublished'
  BY <1>1, <1>2 DEF HeldWasPublished
<1>11. PublishedIsBehind'
  <2> SUFFICES ASSUME NEW p \in published'
               PROVE  /\ p.version <= row'[p.id].version
                      /\ p.version = row'[p.id].version => p = publication(p.id, row'[p.id])
    BY DEF PublishedIsBehind, current
  <2>1. CASE p = news
    BY <2>1, <1>3, <1>4, <1>5, <1>6 DEF news
  <2>2. CASE p \in published
    <3>1. p.id \in Reference /\ p.version \in Nat
      BY <2>2, <1>3, PublicationFields
    <3>2. CASE p.id = id
      BY <2>2, <3>1, <3>2, <1>3, <1>4, <1>5, <1>6, <1>8
    <3>3. CASE p.id # id
      BY <2>2, <3>1, <3>3, <1>2, <1>6 DEF PublishedIsBehind, current
    <3> QED BY <3>2, <3>3
  <2> QED BY <1>1, <2>1, <2>2
<1>12. CurrentIsPublished'
  <2> SUFFICES ASSUME NEW p \in published'
               PROVE  publication(p.id, row'[p.id]) \in published'
    BY DEF CurrentIsPublished, current
  <2>1. CASE p.id = id
    BY <2>1, <1>1, <1>6 DEF news
  <2>2. CASE p.id # id
    <3>1. p \in published
      BY <2>2, <1>1, <1>5
    <3>2. p.id \in Reference
      BY <3>1, <1>3, PublicationFields
    <3> QED BY <2>2, <3>1, <3>2, <1>1, <1>2, <1>6 DEF CurrentIsPublished, current
  <2> QED BY <2>1, <2>2
<1>13. ConsumedIsHeld'
  BY <1>1, <1>2 DEF ConsumedIsHeld
<1>14. BarcodesAreUnique'
  <2> SUFFICES ASSUME NEW p \in Product, NEW q \in Product, p # q,
                      row'[p].version > 0, row'[q].version > 0,
                      row'[p].content.barcode # None
               PROVE  row'[p].content.barcode # row'[q].content.barcode
    BY DEF BarcodesAreUnique, exists
  <2>0. p \in Reference /\ q \in Reference
    BY ContentOfProduct
  <2>1. CASE p = id
    <3>1. row'[p].content.barcode = content.barcode /\ row'[q] = row[q]
      BY <2>0, <2>1, <1>4, <1>6
    <3>2. ~barcodeConflict(id, content.barcode)
      BY <2>1
    <3> QED BY <2>1, <3>1, <3>2 DEF barcodeConflict, exists
  <2>2. CASE q = id
    <3>1. row'[q].content.barcode = content.barcode /\ row'[p] = row[p]
      BY <2>0, <2>2, <1>4, <1>6
    <3>2. ~barcodeConflict(id, content.barcode)
      BY <2>2
    <3> QED BY <2>2, <3>1, <3>2 DEF barcodeConflict, exists
  <2>3. CASE p # id /\ q # id
    BY <2>0, <2>3, <1>2, <1>6 DEF BarcodesAreUnique, exists
  <2> QED BY <2>1, <2>2, <2>3
<1> QED
  BY <1>7, <1>9, <1>10, <1>11, <1>12, <1>13, <1>14 DEF ReferencesInv

(* The cut publishes the rows as they are, and rates already published.    *)
LEMMA BootstrapKeepsInv ==
  ASSUME ReferencesInv, PublishCatalogBootstrap
  PROVE  ReferencesInv'
PROOF
<1>1. PICK valid \in SUBSET {p \in published : p.id \in Pair} : Published(cut \cup valid)
  BY DEF PublishCatalogBootstrap
<1> DEFINE again == cut \cup valid
<1>2. /\ row' = row /\ held' = held
      /\ published' = published \cup again /\ sent' = sent \cup again
      /\ changes < MaxChanges /\ changes' = changes + 1
  BY <1>1 DEF PublishCatalogBootstrap, Published, MayChange
<1>3. /\ ReferencesTypeOK /\ VersionsNameOneContent /\ HeldWasPublished /\ PublishedIsBehind
      /\ CurrentIsPublished /\ ConsumedIsHeld /\ BarcodesAreUnique
  BY DEF ReferencesInv
<1>4. \A i \in Reference : row[i] \in RowOf(i) /\ row[i].version \in Nat
  BY <1>3, RowFields DEF ReferencesTypeOK
<1>5. ASSUME NEW p \in cut
      PROVE  isPublication(p) /\ p = current(p.id) /\ p.version = row[p.id].version
  <2>1. PICK i \in Reference : exists(i) /\ p = publication(i, row[i])
    BY DEF cut
  <2> QED BY <2>1, <1>4, PublicationOfRow DEF exists, current
<1>6. ASSUME NEW p \in again, p \notin published PROVE p \in cut
  BY <1>6
<1> HIDE DEF again
<1>7. ReferencesTypeOK'
  <2>1. changes' \in 0..MaxChanges
    BY <1>2, <1>3, ReferenceConstants DEF ReferencesTypeOK
  <2>2. \A p \in published' : isPublication(p)
    BY <1>2, <1>3, <1>5, <1>6 DEF ReferencesTypeOK
  <2> QED BY <1>2, <1>3, <2>1, <2>2 DEF ReferencesTypeOK
<1>8. ASSUME NEW p \in published, NEW q \in cut, p.id = q.id, p.version = q.version
      PROVE  p = q
  BY <1>3, <1>5, <1>8 DEF PublishedIsBehind
<1>9. VersionsNameOneContent'
  <2> SUFFICES ASSUME NEW p \in published', NEW q \in published', p.id = q.id, p.version = q.version
               PROVE  p = q
    BY DEF VersionsNameOneContent
  <2>1. CASE p \in published /\ q \in published
    BY <2>1, <1>3 DEF VersionsNameOneContent
  <2>2. CASE p \in published /\ q \in cut
    BY <2>2, <1>8
  <2>3. CASE p \in cut /\ q \in published
    BY <2>3, <1>8
  <2>4. CASE p \in cut /\ q \in cut
    BY <2>4, <1>5
  <2> QED BY <1>2, <1>6, <2>1, <2>2, <2>3, <2>4
<1>10. HeldWasPublished'
  BY <1>2, <1>3 DEF HeldWasPublished
<1>11. PublishedIsBehind'
  <2> SUFFICES ASSUME NEW p \in published'
               PROVE  p.version <= row[p.id].version /\ (p.version = row[p.id].version => p = current(p.id))
    BY <1>2 DEF PublishedIsBehind, current
  <2>1. CASE p \in published
    BY <2>1, <1>3 DEF PublishedIsBehind
  <2>2. CASE p \in cut
    <3>1. p.version \in Nat
      BY <2>2, <1>5, PublicationFields
    <3> QED BY <2>2, <3>1, <1>5
  <2> QED BY <1>2, <1>6, <2>1, <2>2
<1>12. CurrentIsPublished'
  <2> SUFFICES ASSUME NEW p \in published' PROVE current(p.id) \in published'
    BY <1>2 DEF CurrentIsPublished, current
  <2>1. CASE p \in published
    BY <2>1, <1>2, <1>3 DEF CurrentIsPublished
  <2>2. CASE p \in cut
    BY <2>2, <1>5
  <2> QED BY <1>2, <1>6, <2>1, <2>2
<1>13. ConsumedIsHeld'
  BY <1>2, <1>3 DEF ConsumedIsHeld
<1>14. BarcodesAreUnique'
  BY <1>2, <1>3 DEF BarcodesAreUnique, exists
<1> QED
  BY <1>7, <1>9, <1>10, <1>11, <1>12, <1>13, <1>14 DEF ReferencesInv

-----------------------------------------------------------------------------
(* What the terminal takes out of its queue it holds, or something newer.  *)
LEMMA ApplyKeepsInv ==
  ASSUME ReferencesInv, NEW p \in sent, Apply(p)
  PROVE  ReferencesInv'
PROOF
<1> DEFINE taken == [version |-> p.version, content |-> p.content]
<1>1. /\ row' = row /\ published' = published /\ changes' = changes
      /\ sent' = sent \ {p}
      /\ held' = IF newer(p) THEN [held EXCEPT ![p.id] = taken] ELSE held
  BY DEF Apply
<1>2. /\ ReferencesTypeOK /\ VersionsNameOneContent /\ HeldWasPublished /\ PublishedIsBehind
      /\ CurrentIsPublished /\ ConsumedIsHeld /\ BarcodesAreUnique
  BY DEF ReferencesInv
<1>3. /\ p \in published /\ isPublication(p) /\ DOMAIN held = Reference
      /\ \A i \in Reference : held[i] \in RowOf(i) /\ held[i].version \in Nat
  BY <1>2, RowFields DEF ReferencesTypeOK
<1>4. /\ p.id \in Reference /\ p.version \in Nat
      /\ taken \in RowOf(p.id) /\ taken.version = p.version
      /\ publication(p.id, taken) = p
  BY <1>3, PublicationFields DEF RowOf, publication
<1> HIDE DEF taken
<1>5. /\ DOMAIN held' = Reference
      /\ \A i \in Reference : held'[i] = held[i] \/ (i = p.id /\ held'[i] = taken)
      /\ \A i \in Reference : held'[i] \in RowOf(i)
      /\ p.version <= held'[p.id].version
      /\ \A i \in Reference : held[i].version <= held'[i].version
  <2>1. CASE newer(p)
    BY <2>1, <1>1, <1>3, <1>4 DEF newer
  <2>2. CASE ~newer(p)
    BY <2>2, <1>1, <1>3, <1>4 DEF newer
  <2> QED BY <2>1, <2>2
<1>6. ReferencesTypeOK'
  BY <1>1, <1>2, <1>5 DEF ReferencesTypeOK
<1>7. HeldWasPublished'
  BY <1>1, <1>2, <1>3, <1>4, <1>5 DEF HeldWasPublished
<1>8. ConsumedIsHeld'
  <2> SUFFICES ASSUME NEW q \in published, q \notin sent'
               PROVE  q.version <= held'[q.id].version
    BY <1>1 DEF ConsumedIsHeld
  <2>1. CASE q = p
    BY <2>1, <1>5
  <2>2. CASE q # p
    <3>1. q.id \in Reference /\ q.version \in Nat
      BY <1>2, PublicationFields DEF ReferencesTypeOK
    <3>2. q.version <= held[q.id].version
      BY <2>2, <1>1, <1>2 DEF ConsumedIsHeld
    <3>3. held'[q.id].version \in Nat
      BY <3>1, <1>5, RowFields
    <3> QED BY <3>1, <3>2, <3>3, <1>3, <1>5
  <2> QED BY <2>1, <2>2
<1>9. /\ VersionsNameOneContent' /\ PublishedIsBehind' /\ CurrentIsPublished'
      /\ BarcodesAreUnique'
  BY <1>1, <1>2
  DEF VersionsNameOneContent, PublishedIsBehind, CurrentIsPublished, current,
      BarcodesAreUnique, exists
<1> QED
  BY <1>6, <1>7, <1>8, <1>9 DEF ReferencesInv

-----------------------------------------------------------------------------
(* Every command of the coordinator saves a content of the reference's     *)
(* kind, and only a product that no other one disputes a barcode.          *)
LEMMA ReferencesStepInv == ReferencesInv /\ [ReferencesNext]_referenceVars => ReferencesInv'
PROOF
<1> SUFFICES ASSUME ReferencesInv, [ReferencesNext]_referenceVars PROVE ReferencesInv'
  OBVIOUS
<1>1. ASSUME NEW m \in Master, NEW content \in MasterContent, Save(m, content)
      PROVE  ReferencesInv'
  BY <1>1, ContentOfMaster, SaveKeepsInv
<1>2. CASE \E c \in Category : SaveCategory(c)
  BY <1>1, <1>2 DEF SaveCategory, Master
<1>3. CASE \E u \in Unit : SaveUnit(u)
  BY <1>1, <1>3 DEF SaveUnit, Master
<1>4. CASE \E m \in Method : SavePaymentMethod(m)
  BY <1>1, <1>4 DEF SavePaymentMethod, Master
<1>5. CASE \E q \in Policy : ActivatePolicy(q)
  BY <1>5, ContentOfSetting, SaveKeepsInv DEF ActivatePolicy
<1>6. CASE \E r \in Pair : UpdateExchangeRate(r)
  BY <1>6, ContentOfPair, SaveKeepsInv DEF UpdateExchangeRate
<1>7. ASSUME NEW p \in Product, NEW content \in ProductContent,
             Save(p, content), ~barcodeConflict(p, content.barcode)
      PROVE  ReferencesInv'
  BY <1>7, ContentOfProduct, SaveKeepsInv
<1>8. ASSUME NEW p \in Product, CreateProduct(p) \/ UpdateProduct(p) PROVE ReferencesInv'
  BY <1>7, <1>8 DEF CreateProduct, UpdateProduct
<1>9. ASSUME NEW p \in Product, UpdatePrice(p) PROVE ReferencesInv'
  <2>1. PICK price \in Price : exists(p) /\ Save(p, [row[p].content EXCEPT !.price = price])
    BY <1>9 DEF UpdatePrice
  <2> DEFINE content == [row[p].content EXCEPT !.price = price]
  <2>2. row[p].content \in ProductContent
    BY <2>1, ContentOfProduct, RowFields DEF ReferencesInv, ReferencesTypeOK, exists
  <2>3. content \in ProductContent /\ content.barcode = row[p].content.barcode
    BY <2>2 DEF ProductContent
  <2>4. ~barcodeConflict(p, content.barcode)
    BY <2>1, <2>3 DEF ReferencesInv, BarcodesAreUnique, barcodeConflict, exists
  <2> HIDE DEF content
  <2> QED BY <2>1, <2>3, <2>4, <1>7 DEF content
<1>10. CASE PublishCatalogBootstrap
  BY <1>10, BootstrapKeepsInv
<1>11. CASE Consume
  BY <1>11, ApplyKeepsInv DEF Consume
<1>12. CASE UNCHANGED referenceVars
  BY <1>12
  DEF referenceVars, ReferencesInv, ReferencesTypeOK, VersionsNameOneContent, HeldWasPublished,
      PublishedIsBehind, CurrentIsPublished, current, ConsumedIsHeld, BarcodesAreUnique, exists
<1> QED
  BY <1>2, <1>3, <1>4, <1>5, <1>6, <1>8, <1>9, <1>10, <1>11, <1>12
  DEF ReferencesNext, Command

(* A reference that was published and is not held as it is has its current *)
(* state among what the terminal has still to consume.                     *)
LEMMA CurrentIsOnItsWay ==
  ASSUME ReferencesInv, NEW id \in Reference, isPublished(id), current(id) \notin sent
  PROVE  held[id] = row[id]
PROOF
<1>1. /\ ReferencesTypeOK /\ VersionsNameOneContent /\ HeldWasPublished /\ PublishedIsBehind
      /\ CurrentIsPublished /\ ConsumedIsHeld
  BY DEF ReferencesInv
<1>2. PICK p \in published : p.id = id
  BY DEF isPublished
<1>3. row[id] \in RowOf(id) /\ held[id] \in RowOf(id)
  BY <1>1 DEF ReferencesTypeOK
<1>4. p.version > 0 /\ p.version \in Nat /\ p.version <= row[id].version
  BY <1>1, <1>2, PublicationFields DEF ReferencesTypeOK, PublishedIsBehind
<1>5. /\ row[id].version \in Nat /\ row[id].version > 0 /\ held[id].version \in Nat
      /\ row[id] = [version |-> row[id].version, content |-> row[id].content]
  BY <1>3, <1>4, RowFields
<1>6. current(id) \in published
  BY <1>1, <1>2 DEF CurrentIsPublished
<1>7. row[id].version <= held[id].version
  BY <1>1, <1>3, <1>5, <1>6, PublicationOfRow DEF ConsumedIsHeld, current
<1>8. held[id] = [version |-> held[id].version, content |-> held[id].content]
  BY <1>3, <1>5, <1>7, RowFields
<1>9. publication(id, held[id]) \in published
  BY <1>1, <1>5, <1>7 DEF HeldWasPublished, absent
<1>10. /\ held[id].version <= row[id].version
       /\ held[id].version = row[id].version => publication(id, held[id]) = current(id)
  <2>1. /\ publication(id, held[id]).id = id
        /\ publication(id, held[id]).version = held[id].version
    BY <1>3, <1>5, <1>7, PublicationOfRow
  <2> QED BY <1>1, <1>9, <2>1 DEF PublishedIsBehind
<1>11. held[id].version = row[id].version
  BY <1>5, <1>7, <1>10
<1>12. held[id].content = row[id].content
  BY <1>3, <1>5, <1>10, <1>11, PublicationOfRow DEF current
<1> QED
  BY <1>5, <1>8, <1>11, <1>12

(* A barcode of two products, one at the coordinator and the other at the  *)
(* terminal: the second is not current, and its release is on its way.     *)
LEMMA ReleaseIsOnItsWay == ReferencesInv => BarcodesAreReleased
PROOF
<1> SUFFICES ASSUME ReferencesInv, NEW p \in Product, NEW q \in Product,
                    p # q, exists(p), held[q].version > 0, row[p].content.barcode # None,
                    held[q].content.barcode = row[p].content.barcode
             PROVE  \E r \in sent : r.id = q /\ newer(r)
  BY DEF BarcodesAreReleased
<1>1. q \in Reference
  BY ContentOfProduct
<1>2. row[q] \in RowOf(q) /\ held[q] \in RowOf(q)
  BY <1>1 DEF ReferencesInv, ReferencesTypeOK
<1>3. publication(q, held[q]) \in published /\ publication(q, held[q]).id = q
  BY <1>1, <1>2, PublicationOfRow DEF ReferencesInv, HeldWasPublished, absent
<1>4. /\ held[q].version <= row[q].version
      /\ held[q].version = row[q].version => publication(q, held[q]) = current(q)
  BY <1>1, <1>2, <1>3, PublicationOfRow DEF ReferencesInv, PublishedIsBehind
<1>5. held[q].version \in Nat /\ row[q].version \in Nat /\ row[q].version > 0
  BY <1>2, <1>4, RowFields
<1>6. row[q].content.barcode # row[p].content.barcode
  BY <1>5 DEF ReferencesInv, BarcodesAreUnique, exists
<1>7. held[q].version # row[q].version
  BY <1>1, <1>2, <1>4, <1>5, <1>6, PublicationOfRow DEF current
<1>8. current(q) \in sent
  BY <1>1, <1>3, <1>7, CurrentIsOnItsWay DEF isPublished
<1>9. current(q).id = q /\ newer(current(q))
  BY <1>1, <1>2, <1>4, <1>5, <1>7, PublicationOfRow DEF current, newer
<1> QED
  BY <1>8, <1>9

LEMMA ReferencesInvariant == ReferencesSpec => []ReferencesInv
PROOF BY ReferencesInitInv, ReferencesStepInv, PTL DEF ReferencesSpec

-----------------------------------------------------------------------------
(* Rows, publications and what the terminal holds have their types.        *)
THEOREM ReferencesAreTyped == ReferencesSpec => []ReferencesTypeOK
PROOF
<1>1. ReferencesInv => ReferencesTypeOK
  BY DEF ReferencesInv
<1> QED BY <1>1, ReferencesInvariant, PTL

(* A version names one content, the terminal holds only what the           *)
(* coordinator published, the current state of every published reference   *)
(* is held or on its way, and so is the release of every barcode that      *)
(* changed hands, in whatever order the publications are applied.          *)
THEOREM ReferencesConverge == ReferencesSpec => []ReferencesFollowTheCoordinator
PROOF
<1>1. ReferencesInv => CurrentArrives
  BY CurrentIsOnItsWay DEF CurrentArrives
<1>2. ReferencesInv => ReferencesFollowTheCoordinator
  BY <1>1, ReleaseIsOnItsWay DEF ReferencesInv, ReferencesFollowTheCoordinator
<1> QED BY <1>2, ReferencesInvariant, PTL
-----------------------------------------------------------------------------
(* The copies of a terminal hold together.                                 *)

MastersArePresent ==
  \A p \in Product :
    /\ exists(p) => exists(row[p].content.category) /\ exists(row[p].content.unit)
    /\ held[p].version > 0 => /\ isDependencyApplied(held[p].content.category)
                              /\ isDependencyApplied(held[p].content.unit)

BarcodesNameOneProduct ==
  \A p, q \in Product :
    p # q /\ held[p].version > 0 /\ held[q].version > 0 /\ held[p].content.barcode # None
    => held[p].content.barcode # held[q].content.barcode

CopiesInv == ReferencesInv /\ MastersArePresent /\ BarcodesNameOneProduct

CopiesOnlyAdvance ==
  /\ published \subseteq published'
  /\ \A id \in Reference :
       /\ row[id].version <= row'[id].version
       /\ held[id].version <= held'[id].version
       /\ row[id].version = row'[id].version => row'[id] = row[id]
       /\ held[id].version = held'[id].version => held'[id] = held[id]

LEMMA VersionsAreNumbers ==
  ASSUME ReferencesInv
  PROVE  /\ \A id \in Reference : row[id].version \in Nat /\ held[id].version \in Nat
         /\ DOMAIN row = Reference /\ DOMAIN held = Reference
         /\ \A p \in sent : p.id \in Reference /\ p.version \in Nat /\ p.version > 0
PROOF BY RowFields, PublicationFields DEF ReferencesInv, ReferencesTypeOK

(* The masters of a product are masters: they are no products.             *)
LEMMA MastersOfAProduct ==
  ASSUME NEW content \in ProductContent
  PROVE  /\ content.category \in Master /\ content.unit \in Master
         /\ content.category \in Reference \ Product /\ content.unit \in Reference \ Product
PROOF BY ContentOfMaster DEF ProductContent, Master

LEMMA ContentsOfProducts ==
  ASSUME ReferencesInv, NEW p \in Product
  PROVE  /\ p \in Reference
         /\ exists(p) => row[p].content \in ProductContent
         /\ held[p].version > 0 => held[p].content \in ProductContent
PROOF BY ContentOfProduct, RowFields DEF ReferencesInv, ReferencesTypeOK, exists

LEMMA CopiesInitInv == ReferencesInit => MastersArePresent /\ BarcodesNameOneProduct
PROOF
<1> SUFFICES ASSUME ReferencesInit PROVE MastersArePresent /\ BarcodesNameOneProduct
  OBVIOUS
<1>1. PICK operations \in {masterSeed, absent}, setting \in Setting,
           catalogue \in {masterSeed, absent}, products \in [Product -> productSeeds \cup {absent}] :
        row = [id \in Reference |->
          IF id \in Pair THEN absent
          ELSE IF id \in Method THEN operations
          ELSE IF id \in Policy
               THEN IF operations = absent THEN absent ELSE first([value |-> setting])
          ELSE IF id \in Product THEN IF catalogue = absent THEN absent ELSE products[id]
          ELSE catalogue]
  BY DEF ReferencesInit
<1>2. \A id \in Reference : held[id] = absent
  BY DEF ReferencesInit
<1>3. \A p \in Product : held[p].version = 0
  BY <1>2, ContentOfProduct DEF absent
<1>4. ASSUME NEW p \in Product, exists(p)
      PROVE  exists(row[p].content.category) /\ exists(row[p].content.unit)
  <2>1. row[p] # absent
    BY <1>4 DEF exists, absent
  <2>2. row[p] = (IF catalogue = absent THEN absent ELSE products[p])
    BY <1>1, ContentOfProduct, ReferenceConstants DEF Reference, Master
  <2>3. catalogue = masterSeed /\ row[p] = products[p] /\ row[p] \in productSeeds
    BY <1>1, <2>1, <2>2
  <2>4. row[p].content \in ProductContent
    BY <2>3 DEF productSeeds, first
  <2>5. /\ row[p].content.category \in Category /\ row[p].content.unit \in Unit
    BY <2>4 DEF ProductContent
  <2>6. \A id \in Category \cup Unit : row[id] = masterSeed
    BY <1>1, <2>3, ReferenceConstants DEF Reference, Master
  <2> QED BY <2>5, <2>6 DEF exists, masterSeed, first
<1>5. \A p \in Product : ~ (held[p].version > 0)
  BY <1>3
<1>6. MastersArePresent
  BY <1>4, <1>5 DEF MastersArePresent
<1>7. BarcodesNameOneProduct
  BY <1>5 DEF BarcodesNameOneProduct
<1> QED BY <1>6, <1>7

LEMMA SaveAdvances ==
  ASSUME ReferencesInv, NEW id \in Reference, NEW content, Save(id, content)
  PROVE  /\ CopiesOnlyAdvance /\ held' = held
         /\ row'[id].content = content
         /\ \A i \in Reference \ {id} : row'[i] = row[i]
         /\ \A i \in Reference : exists(i) => row'[i].version > 0
PROOF
<1> DEFINE saved == [version |-> row[id].version + 1, content |-> content]
<1>1. /\ row' = [row EXCEPT ![id] = saved] /\ held' = held
      /\ published \subseteq published'
  BY DEF Save, Published
<1>2. /\ DOMAIN row = Reference /\ \A i \in Reference : row[i].version \in Nat
      /\ \A i \in Reference : held[i].version \in Nat
  BY VersionsAreNumbers
<1>3. saved.version = row[id].version + 1 /\ saved.content = content
  OBVIOUS
<1>4. row'[id] = saved /\ \A i \in Reference \ {id} : row'[i] = row[i]
  BY <1>1, <1>2
<1> HIDE DEF saved
<1> QED BY <1>1, <1>2, <1>3, <1>4 DEF CopiesOnlyAdvance, exists

(* A product is saved over masters that exist.                             *)
LEMMA SaveKeepsCopies ==
  ASSUME CopiesInv, NEW id \in Reference, NEW content, Save(id, content),
         id \in Product => /\ content \in ProductContent
                           /\ exists(content.category) /\ exists(content.unit)
  PROVE  MastersArePresent' /\ BarcodesNameOneProduct' /\ CopiesOnlyAdvance
PROOF
<1>1. /\ CopiesOnlyAdvance /\ held' = held
      /\ row'[id].content = content
      /\ \A i \in Reference \ {id} : row'[i] = row[i]
      /\ \A i \in Reference : exists(i) => row'[i].version > 0
  BY SaveAdvances DEF CopiesInv
<1>2. ASSUME NEW p \in Product, row'[p].version > 0
      PROVE  row'[row'[p].content.category].version > 0 /\ row'[row'[p].content.unit].version > 0
  <2>1. CASE p = id
    BY <1>1, <2>1, MastersOfAProduct
  <2>2. CASE p # id
    <3>1. row'[p] = row[p] /\ exists(p) /\ row[p].content \in ProductContent
      BY <1>1, <1>2, <2>2, ContentsOfProducts DEF CopiesInv, exists
    <3>2. exists(row[p].content.category) /\ exists(row[p].content.unit)
      BY <3>1 DEF CopiesInv, MastersArePresent
    <3> QED BY <1>1, <3>1, <3>2, MastersOfAProduct
  <2> QED BY <2>1, <2>2
<1>3. MastersArePresent'
  BY <1>1, <1>2 DEF CopiesInv, MastersArePresent, exists, isDependencyApplied
<1> QED BY <1>1, <1>3 DEF CopiesInv, BarcodesNameOneProduct

(* The terminal takes a product over masters that it holds, and with a     *)
(* barcode that it does not.                                               *)
LEMMA ApplyKeepsCopies ==
  ASSUME CopiesInv, NEW p \in sent, Apply(p)
  PROVE  MastersArePresent' /\ BarcodesNameOneProduct' /\ CopiesOnlyAdvance
PROOF
<1> DEFINE taken == [version |-> p.version, content |-> p.content]
<1>1. /\ row' = row /\ published' = published
      /\ held' = IF newer(p) THEN [held EXCEPT ![p.id] = taken] ELSE held
  BY DEF Apply
<1>2. /\ \A i \in Reference : row[i].version \in Nat /\ held[i].version \in Nat
      /\ DOMAIN held = Reference /\ p.id \in Reference /\ p.version \in Nat /\ p.version > 0
  BY VersionsAreNumbers DEF CopiesInv
<1>3. taken.version = p.version /\ taken.content = p.content
  OBVIOUS
<1> HIDE DEF taken
<1>4. CASE ~newer(p)
  BY <1>1, <1>2, <1>4
  DEF CopiesInv, CopiesOnlyAdvance, MastersArePresent, BarcodesNameOneProduct, exists,
      isDependencyApplied
<1>5. CASE newer(p)
  <2>1. held'[p.id] = taken /\ \A i \in Reference \ {p.id} : held'[i] = held[i]
    BY <1>1, <1>2, <1>5
  <2>2. p.version > held[p.id].version
    BY <1>5 DEF newer
  <2>3. CopiesOnlyAdvance
    BY <1>1, <1>2, <1>3, <2>1, <2>2 DEF CopiesOnlyAdvance
  <2>4. \A i \in Reference : held[i].version > 0 => held'[i].version > 0
    BY <1>2, <1>3, <2>1
  <2>5. ASSUME NEW q \in Product, held'[q].version > 0
        PROVE  /\ held'[held'[q].content.category].version > 0
               /\ held'[held'[q].content.unit].version > 0
    <3>1. CASE q = p.id
      <4>1. p.content \in ProductContent
        BY <3>1, ContentOfProduct, PublicationFields DEF CopiesInv, ReferencesInv, ReferencesTypeOK
      <4>2. /\ isDependencyApplied(p.content.category) /\ isDependencyApplied(p.content.unit)
        BY <3>1 DEF Apply, dependencies
      <4> QED BY <1>3, <2>1, <2>4, <3>1, <4>1, <4>2, MastersOfAProduct DEF isDependencyApplied
    <3>2. CASE q # p.id
      <4>1. held'[q] = held[q] /\ held[q].version > 0 /\ held[q].content \in ProductContent
        BY <2>1, <2>5, <3>2, ContentOfProduct, ContentsOfProducts DEF CopiesInv
      <4>2. /\ isDependencyApplied(held[q].content.category)
            /\ isDependencyApplied(held[q].content.unit)
        BY <4>1 DEF CopiesInv, MastersArePresent
      <4> QED BY <2>4, <4>1, <4>2, MastersOfAProduct DEF isDependencyApplied
    <3> QED BY <3>1, <3>2
  <2>6. MastersArePresent'
    BY <1>1, <2>5 DEF CopiesInv, MastersArePresent, exists, isDependencyApplied
  <2>7. BarcodesNameOneProduct'
    <3> SUFFICES ASSUME NEW q \in Product, NEW r \in Product, q # r,
                        held'[q].version > 0, held'[r].version > 0,
                        held'[q].content.barcode # None
                 PROVE  held'[q].content.barcode # held'[r].content.barcode
      BY DEF BarcodesNameOneProduct
    <3>1. q \in Reference /\ r \in Reference /\ ~barcodesTaken(p)
      BY <1>5, ContentOfProduct DEF Apply
    <3>2. CASE q = p.id
      <4>1. held'[q].content = p.content /\ held'[r] = held[r]
        BY <1>3, <2>1, <3>1, <3>2
      <4> QED BY <3>1, <3>2, <4>1 DEF barcodesTaken
    <3>3. CASE r = p.id
      <4>1. held'[r].content = p.content /\ held'[q] = held[q]
        BY <1>3, <2>1, <3>1, <3>3
      <4> QED BY <3>1, <3>3, <4>1 DEF barcodesTaken
    <3>4. CASE q # p.id /\ r # p.id
      <4>1. held'[q] = held[q] /\ held'[r] = held[r]
        BY <2>1, <3>1, <3>4
      <4> QED BY <4>1 DEF CopiesInv, BarcodesNameOneProduct
    <3> QED BY <3>2, <3>3, <3>4
  <2> QED BY <2>3, <2>6, <2>7
<1> QED BY <1>4, <1>5

LEMMA CopiesStep ==
  ASSUME CopiesInv, [ReferencesNext]_referenceVars
  PROVE  MastersArePresent' /\ BarcodesNameOneProduct' /\ CopiesOnlyAdvance
PROOF
<1> DEFINE Goal == MastersArePresent' /\ BarcodesNameOneProduct' /\ CopiesOnlyAdvance
<1>1. ASSUME NEW id \in Reference \ Product, NEW content, Save(id, content) PROVE Goal
  BY <1>1, SaveKeepsCopies
<1>2. CASE \/ \E c \in Category : SaveCategory(c)
           \/ \E u \in Unit : SaveUnit(u)
           \/ \E m \in Method : SavePaymentMethod(m)
  BY <1>1, <1>2, ContentOfMaster DEF SaveCategory, SaveUnit, SavePaymentMethod, Master
<1>3. CASE \E q \in Policy : ActivatePolicy(q)
  BY <1>1, <1>3, ContentOfSetting DEF ActivatePolicy
<1>4. CASE \E r \in Pair : UpdateExchangeRate(r)
  BY <1>1, <1>4, ContentOfPair DEF UpdateExchangeRate
<1>5. ASSUME NEW p \in Product, exists(p)
      PROVE  /\ exists(row[p].content.category) /\ exists(row[p].content.unit)
             /\ row[p].content \in ProductContent
  BY <1>5, ContentsOfProducts DEF CopiesInv, MastersArePresent
<1>6. ASSUME NEW p \in Product, NEW content \in ProductContent, Save(p, content),
             exists(content.category), exists(content.unit)
      PROVE  Goal
  BY <1>6, ContentOfProduct, SaveKeepsCopies
<1>7. ASSUME NEW p \in Product, CreateProduct(p) PROVE Goal
  BY <1>6, <1>7 DEF CreateProduct, active
<1>8. ASSUME NEW p \in Product, UpdateProduct(p) PROVE Goal
  BY <1>5, <1>6, <1>8 DEF UpdateProduct, active
<1>9. ASSUME NEW p \in Product, UpdatePrice(p) PROVE Goal
  <2>1. PICK price \in Price : exists(p) /\ Save(p, [row[p].content EXCEPT !.price = price])
    BY <1>9 DEF UpdatePrice
  <2> DEFINE content == [row[p].content EXCEPT !.price = price]
  <2>2. row[p].content \in ProductContent
    BY <1>5, <2>1
  <2>3. /\ content \in ProductContent /\ content.category = row[p].content.category
        /\ content.unit = row[p].content.unit
    BY <2>2 DEF ProductContent
  <2>4. exists(content.category) /\ exists(content.unit) /\ Save(p, content)
    BY <1>5, <2>1, <2>3
  <2> HIDE DEF content, Goal
  <2> QED BY <1>6, <2>3, <2>4
<1>10. CASE UNCHANGED <<row, held>> /\ published \subseteq published'
  BY <1>10, VersionsAreNumbers
  DEF CopiesInv, CopiesOnlyAdvance, MastersArePresent, BarcodesNameOneProduct, exists,
      isDependencyApplied
<1>11. CASE PublishCatalogBootstrap \/ UNCHANGED referenceVars
  BY <1>10, <1>11 DEF PublishCatalogBootstrap, Published, referenceVars
<1>12. CASE Consume
  BY <1>12, ApplyKeepsCopies DEF Consume
<1> HIDE DEF Goal
<1>13. Goal
  BY <1>2, <1>3, <1>4, <1>7, <1>8, <1>9, <1>11, <1>12 DEF ReferencesNext, Command, Goal
<1> QED BY <1>13 DEF Goal

LEMMA CopiesInvariant == ReferencesSpec => []CopiesInv
PROOF
<1>1. ReferencesInit => CopiesInv
  BY ReferencesInitInv, CopiesInitInv DEF CopiesInv
<1>2. CopiesInv /\ [ReferencesNext]_referenceVars => CopiesInv'
  BY ReferencesStepInv, CopiesStep DEF CopiesInv
<1> QED BY <1>1, <1>2, PTL DEF ReferencesSpec

(* A product never stands without its category and its unit, at the        *)
(* coordinator nor at a terminal, and there a barcode finds one product,   *)
(* in whatever order publications arrive.                                  *)
THEOREM CopiesHoldTogether == ReferencesSpec => [](MastersArePresent /\ BarcodesNameOneProduct)
PROOF
<1>1. CopiesInv => MastersArePresent /\ BarcodesNameOneProduct
  BY DEF CopiesInv
<1> QED BY <1>1, CopiesInvariant, PTL

(* No command, cut or late publication takes a row back to an older        *)
(* version, nor changes one without a new version.                         *)
THEOREM VersionsOnlyAdvance == ReferencesSpec => [][CopiesOnlyAdvance]_referenceVars
PROOF
<1>1. CopiesInv /\ [ReferencesNext]_referenceVars => CopiesOnlyAdvance
  BY CopiesStep
<1> QED BY <1>1, CopiesInvariant, PTL DEF ReferencesSpec
=============================================================================
