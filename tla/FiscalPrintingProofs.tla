----------------------- MODULE FiscalPrintingProofs -----------------------
(***************************************************************************)
(* What FiscalPrinting guarantees for any number of sales, requests and    *)
(* failures.  A request carries a copy of its document across awaits; the  *)
(* invariant says how old the copy may be, so that a save is accepted only *)
(* when nothing was stored since, and the steps of a row follow from that. *)
(***************************************************************************)
EXTENDS FiscalPrinting, TLAPS

(* What a request knows: the version its copy was read at, that a document *)
(* about to be printed has not been, and that numbers come from the device.*)
Sound(f) ==
  LET d == flow[f].document
      copy == flow[f].copy IN
  /\ flow[f].stage = "PREPARED" => copy = pending /\ row[d].version >= 1
  /\ flow[f].stage \in {"PRINTING", "PRINTED"} => copy = printing /\ row[d].version >= 2
  /\ flow[f].stage = "PRINTING" => printed[d] = 0
  /\ flow[f].stage \in {"ASKING", "ANSWERED"} =>
       copy \in {pending, printing, inError} /\ row[d].version >= copy.version
  /\ flow[f].stage = "PRINTED" /\ flow[f].answer # None => flow[f].answer = d
  /\ flow[f].answer # None => printed[flow[f].answer] > 0

OnePrinting ==
  \A f, g \in Flow :
    /\ flow[f].stage = "PRINTING" /\ flow[g].stage = "PRINTING"
    /\ flow[f].document = flow[g].document
    => f = g

PrintedIsStored == \A d \in Document : printed[d] > 0 => row[d].version >= 2
LastWasPrinted == last # None => printed[last] > 0
NoteAfterInvoice == \A s \in Sale : row[creditNote(s)] # absent => invoiced(s)

FiscalInv ==
  /\ FiscalTypeOK
  /\ \A f \in Flow : Sound(f)
  /\ OnePrinting
  /\ PrintedIsStored
  /\ PrintedOnce
  /\ LastWasPrinted
  /\ NoteAfterInvoice
  /\ OneInvoiceAtATime
  /\ InvoiceNumberIsOwn

(* The four ways in which the row of a document changes.                   *)
Created(d) ==
  /\ row[d] = absent /\ row'[d] = pending
  /\ \/ noneActive /\ \E s \in Sale : d = invoice(s)
     \/ \E s \in Sale : d = creditNote(s) /\ invoiced(s)
Begun(d) == row[d] = pending /\ row'[d] = printing
Failed(d) == row[d] = printing /\ row'[d] = inError
Numbered(d) ==
  \E n \in Document :
    /\ row[d] \in {printing, inError}
    /\ row'[d] = issued(row[d], n)
    /\ n.reference = d.reference
    /\ printed[n] > 0
RowStep(d) == Created(d) \/ Begun(d) \/ Failed(d) \/ Numbered(d)

(* The two ways in which the device changes.                               *)
Commits(f) ==
  /\ flow[f].stage = "PRINTING"
  /\ last' = flow[f].document
  /\ printed' = [printed EXCEPT ![flow[f].document] = @ + 1]
Rests == printed' = printed /\ last' \in {last, None}

-----------------------------------------------------------------------------
LEMMA DocumentKinds ==
  /\ \A s \in Sale : invoice(s) \in Document /\ creditNote(s) \in Document
  /\ \A s, t \in Sale : invoice(s) # creditNote(t)
  /\ \A s, t \in Sale : invoice(s) = invoice(t) => s = t
  /\ \A s, t \in Sale : creditNote(s) = creditNote(t) => s = t
  /\ \A s \in Sale : invoice(s).reference = s /\ creditNote(s).reference = s
  /\ \A d \in Document : d.reference \in Sale /\
       (d = invoice(d.reference) \/ d = creditNote(d.reference))
PROOF BY SMT DEF Document, invoice, creditNote

(* A request that is not idle has a document.                              *)
LEMMA BusyFlow ==
  ASSUME FiscalTypeOK, NEW f \in Flow, flow[f] # idle
  PROVE  flow[f] \in Busy /\ flow[f].document \in Document
PROOF BY DEF FiscalTypeOK, Busy

(* An accepted save of the next version finds the row as it was read.      *)
LEMMA CurrentCopy ==
  ASSUME FiscalTypeOK, NEW d \in Document, NEW old \in Unissued, NEW new,
         new.version = old.version + 1, row[d].version >= old.version,
         accepts(d, new)
  PROVE  row[d] = old
PROOF
  <1>1. row[d] \in Row /\ row[d].status # "ISSUED"
    BY DEF FiscalTypeOK, accepts
  <1>2. row[d] \in Unissued
    BY <1>1 DEF Row
  <1>3. row[d].version \in Nat /\ old.version \in Nat
    BY <1>2 DEF Unissued, absent, pending, printing, inError
  <1>4. row[d].version = old.version
    BY <1>3 DEF accepts
  <1>5. QED
    BY <1>2, <1>4 DEF Unissued, absent, pending, printing, inError

-----------------------------------------------------------------------------
(* Steps of the rows.                                                      *)

(* StartPrinting stores only over the pending row that it read.            *)
LEMMA StartPrintingStep ==
  ASSUME FiscalInv, NEW f \in Flow, StartPrinting(f), NEW d \in Document
  PROVE  row'[d] = row[d] \/ Begun(d)
PROOF
  <1> DEFINE e == flow[f].document
             copy == started(flow[f].copy)
  <1>1. flow[f] # idle /\ flow[f].stage = "PREPARED"
    BY DEF StartPrinting, idle
  <1>2. e \in Document
    BY <1>1, BusyFlow DEF FiscalInv
  <1>3. flow[f].copy = pending /\ row[e].version >= pending.version
    BY <1>1 DEF FiscalInv, Sound, pending
  <1>4. copy = printing /\ copy.version = pending.version + 1 /\ pending \in Unissued
    BY <1>3 DEF started, moved, pending, printing, Unissued
  <1>5. CASE accepts(e, copy) /\ row' = [row EXCEPT ![e] = copy]
    <2>1. row[e] = pending
      BY <1>2, <1>3, <1>4, <1>5, CurrentCopy DEF FiscalInv
    <2>2. row \in [Document -> Row]
      BY DEF FiscalInv, FiscalTypeOK
    <2>3. QED
      BY <1>2, <1>4, <1>5, <2>1, <2>2 DEF Begun
  <1>6. CASE row' = row
    BY <1>6
  <1>7. QED
    BY <1>5, <1>6 DEF StartPrinting

(* RecordResult stores the device's answer over the row that was printing. *)
LEMMA RecordResultStep ==
  ASSUME FiscalInv, NEW f \in Flow, RecordResult(f), NEW d \in Document
  PROVE  row'[d] = row[d] \/ Failed(d) \/ Numbered(d)
PROOF
  <1> DEFINE e == flow[f].document
             n == flow[f].answer
             copy == IF n = None THEN failed(flow[f].copy) ELSE issued(flow[f].copy, n)
  <1>1. flow[f] # idle /\ flow[f].stage = "PRINTED"
    BY DEF RecordResult, idle
  <1>2. e \in Document /\ n \in Document \cup {None}
    BY <1>1, BusyFlow DEF FiscalInv, Busy
  <1>3. flow[f].copy = printing /\ row[e].version >= printing.version
    BY <1>1 DEF FiscalInv, Sound, printing
  <1>4. n # None => n = e /\ printed[n] > 0
    BY <1>1 DEF FiscalInv, Sound
  <1>5. copy.version = printing.version + 1 /\ printing \in Unissued
    BY <1>3 DEF failed, issued, moved, printing, Unissued
  <1>6. failed(printing) = inError
    BY DEF failed, moved, printing, inError
  <1>7. row' = IF accepts(e, copy) THEN [row EXCEPT ![e] = copy] ELSE row
    BY DEF RecordResult, persistLast
  <1>8. row \in [Document -> Row]
    BY DEF FiscalInv, FiscalTypeOK
  <1>9. CASE accepts(e, copy) /\ d = e
    <2>1. row[e] = printing
      BY <1>2, <1>3, <1>5, <1>9, CurrentCopy DEF FiscalInv
    <2>2. row'[e] = copy
      BY <1>2, <1>7, <1>8, <1>9
    <2>3. CASE n = None
      BY <1>3, <1>6, <1>9, <2>1, <2>2, <2>3 DEF Failed
    <2>4. CASE n # None
      <3>1. row'[e] = issued(row[e], n)
        BY <1>3, <2>1, <2>2, <2>4
      <3>2. n \in Document /\ n.reference = e.reference /\ printed[n] > 0
        BY <1>2, <1>4, <2>4
      <3>3. QED
        BY <1>9, <2>1, <3>1, <3>2 DEF Numbered
    <2>5. QED
      BY <2>3, <2>4
  <1>10. QED
    BY <1>2, <1>7, <1>8, <1>9

(* Conclude stores over the row that was read before asking the device.    *)
LEMMA ConcludeStep ==
  ASSUME FiscalInv, NEW f \in Flow, Conclude(f), NEW d \in Document
  PROVE  row'[d] = row[d] \/ Failed(d) \/ Numbered(d)
PROOF
  <1> DEFINE e == flow[f].document
             n == flow[f].answer
             copy == flow[f].copy
  <1>1. flow[f] # idle /\ flow[f].stage = "ANSWERED"
    BY DEF Conclude, idle
  <1>2. e \in Document /\ n \in Document \cup {None}
    BY <1>1, BusyFlow DEF FiscalInv, Busy
  <1>3. copy \in {pending, printing, inError} /\ row[e].version >= copy.version
    BY <1>1 DEF FiscalInv, Sound
  <1>4. row \in [Document -> Row]
    BY DEF FiscalInv, FiscalTypeOK
  <1>5. copy \in Unissued
    BY <1>3 DEF Unissued
  <1>6. CASE recognised(f) /\ copy.status # "PENDING" /\ persistLast(f, issued(copy, n))
    <2>1. issued(copy, n).version = copy.version + 1
      BY DEF issued, moved
    <2>2. copy \in {printing, inError}
      BY <1>3, <1>6 DEF pending
    <2>3. n \in Document /\ n.reference = e.reference /\ printed[n] > 0
      BY <1>2, <1>6 DEF recognised, FiscalInv, Sound
    <2>4. CASE accepts(e, issued(copy, n)) /\ d = e
      <3>1. row[e] = copy
        BY <1>2, <1>3, <1>5, <2>1, <2>4, CurrentCopy DEF FiscalInv
      <3>2. row'[e] = issued(row[e], n)
        BY <1>2, <1>4, <1>6, <2>4, <3>1 DEF persistLast
      <3>3. QED
        BY <2>2, <2>3, <2>4, <3>1, <3>2 DEF Numbered
    <2>5. QED
      BY <1>2, <1>4, <1>6, <2>4 DEF persistLast
  <1>7. CASE copy.status = "PRINTING" /\ persistLast(f, failed(copy))
    <2>1. copy = printing /\ failed(copy) = inError
      BY <1>3, <1>7 DEF pending, printing, inError, failed, moved
    <2>2. inError.version = copy.version + 1
      BY <2>1 DEF printing, inError
    <2>3. CASE accepts(e, inError) /\ d = e
      <3>1. row[e] = copy
        BY <1>2, <1>3, <1>5, <2>2, <2>3, CurrentCopy DEF FiscalInv
      <3>2. row'[e] = inError
        BY <1>2, <1>4, <1>7, <2>1, <2>3 DEF persistLast
      <3>3. QED
        BY <2>1, <2>3, <3>1, <3>2 DEF Failed
    <2>4. QED
      BY <1>2, <1>4, <1>7, <2>1, <2>3 DEF persistLast
  <1>8. CASE row' = row
    BY <1>8
  <1>9. QED
    BY <1>6, <1>7, <1>8 DEF Conclude

(* Every step of the system changes a row in one of the four ways.         *)
LEMMA RowsAdvance ==
  ASSUME FiscalInv, [FiscalNext]_fiscalVars, NEW d \in Document
  PROVE  row'[d] = row[d] \/ RowStep(d)
PROOF
  <1>1. row \in [Document -> Row]
    BY DEF FiscalInv, FiscalTypeOK
  <1>2. ASSUME NEW f \in Flow, NEW s \in Sale, IssueFiscalDocument(f, s)
        PROVE  row'[d] = row[d] \/ Created(d)
    <2>1. invoice(s) \in Document
      BY DocumentKinds
    <2>2. QED
      BY <1>1, <1>2, <2>1 DEF IssueFiscalDocument, Created
  <1>3. ASSUME NEW f \in Flow, NEW s \in Sale, RegisterReturn(f, s)
        PROVE  row'[d] = row[d] \/ Created(d)
    <2>1. creditNote(s) \in Document
      BY DocumentKinds
    <2>2. QED
      BY <1>1, <1>3, <2>1 DEF RegisterReturn, Created
  <1>4. ASSUME NEW f \in Flow,
               \/ StartPrinting(f) \/ RecordResult(f) \/ Conclude(f)
        PROVE  row'[d] = row[d] \/ RowStep(d)
    BY <1>4, StartPrintingStep, RecordResultStep, ConcludeStep DEF RowStep
  <1>5. ASSUME NEW f \in Flow,
               \/ \E e \in Document : ReconcileFiscalState(f, e)
               \/ PrintDocument(f) \/ IssueCreditNote(f) \/ GetStatus(f) \/ RequestFails(f)
        PROVE  row' = row
    BY <1>5 DEF ReconcileFiscalState, PrintDocument, IssueCreditNote, GetStatus, RequestFails
  <1>6. CASE Restart
    BY <1>6 DEF Restart
  <1>7. CASE UNCHANGED fiscalVars
    BY <1>7 DEF fiscalVars
  <1>8. QED
    BY <1>2, <1>3, <1>4, <1>5, <1>6, <1>7 DEF FiscalNext, FlowStep, RowStep

(* A step leaves the rows alone or replaces one of them.                   *)
LEMMA OneRowReplaced ==
  ASSUME [FiscalNext]_fiscalVars
  PROVE  row' = row \/ \E x, y : row' = [row EXCEPT ![x] = y]
PROOF
  <1>1. ASSUME NEW f \in Flow, FlowStep(f)
        PROVE  row' = row \/ \E x, y : row' = [row EXCEPT ![x] = y]
    <2>1. ASSUME NEW s \in Sale, IssueFiscalDocument(f, s) \/ RegisterReturn(f, s)
          PROVE  row' = row \/ \E x, y : row' = [row EXCEPT ![x] = y]
      BY <2>1 DEF IssueFiscalDocument, RegisterReturn
    <2>2. CASE StartPrinting(f)
      BY <2>2 DEF StartPrinting
    <2>3. CASE RecordResult(f)
      BY <2>3 DEF RecordResult, persistLast
    <2>4. CASE Conclude(f)
      BY <2>4 DEF Conclude, persistLast
    <2>5. CASE \/ \E x \in Document : ReconcileFiscalState(f, x)
               \/ PrintDocument(f) \/ IssueCreditNote(f) \/ GetStatus(f) \/ RequestFails(f)
      BY <2>5 DEF ReconcileFiscalState, PrintDocument, IssueCreditNote, GetStatus, RequestFails
    <2>6. QED
      BY <1>1, <2>1, <2>2, <2>3, <2>4, <2>5 DEF FlowStep
  <1>2. QED
    BY <1>1 DEF FiscalNext, Restart, fiscalVars

LEMMA OneRowAtATime ==
  ASSUME FiscalInv, [FiscalNext]_fiscalVars,
         NEW d \in Document, NEW e \in Document,
         row'[d] # row[d], row'[e] # row[e]
  PROVE  d = e
PROOF
  <1>1. row \in [Document -> Row]
    BY DEF FiscalInv, FiscalTypeOK
  <1>2. QED
    BY <1>1, OneRowReplaced

(* The device only changes when a request that is printing calls it.       *)
LEMMA DeviceStep ==
  ASSUME [FiscalNext]_fiscalVars
  PROVE  Rests \/ \E f \in Flow : Commits(f) /\ PrintDocument(f)
PROOF
  <1>1. ASSUME NEW f \in Flow, FlowStep(f)
        PROVE  Rests \/ (Commits(f) /\ PrintDocument(f))
    <2>1. CASE PrintDocument(f)
      BY <2>1 DEF PrintDocument, Commits, Rests
    <2>2. CASE ~PrintDocument(f)
      BY <1>1, <2>2 DEF FlowStep, Rests, IssueFiscalDocument, RegisterReturn,
         ReconcileFiscalState, StartPrinting, RecordResult, IssueCreditNote, GetStatus,
         Conclude, RequestFails
    <2>3. QED
      BY <2>1, <2>2
  <1>2. CASE Restart
    BY <1>2 DEF Restart, Rests
  <1>3. CASE UNCHANGED fiscalVars
    BY <1>3 DEF fiscalVars, Rests
  <1>4. QED
    BY <1>1, <1>2, <1>3 DEF FiscalNext

-----------------------------------------------------------------------------
(* What follows from the steps of the rows and of the device alone.        *)

(* Versions grow, an issued row stays, and rows keep their type.           *)
LEMMA RowsGrow ==
  ASSUME FiscalInv, [FiscalNext]_fiscalVars, NEW d \in Document
  PROVE  /\ row[d].version \in Nat /\ row'[d].version \in Nat
         /\ row'[d] \in Row
         /\ row'[d].version >= row[d].version
         /\ row[d].status = "ISSUED" => row'[d] = row[d]
         /\ row'[d] # row[d] => row'[d].version = row[d].version + 1
PROOF
  <1>1. row[d] \in Row
    BY DEF FiscalInv, FiscalTypeOK
  <1>2. row[d].version \in Nat
    BY <1>1 DEF Row, Unissued, absent, pending, printing, inError
  <1>3. CASE row'[d] = row[d]
    BY <1>1, <1>2, <1>3
  <1>4. CASE Created(d) \/ Begun(d) \/ Failed(d)
    BY <1>4 DEF Created, Begun, Failed, Row, Unissued, absent, pending, printing, inError
  <1>5. CASE Numbered(d)
    <2>1. PICK n \in Document : row[d] \in {printing, inError} /\ row'[d] = issued(row[d], n)
      BY <1>5 DEF Numbered
    <2>2. row[d].version \in {2, 3} /\ row[d].status # "ISSUED"
      BY <2>1 DEF printing, inError
    <2>3. row'[d] = [status |-> "ISSUED", version |-> row[d].version + 1, number |-> n]
      BY <2>1 DEF issued, moved
    <2>4. row'[d] \in Row /\ row'[d].version = row[d].version + 1
      BY <2>2, <2>3 DEF Row
    <2>5. QED
      BY <1>2, <2>2, <2>4
  <1>6. QED
    BY <1>3, <1>4, <1>5, RowsAdvance DEF RowStep

(* Only the document of the request that prints is counted, once more.     *)
LEMMA PrintedGrows ==
  ASSUME FiscalInv, [FiscalNext]_fiscalVars
  PROVE  /\ printed' \in [Document -> Nat]
         /\ last' \in Document \cup {None}
         /\ \A d \in Document : printed'[d] >= printed[d]
PROOF
  <1>1. printed \in [Document -> Nat] /\ last \in Document \cup {None}
    BY DEF FiscalInv, FiscalTypeOK
  <1>2. CASE Rests
    BY <1>1, <1>2 DEF Rests
  <1>3. ASSUME NEW f \in Flow, Commits(f)
        PROVE  /\ printed' \in [Document -> Nat]
               /\ last' \in Document
               /\ \A d \in Document : printed'[d] >= printed[d]
    <2>1. flow[f].document \in Document
      BY <1>3, BusyFlow DEF Commits, idle, FiscalInv
    <2>2. QED
      BY <1>1, <1>3, <2>1 DEF Commits
  <1>4. QED
    BY <1>2, <1>3, DeviceStep

(* Numbers and printings of documents, from those steps.                   *)
LEMMA DocumentsPreserved ==
  ASSUME FiscalInv, [FiscalNext]_fiscalVars
  PROVE  /\ PrintedIsStored'
         /\ PrintedOnce'
         /\ LastWasPrinted'
PROOF
  <1>1. printed \in [Document -> Nat]
    BY DEF FiscalInv, FiscalTypeOK
  <1>2. None \notin Document
    BY FiscalConstants
  <1>3. CASE Rests
    <2>1. PrintedIsStored'
      BY <1>1, <1>3, RowsGrow DEF Rests, FiscalInv, PrintedIsStored
    <2>2. QED
      BY <1>3, <2>1 DEF Rests, FiscalInv, PrintedOnce, LastWasPrinted
  <1>4. ASSUME NEW f \in Flow, Commits(f)
        PROVE  PrintedIsStored' /\ PrintedOnce' /\ LastWasPrinted'
    <2> DEFINE e == flow[f].document
    <2>1. e \in Document /\ flow[f].stage = "PRINTING"
      BY <1>4, BusyFlow DEF Commits, idle, FiscalInv
    <2>2. printed[e] = 0 /\ row[e].version >= 2
      BY <2>1 DEF FiscalInv, Sound
    <2>3. last' = e /\ printed' = [printed EXCEPT ![e] = printed[e] + 1]
      BY <1>4 DEF Commits
    <2>4. PrintedIsStored'
      BY <1>1, <2>1, <2>2, <2>3, RowsGrow DEF FiscalInv, PrintedIsStored
    <2>5. PrintedOnce'
      BY <1>1, <2>1, <2>2, <2>3 DEF FiscalInv, PrintedOnce
    <2>6. LastWasPrinted'
      BY <1>1, <2>1, <2>2, <2>3 DEF LastWasPrinted
    <2>7. QED
      BY <2>4, <2>5, <2>6
  <1>5. QED
    BY <1>3, <1>4, DeviceStep

(* Invoices and notes, from those steps: a note has its invoice, one       *)
(* invoice is active, and an invoice takes only its own number.            *)
LEMMA InvoicesPreserved ==
  ASSUME FiscalInv, [FiscalNext]_fiscalVars
  PROVE  NoteAfterInvoice' /\ OneInvoiceAtATime' /\ InvoiceNumberIsOwn'
PROOF
  <1>1. \A s \in Sale : invoice(s) \in Document /\ creditNote(s) \in Document
    BY DocumentKinds
  <1>2. \A s \in Sale : invoiced(s) => row'[invoice(s)] = row[invoice(s)]
    BY <1>1, RowsGrow DEF invoiced
  <1>3. NoteAfterInvoice'
    <2> SUFFICES ASSUME NEW s \in Sale, row'[creditNote(s)] # absent
                 PROVE  invoiced(s)
      BY <1>2 DEF NoteAfterInvoice, invoiced
    <2>1. CASE row[creditNote(s)] # absent
      BY <2>1 DEF FiscalInv, NoteAfterInvoice
    <2>2. CASE row[creditNote(s)] = absent
      <3>1. Created(creditNote(s))
        BY <1>1, <2>2, RowsAdvance
           DEF RowStep, Begun, Failed, Numbered, absent, pending, printing, inError
      <3>2. PICK t \in Sale : creditNote(s) = creditNote(t) /\ invoiced(t)
        BY <3>1, DocumentKinds DEF Created
      <3>3. QED
        BY <3>2, DocumentKinds
    <2>3. QED
      BY <2>1, <2>2
  <1>4. ASSUME NEW s \in Sale, row'[invoice(s)].status \in Active,
               row[invoice(s)].status \notin Active
        PROVE  noneActive
    <2>1. row'[invoice(s)] # row[invoice(s)]
      BY <1>4
    <2>2. ~Begun(invoice(s)) /\ ~Failed(invoice(s))
      BY <1>4 DEF Begun, Failed, Active, pending, printing
    <2>3. ~Numbered(invoice(s))
      BY <1>4 DEF Numbered, Active, printing, inError
    <2>4. Created(invoice(s))
      BY <1>1, <2>1, <2>2, <2>3, RowsAdvance DEF RowStep
    <2>5. QED
      BY <2>4, DocumentKinds DEF Created
  <1>5. OneInvoiceAtATime'
    <2> SUFFICES ASSUME NEW s \in Sale, NEW t \in Sale,
                        row'[invoice(s)].status \in Active,
                        row'[invoice(t)].status \in Active, s # t
                 PROVE  FALSE
      BY DEF OneInvoiceAtATime
    <2>1. row[invoice(s)].status \notin Active \/ row[invoice(t)].status \notin Active
      BY DEF FiscalInv, OneInvoiceAtATime
    <2>2. noneActive
      BY <1>4, <2>1
    <2>3. row[invoice(s)].status \notin Active /\ row[invoice(t)].status \notin Active
      BY <1>1, <2>2 DEF noneActive
    <2>4. row'[invoice(s)] # row[invoice(s)] /\ row'[invoice(t)] # row[invoice(t)]
      BY <2>3
    <2>5. QED
      BY <1>1, <2>4, DocumentKinds, OneRowAtATime
  <1>6. InvoiceNumberIsOwn'
    <2> SUFFICES ASSUME NEW s \in Sale, row'[invoice(s)].status = "ISSUED"
                 PROVE  printed'[invoice(s)] > 0 /\ row'[invoice(s)].number = invoice(s)
      BY DEF InvoiceNumberIsOwn, invoiced
    <2>1. printed \in [Document -> Nat] /\ printed'[invoice(s)] \in Nat
          /\ printed'[invoice(s)] >= printed[invoice(s)]
      BY <1>1, PrintedGrows DEF FiscalInv, FiscalTypeOK
    <2>2. CASE invoiced(s)
      BY <1>1, <1>2, <2>1, <2>2 DEF FiscalInv, InvoiceNumberIsOwn
    <2>3. CASE ~invoiced(s)
      <3>1. row'[invoice(s)] # row[invoice(s)]
        BY <2>3 DEF invoiced
      <3>2. ~Created(invoice(s)) /\ ~Begun(invoice(s)) /\ ~Failed(invoice(s))
        BY DEF Created, Begun, Failed, pending, printing, inError
      <3>3. Numbered(invoice(s))
        BY <1>1, <3>1, <3>2, RowsAdvance DEF RowStep
      <3>4. PICK n \in Document : /\ row'[invoice(s)] = issued(row[invoice(s)], n)
                                  /\ n.reference = invoice(s).reference
                                  /\ printed[n] > 0
        BY <3>3 DEF Numbered
      <3>5. n = invoice(s) \/ n = creditNote(s)
        BY <3>4, DocumentKinds
      <3>6. n # creditNote(s)
        <4>1. SUFFICES ASSUME n = creditNote(s) PROVE FALSE
          OBVIOUS
        <4>2. row[creditNote(s)].version >= 2
          BY <1>1, <3>4, <4>1 DEF FiscalInv, PrintedIsStored
        <4>3. row[creditNote(s)] # absent
          BY <4>2 DEF absent
        <4>4. QED
          BY <2>3, <4>3 DEF FiscalInv, NoteAfterInvoice
      <3>7. row'[invoice(s)].number = n
        BY <3>4 DEF issued, moved
      <3>8. QED
        BY <1>1, <2>1, <3>4, <3>5, <3>6, <3>7
    <2>4. QED
      BY <2>2, <2>3
  <1>7. QED
    BY <1>3, <1>5, <1>6

-----------------------------------------------------------------------------
(* Steps of the requests.                                                  *)

Stages == {"REGISTERED", "PREPARED", "PRINTING", "PRINTED", "ASKING", "ANSWERED"}
Flows == [Flow -> Busy \cup {idle}]
OthersStay(f) == \A g \in Flow \ {f} : flow'[g] = flow[g]
Moves(f) == flow' \in Flows /\ OthersStay(f) /\ Sound(f)'

LEMMA Continues ==
  ASSUME flow \in Flows, NEW f \in Flow, NEW stage \in Stages, NEW d \in Document,
         NEW copy \in Unissued, NEW answer \in Document \cup {None},
         continue(f, stage, d, copy, answer)
  PROVE  /\ flow' \in Flows /\ OthersStay(f)
         /\ flow'[f].stage = stage /\ flow'[f].document = d
         /\ flow'[f].copy = copy /\ flow'[f].answer = answer
PROOF
  <1> DEFINE w == [stage |-> stage, document |-> d, copy |-> copy, answer |-> answer]
  <1>1. w \in Busy
    BY DEF Busy, Stages
  <1>2. flow' = [flow EXCEPT ![f] = w]
    BY DEF continue
  <1>3. flow' \in Flows /\ OthersStay(f) /\ flow'[f] = w
    BY <1>1, <1>2 DEF Flows, OthersStay
  <1>4. QED
    BY <1>3

LEMMA Finishes ==
  ASSUME flow \in Flows, NEW f \in Flow, finish(f)
  PROVE  Moves(f) /\ flow'[f] = idle
PROOF
  <1>1. flow' \in Flows /\ OthersStay(f) /\ flow'[f] = idle
    BY DEF finish, Flows, OthersStay
  <1>2. Sound(f)'
    BY <1>1 DEF Sound, idle
  <1>3. QED
    BY <1>1, <1>2 DEF Moves

(* A document with status PENDING, in a row or in memory, is `pending`.    *)
LEMMA PendingRow ==
  ASSUME FiscalTypeOK, NEW d \in Document, row[d].status = "PENDING"
  PROVE  row[d] = pending
PROOF
  <1>1. row[d] \in Row
    BY DEF FiscalTypeOK
  <1>2. QED
    BY <1>1 DEF Row, Unissued, absent, pending, printing, inError

LEMMA OpeningMoves ==
  ASSUME FiscalInv, NEW f \in Flow, NEW s \in Sale,
         IssueFiscalDocument(f, s) \/ RegisterReturn(f, s)
  PROVE  Moves(f) /\ flow'[f].stage # "PRINTING"
PROOF
  <1>1. flow \in Flows /\ row \in [Document -> Row] /\ absent \in Unissued /\ pending \in Unissued
    BY DEF FiscalInv, FiscalTypeOK, Flows, Unissued
  <1>2. invoice(s) \in Document /\ creditNote(s) \in Document
    BY DocumentKinds
  <1>3. CASE IssueFiscalDocument(f, s)
    <2>1. continue(f, "PREPARED", invoice(s), pending, None)
      BY <1>3 DEF IssueFiscalDocument
    <2>2. /\ flow' \in Flows /\ OthersStay(f)
          /\ flow'[f].stage = "PREPARED" /\ flow'[f].document = invoice(s)
          /\ flow'[f].copy = pending /\ flow'[f].answer = None
      BY <1>1, <1>2, <2>1, Continues DEF Stages
    <2>3. row'[invoice(s)] = pending
      BY <1>1, <1>2, <1>3, PendingRow DEF IssueFiscalDocument, FiscalInv
    <2>4. Sound(f)'
      BY <2>2, <2>3 DEF Sound, pending
    <2>5. QED
      BY <2>2, <2>4 DEF Moves
  <1>4. CASE RegisterReturn(f, s)
    <2>1. continue(f, "REGISTERED", creditNote(s), absent, None)
      BY <1>4 DEF RegisterReturn
    <2>2. /\ flow' \in Flows /\ OthersStay(f)
          /\ flow'[f].stage = "REGISTERED" /\ flow'[f].answer = None
      BY <1>1, <1>2, <2>1, Continues DEF Stages
    <2>3. Sound(f)'
      BY <2>2 DEF Sound
    <2>4. QED
      BY <2>2, <2>3 DEF Moves
  <1>5. QED
    BY <1>3, <1>4

(* A request that starts printing found its document pending, hence never  *)
(* printed and in nobody else's hands.                                     *)
LEMMA StartPrintingMoves ==
  ASSUME FiscalInv, NEW f \in Flow, StartPrinting(f)
  PROVE  /\ Moves(f)
         /\ flow'[f].stage = "PRINTING" =>
              flow'[f].document \in Document /\ row[flow'[f].document] = pending
PROOF
  <1> DEFINE e == flow[f].document
             copy == started(flow[f].copy)
  <1>1. flow \in Flows /\ row \in [Document -> Row] /\ printed \in [Document -> Nat]
    BY DEF FiscalInv, FiscalTypeOK, Flows
  <1>2. flow[f] # idle /\ flow[f].stage = "PREPARED"
    BY DEF StartPrinting, idle
  <1>3. e \in Document
    BY <1>2, BusyFlow DEF FiscalInv
  <1>4. flow[f].copy = pending /\ row[e].version >= pending.version
    BY <1>2 DEF FiscalInv, Sound, pending
  <1>5. copy = printing /\ copy.version = pending.version + 1
        /\ pending \in Unissued /\ printing \in Unissued
    BY <1>4 DEF started, moved, pending, printing, Unissued
  <1>6. CASE finish(f)
    BY <1>1, <1>6, Finishes DEF idle
  <1>7. CASE accepts(e, copy) /\ row' = [row EXCEPT ![e] = copy]
             /\ continue(f, "PRINTING", e, copy, None) /\ printed' = printed
    <2>1. row[e] = pending
      BY <1>3, <1>4, <1>5, <1>7, CurrentCopy DEF FiscalInv
    <2>2. printed[e] = 0
      BY <1>1, <1>3, <2>1 DEF FiscalInv, PrintedIsStored, pending
    <2>3. row'[e].version = 2
      BY <1>1, <1>3, <1>5, <1>7 DEF printing
    <2>4. /\ flow' \in Flows /\ OthersStay(f)
          /\ flow'[f].stage = "PRINTING" /\ flow'[f].document = e
          /\ flow'[f].copy = printing /\ flow'[f].answer = None
      BY <1>1, <1>3, <1>5, <1>7, Continues DEF Stages
    <2>5. Sound(f)'
      BY <1>7, <2>2, <2>3, <2>4 DEF Sound
    <2>6. QED
      BY <1>3, <2>1, <2>4, <2>5 DEF Moves
  <1>8. QED
    BY <1>6, <1>7 DEF StartPrinting

LEMMA PrintDocumentMoves ==
  ASSUME FiscalInv, NEW f \in Flow, PrintDocument(f)
  PROVE  Moves(f) /\ flow'[f].stage = "PRINTED"
PROOF
  <1> DEFINE e == flow[f].document
  <1>1. flow \in Flows /\ printed \in [Document -> Nat]
    BY DEF FiscalInv, FiscalTypeOK, Flows
  <1>2. flow[f] # idle /\ flow[f].stage = "PRINTING"
    BY DEF PrintDocument, idle
  <1>3. e \in Document
    BY <1>2, BusyFlow DEF FiscalInv
  <1>4. flow[f].copy = printing /\ row[e].version >= 2 /\ printing \in Unissued
    BY <1>2 DEF FiscalInv, Sound, Unissued
  <1>5. row' = row
    BY DEF PrintDocument
  <1>6. PICK answer \in {e, None} :
          /\ continue(f, "PRINTED", e, printing, answer)
          /\ answer = e => printed' = [printed EXCEPT ![e] = @ + 1]
    BY <1>3, <1>4, FiscalConstants DEF PrintDocument
  <1>7. /\ flow' \in Flows /\ OthersStay(f)
        /\ flow'[f].stage = "PRINTED" /\ flow'[f].document = e
        /\ flow'[f].copy = printing /\ flow'[f].answer = answer
    BY <1>1, <1>3, <1>4, <1>6, Continues DEF Stages
  <1>8. answer # None => answer = e /\ printed'[e] > 0
    BY <1>1, <1>3, <1>6
  <1>9. Sound(f)'
    BY <1>4, <1>5, <1>7, <1>8 DEF Sound
  <1>10. QED
    BY <1>7, <1>9 DEF Moves

(* Loading a document and asking the device.                               *)
LEMMA ReadingMoves ==
  ASSUME FiscalInv, NEW f \in Flow,
         \/ IssueCreditNote(f) \/ GetStatus(f)
         \/ \E d \in Document : ReconcileFiscalState(f, d)
  PROVE  Moves(f) /\ flow'[f].stage # "PRINTING"
PROOF
  <1> DEFINE e == flow[f].document
  <1>1. flow \in Flows /\ row \in [Document -> Row] /\ last \in Document \cup {None}
    BY DEF FiscalInv, FiscalTypeOK, Flows
  <1>2. CASE finish(f)
    BY <1>1, <1>2, Finishes DEF idle
  <1>3. CASE IssueCreditNote(f) /\ ~finish(f)
    <2>1. flow[f] # idle /\ e \in Document
      BY <1>3, BusyFlow DEF IssueCreditNote, idle, FiscalInv
    <2>2. row[e] = pending /\ continue(f, "PREPARED", e, pending, None) /\ row' = row
      BY <1>3, <2>1, PendingRow DEF IssueCreditNote, FiscalInv
    <2>3. pending \in Unissued
      BY DEF Unissued
    <2>4. /\ flow' \in Flows /\ OthersStay(f)
          /\ flow'[f].stage = "PREPARED" /\ flow'[f].document = e
          /\ flow'[f].copy = pending /\ flow'[f].answer = None
      BY <1>1, <2>1, <2>2, <2>3, Continues DEF Stages
    <2>5. Sound(f)'
      BY <2>2, <2>4 DEF Sound, pending
    <2>6. QED
      BY <2>4, <2>5 DEF Moves
  <1>4. CASE GetStatus(f) /\ ~finish(f)
    <2>1. flow[f] # idle /\ flow[f].stage = "ASKING"
      BY <1>4 DEF GetStatus, idle
    <2>2. e \in Document
      BY <2>1, BusyFlow DEF FiscalInv
    <2>3. flow[f].copy \in {pending, printing, inError} /\ row[e].version >= flow[f].copy.version
      BY <2>1 DEF FiscalInv, Sound
    <2>4. continue(f, "ANSWERED", e, flow[f].copy, last) /\ row' = row /\ printed' = printed
      BY <1>4 DEF GetStatus
    <2>5. flow[f].copy \in Unissued
      BY <2>3 DEF Unissued
    <2>6. /\ flow' \in Flows /\ OthersStay(f)
          /\ flow'[f].stage = "ANSWERED" /\ flow'[f].document = e
          /\ flow'[f].copy = flow[f].copy /\ flow'[f].answer = last
      BY <1>1, <2>2, <2>4, <2>5, Continues DEF Stages
    <2>7. Sound(f)'
      BY <2>3, <2>4, <2>6 DEF Sound, FiscalInv, LastWasPrinted
    <2>8. QED
      BY <2>6, <2>7 DEF Moves
  <1>5. ASSUME NEW d \in Document, ReconcileFiscalState(f, d)
        PROVE  Moves(f) /\ flow'[f].stage # "PRINTING"
    <2>1. row[d] \in Row /\ row[d].status \in Active /\ row' = row
      BY <1>1, <1>5 DEF ReconcileFiscalState
    <2>2. row[d] \in {pending, printing, inError}
      BY <2>1 DEF Row, Unissued, Active, absent
    <2>3. row[d] \in Unissued /\ row[d].version \in Nat
      BY <2>2 DEF Unissued, pending, printing, inError
    <2>4. continue(f, "ASKING", d, row[d], None)
      BY <1>5 DEF ReconcileFiscalState
    <2>5. /\ flow' \in Flows /\ OthersStay(f)
          /\ flow'[f].stage = "ASKING" /\ flow'[f].document = d
          /\ flow'[f].copy = row[d] /\ flow'[f].answer = None
      BY <1>1, <2>3, <2>4, Continues DEF Stages
    <2>6. Sound(f)'
      BY <2>1, <2>2, <2>3, <2>5 DEF Sound
    <2>7. QED
      BY <2>5, <2>6 DEF Moves
  <1>6. QED
    BY <1>2, <1>3, <1>4, <1>5

LEMMA ClosingMoves ==
  ASSUME FiscalInv, NEW f \in Flow, RecordResult(f) \/ Conclude(f) \/ RequestFails(f)
  PROVE  Moves(f) /\ flow'[f].stage # "PRINTING"
PROOF
  <1> DEFINE e == flow[f].document
             copy == flow[f].copy
  <1>1. flow \in Flows /\ row \in [Document -> Row]
    BY DEF FiscalInv, FiscalTypeOK, Flows
  <1>2. CASE finish(f)
    BY <1>1, <1>2, Finishes DEF idle
  <1>3. CASE ~finish(f)
    <2>1. /\ Conclude(f) /\ copy.status = "PENDING"
          /\ continue(f, "PREPARED", e, copy, None) /\ row' = row
      BY <1>3 DEF RecordResult, RequestFails, Conclude, persistLast
    <2>2. flow[f] # idle /\ flow[f].stage = "ANSWERED"
      BY <2>1 DEF Conclude, idle
    <2>3. e \in Document
      BY <2>2, BusyFlow DEF FiscalInv
    <2>4. copy = pending /\ row[e].version >= 1 /\ pending \in Unissued
      BY <2>1, <2>2 DEF FiscalInv, Sound, pending, printing, inError, Unissued
    <2>5. /\ flow' \in Flows /\ OthersStay(f)
          /\ flow'[f].stage = "PREPARED" /\ flow'[f].document = e
          /\ flow'[f].copy = pending /\ flow'[f].answer = None
      BY <1>1, <2>1, <2>3, <2>4, Continues DEF Stages
    <2>6. Sound(f)'
      BY <2>1, <2>4, <2>5 DEF Sound
    <2>7. QED
      BY <2>5, <2>6 DEF Moves
  <1>4. QED
    BY <1>2, <1>3

(* The requests that a step leaves alone still know what they knew.        *)
LEMMA BystandersStaySound ==
  ASSUME FiscalInv, [FiscalNext]_fiscalVars, NEW g \in Flow, flow'[g] = flow[g]
  PROVE  Sound(g)'
PROOF
  <1> DEFINE e == flow[g].document
  <1>1. flow[g] \in Busy \cup {idle}
    BY DEF FiscalInv, FiscalTypeOK
  <1>2. CASE flow[g] = idle
    BY <1>2 DEF Sound, idle
  <1>3. CASE flow[g] \in Busy
    <2>1. e \in Document /\ flow[g].answer \in Document \cup {None} /\ flow[g].copy \in Unissued
      BY <1>3 DEF Busy
    <2>2. Sound(g) /\ flow[g].copy.version \in Nat
      BY <2>1 DEF FiscalInv, Unissued, absent, pending, printing, inError
    <2>3. /\ row[e].version \in Nat /\ row'[e].version \in Nat
          /\ row'[e].version >= row[e].version
      BY <2>1, RowsGrow
    <2>4. flow[g].answer # None => printed'[flow[g].answer] > 0
      <3>1. printed \in [Document -> Nat] /\ printed' \in [Document -> Nat]
            /\ \A d \in Document : printed'[d] >= printed[d]
        BY PrintedGrows DEF FiscalInv, FiscalTypeOK
      <3>2. QED
        BY <2>1, <2>2, <3>1 DEF Sound
    <2>5. flow[g].stage = "PRINTING" => printed'[e] = 0
      <3>1. SUFFICES ASSUME flow[g].stage = "PRINTING" PROVE printed'[e] = 0
        OBVIOUS
      <3>2. printed[e] = 0 /\ printed \in [Document -> Nat]
        BY <2>2, <3>1 DEF Sound, FiscalInv, FiscalTypeOK
      <3>3. CASE Rests
        BY <3>2, <3>3 DEF Rests
      <3>4. ASSUME NEW f \in Flow, Commits(f), PrintDocument(f)
            PROVE  printed'[e] = 0
        <4>1. f # g
          BY <3>1, <3>4, PrintDocumentMoves
        <4>2. flow[f].document # e
          BY <3>1, <3>4, <4>1 DEF Commits, FiscalInv, OnePrinting
        <4>3. flow[f].document \in Document
          BY <3>4, BusyFlow DEF Commits, idle, FiscalInv
        <4>4. QED
          BY <2>1, <3>2, <3>4, <4>2, <4>3 DEF Commits
      <3>5. QED
        BY <3>3, <3>4, DeviceStep
    <2>6. QED
      BY <2>2, <2>3, <2>4, <2>5 DEF Sound
  <1>4. QED
    BY <1>1, <1>2, <1>3

LEMMA FlowsPreserved ==
  ASSUME FiscalInv, [FiscalNext]_fiscalVars
  PROVE  flow' \in Flows /\ (\A f \in Flow : Sound(f)') /\ OnePrinting'
PROOF
  <1>1. flow \in Flows
    BY DEF FiscalInv, FiscalTypeOK, Flows
  <1>2. ASSUME NEW f \in Flow, FlowStep(f)
        PROVE  flow' \in Flows /\ (\A g \in Flow : Sound(g)') /\ OnePrinting'
    <2>1. /\ Moves(f)
          /\ flow'[f].stage = "PRINTING" =>
               flow'[f].document \in Document /\ row[flow'[f].document] = pending
      BY <1>2, OpeningMoves, StartPrintingMoves, PrintDocumentMoves, ReadingMoves, ClosingMoves
         DEF FlowStep
    <2>2. \A g \in Flow : Sound(g)'
      BY <2>1, BystandersStaySound DEF Moves, OthersStay
    <2>3. ASSUME NEW g \in Flow, g # f,
                 flow'[f].stage = "PRINTING", flow'[g].stage = "PRINTING",
                 flow'[f].document = flow'[g].document
          PROVE  FALSE
      <3>1. flow'[g] = flow[g]
        BY <2>1, <2>3 DEF Moves, OthersStay
      <3>2. row[flow[g].document].version >= 2
        BY <2>3, <3>1 DEF FiscalInv, Sound
      <3>3. row[flow[g].document] = pending
        BY <2>1, <2>3, <3>1
      <3>4. QED
        BY <3>2, <3>3 DEF pending
    <2>4. OnePrinting'
      <3> SUFFICES ASSUME NEW g \in Flow, NEW h \in Flow,
                          flow'[g].stage = "PRINTING", flow'[h].stage = "PRINTING",
                          flow'[g].document = flow'[h].document, g # h
                   PROVE  FALSE
        BY DEF OnePrinting
      <3>1. CASE g = f \/ h = f
        BY <2>3, <3>1
      <3>2. CASE g # f /\ h # f
        BY <2>1, <3>2 DEF Moves, OthersStay, FiscalInv, OnePrinting
      <3>3. QED
        BY <3>1, <3>2
    <2>5. QED
      BY <2>1, <2>2, <2>4 DEF Moves
  <1>3. CASE Restart
    <2>1. flow' = [f \in Flow |-> idle]
      BY <1>3 DEF Restart
    <2>2. QED
      BY <2>1 DEF Flows, Sound, OnePrinting, idle
  <1>4. CASE UNCHANGED fiscalVars
    BY <1>1, <1>4, BystandersStaySound DEF fiscalVars, FiscalInv, OnePrinting
  <1>5. QED
    BY <1>2, <1>3, <1>4 DEF FiscalNext

LEMMA FaultsPreserved ==
  ASSUME FiscalInv, [FiscalNext]_fiscalVars
  PROVE  faults' \in 0..MaxFaults
PROOF
  <1>1. faults \in 0..MaxFaults /\ MaxFaults \in Nat
    BY FiscalConstants DEF FiscalInv, FiscalTypeOK
  <1>2. ASSUME Fault PROVE faults' \in 0..MaxFaults
    BY <1>1, <1>2 DEF Fault
  <1>3. ASSUME NEW f \in Flow, FlowStep(f) PROVE Fault \/ faults' = faults
    BY <1>3 DEF FlowStep, IssueFiscalDocument, RegisterReturn, ReconcileFiscalState,
       StartPrinting, PrintDocument, RecordResult, IssueCreditNote, GetStatus, Conclude,
       RequestFails
  <1>4. QED
    BY <1>1, <1>2, <1>3 DEF FiscalNext, Restart, fiscalVars

-----------------------------------------------------------------------------
LEMMA FiscalInitial == FiscalInit => FiscalInv
PROOF
  <1> SUFFICES ASSUME FiscalInit PROVE FiscalInv
    OBVIOUS
  <1>1. MaxFaults \in Nat /\ absent \in Row /\ absent.status = "ABSENT"
    BY FiscalConstants DEF Row, Unissued, absent
  <1>2. FiscalTypeOK
    BY <1>1 DEF FiscalInit, FiscalTypeOK
  <1>3. \A s \in Sale : row[invoice(s)] = absent /\ row[creditNote(s)] = absent
    BY DocumentKinds DEF FiscalInit
  <1>4. (\A f \in Flow : Sound(f)) /\ OnePrinting
    BY DEF FiscalInit, Sound, OnePrinting, idle
  <1>5. PrintedIsStored /\ PrintedOnce /\ LastWasPrinted
    BY DEF FiscalInit, PrintedIsStored, PrintedOnce, LastWasPrinted
  <1>6. NoteAfterInvoice /\ OneInvoiceAtATime /\ InvoiceNumberIsOwn
    BY <1>1, <1>3 DEF NoteAfterInvoice, OneInvoiceAtATime, InvoiceNumberIsOwn, invoiced, Active
  <1>7. QED
    BY <1>2, <1>4, <1>5, <1>6 DEF FiscalInv

LEMMA FiscalPreserved == FiscalInv /\ [FiscalNext]_fiscalVars => FiscalInv'
PROOF
  <1> SUFFICES ASSUME FiscalInv, [FiscalNext]_fiscalVars PROVE FiscalInv'
    OBVIOUS
  <1>1. row' \in [Document -> Row]
    <2>1. \A d \in Document : row'[d] \in Row
      BY RowsGrow
    <2>2. row \in [Document -> Row]
      BY DEF FiscalInv, FiscalTypeOK
    <2>3. row' = [d \in Document |-> row'[d]]
      BY <2>2, OneRowReplaced
    <2>4. QED
      BY <2>1, <2>3
  <1>2. FiscalTypeOK'
    BY <1>1, PrintedGrows, FlowsPreserved, FaultsPreserved DEF FiscalTypeOK, Flows
  <1>3. QED
    BY <1>2, FlowsPreserved, DocumentsPreserved, InvoicesPreserved DEF FiscalInv

(* The inductive invariant of documents, device and requests.              *)
THEOREM FiscalInvariance == FiscalSpec => []FiscalInv
PROOF BY FiscalInitial, FiscalPreserved, PTL DEF FiscalSpec

(* Rows, requests and the device keep their types: a row has the version   *)
(* that its status implies and a number exactly when it is ISSUED.         *)
THEOREM FiscalTypeCorrectness == FiscalSpec => []FiscalTypeOK
PROOF
  <1>1. FiscalInv => FiscalTypeOK
    BY DEF FiscalInv
  <1>2. QED
    BY <1>1, FiscalInvariance, PTL

(* The device commits a document at most once, for any number of requests, *)
(* reconciliations, failures and restarts (the version check of save).     *)
THEOREM DocumentsArePrintedOnce == FiscalSpec => []PrintedOnce
PROOF
  <1>1. FiscalInv => PrintedOnce
    BY DEF FiscalInv
  <1>2. QED
    BY <1>1, FiscalInvariance, PTL

(* One invoice at a time waits for the device or for a person (findActive).*)
THEOREM InvoicesAreSerial == FiscalSpec => []OneInvoiceAtATime
PROOF
  <1>1. FiscalInv => OneInvoiceAtATime
    BY DEF FiscalInv
  <1>2. QED
    BY <1>1, FiscalInvariance, PTL

(* An issued invoice was committed and carries its own number, although    *)
(* the device is only asked for a reference that its note shares.          *)
THEOREM InvoicesKeepTheirNumber == FiscalSpec => []InvoiceNumberIsOwn
PROOF
  <1>1. FiscalInv => InvoiceNumberIsOwn
    BY DEF FiscalInv
  <1>2. QED
    BY <1>1, FiscalInvariance, PTL

(* No request overwrites what another one stored: versions grow by one and *)
(* an ISSUED document is final.                                            *)
THEOREM DocumentsAreLinear == FiscalSpec => TransitionsAreLinear
PROOF
  <1> DEFINE Linear == \A d \in Document : row'[d] # row[d] =>
               row[d].status # "ISSUED" /\ row'[d].version = row[d].version + 1
  <1>1. FiscalInv /\ [FiscalNext]_fiscalVars => Linear
    BY RowsGrow
  <1>2. QED
    BY <1>1, FiscalInvariance, PTL DEF FiscalSpec, TransitionsAreLinear
===========================================================================
