-------------------------- MODULE FiscalPrinting --------------------------
(***************************************************************************)
(* Fiscal documents of one node and the device that prints them            *)
(* (core/.../fiscal/issue-fiscal-document.ts, reconcile-fiscal-state.ts,   *)
(* sales/return-sale.ts and drivers/fiscal).  A request stores what it is  *)
(* about to do, calls the device outside every transaction and stores the  *)
(* answer; requests interleave at every await and may stop there.  A       *)
(* person reconciles what was left half way with the last document that    *)
(* the device remembers.                                                   *)
(***************************************************************************)
EXTENDS Naturals

CONSTANTS
  Sale,           \* completed sales of this node
  Flow,           \* requests the server may be serving at once
  MaxFaults,      \* bound: failed printings, failed requests and restarts
  None            \* no number, no document

Document == [type : {"INVOICE", "CREDIT_NOTE"}, reference : Sale]
invoice(s) == [type |-> "INVOICE", reference |-> s]
creditNote(s) == [type |-> "CREDIT_NOTE", reference |-> s]

ASSUME FiscalConstants == None \notin Document /\ MaxFaults \in Nat

VARIABLES
  row,            \* fiscal_documents by document: status, version, number
  flow,           \* each request: where it is, its document in memory, the device's answer
  last,           \* the document the device reports as its last one
  printed,        \* how many times the device has committed each document
  faults          \* failures so far

fiscalVars == <<row, flow, last, printed, faults>>

(* The device names what it prints: the number of a document is the        *)
(* document that it was given to.                                          *)
Active == {"PENDING", "PRINTING", "ERROR"}
absent == [status |-> "ABSENT", version |-> 0, number |-> None]
pending == [status |-> "PENDING", version |-> 1, number |-> None]
printing == [status |-> "PRINTING", version |-> 2, number |-> None]
inError == [status |-> "ERROR", version |-> 3, number |-> None]
Unissued == {absent, pending, printing, inError}
Row == Unissued \cup [status : {"ISSUED"}, version : {3, 4}, number : Document]

idle == [stage |-> "IDLE", document |-> None, copy |-> absent, answer |-> None]
Busy == [stage : {"REGISTERED", "PREPARED", "PRINTING", "PRINTED", "ASKING", "ANSWERED"},
         document : Document, copy : Unissued, answer : Document \cup {None}]

FiscalTypeOK ==
  /\ row \in [Document -> Row]
  /\ flow \in [Flow -> Busy \cup {idle}]
  /\ last \in Document \cup {None}
  /\ printed \in [Document -> Nat]
  /\ faults \in 0..MaxFaults

FiscalInit ==
  /\ row = [d \in Document |-> absent]
  /\ flow = [f \in Flow |-> idle]
  /\ last = None
  /\ printed = [d \in Document |-> 0]
  /\ faults = 0

-----------------------------------------------------------------------------
(* The document in memory and its row.                                     *)

moved(copy, status, number) ==
  [status |-> status, version |-> copy.version + 1, number |-> number]
started(copy) == moved(copy, "PRINTING", copy.number)
failed(copy) == moved(copy, "ERROR", copy.number)
issuedUnnumbered(copy, number) == moved(copy, "ISSUED", copy.number)
issued(copy, number) == moved(copy, "ISSUED", number)

(* What `save` takes: a newer version of a row that is not yet issued.     *)
unversioned(d, copy) == row[d].status # "ISSUED"
accepts(d, copy) == row[d].status # "ISSUED" /\ copy.version > row[d].version

continue(f, stage, d, copy, answer) ==
  flow' = [flow EXCEPT ![f] = [stage |-> stage, document |-> d, copy |-> copy,
                               answer |-> answer]]
finish(f) == flow' = [flow EXCEPT ![f] = idle]

(* A refused save throws: the request ends and the row stays as it was.    *)
persistLast(f, copy) ==
  LET d == flow[f].document IN
  /\ row' = IF accepts(d, copy) THEN [row EXCEPT ![d] = copy] ELSE row
  /\ finish(f)

Fault == faults < MaxFaults /\ faults' = faults + 1

-----------------------------------------------------------------------------
(* Issuing an invoice.                                                     *)

noneInFlight == \A d \in Document : row[d].status # "PRINTING"
noneActive == \A d \in Document : row[d].status \notin Active

(* The transaction of `IssueFiscalDocument`, as `IssueSaleInvoice` calls   *)
(* it: create when no document is active, or go on with a pending one of   *)
(* the same key.  A document in any other state only produces an answer.   *)
IssueFiscalDocument(f, s) ==
  LET d == invoice(s) IN
  /\ flow[f] = idle
  /\ \/ /\ row[d] = absent
        /\ noneActive
        /\ row' = [row EXCEPT ![d] = pending]
     \/ /\ row[d].status = "PENDING"
        /\ UNCHANGED row
  /\ continue(f, "PREPARED", d, pending, None)
  /\ UNCHANGED <<last, printed, faults>>

StartPrinting(f) ==
  LET d == flow[f].document
      copy == started(flow[f].copy) IN
  /\ flow[f].stage = "PREPARED"
  /\ \/ /\ accepts(d, copy)
        /\ row' = [row EXCEPT ![d] = copy]
        /\ continue(f, "PRINTING", d, copy, None)
     \/ /\ ~accepts(d, copy)
        /\ finish(f)
        /\ UNCHANGED row
  /\ UNCHANGED <<last, printed, faults>>

(* The device commits at CLOSE.  It confirms, or its confirmation is lost  *)
(* after the commit, or it fails before it.                                *)
PrintDocument(f) ==
  LET d == flow[f].document
      commit == last' = d /\ printed' = [printed EXCEPT ![d] = @ + 1] IN
  /\ flow[f].stage = "PRINTING"
  /\ \/ /\ commit
        /\ continue(f, "PRINTED", d, flow[f].copy, d)
        /\ UNCHANGED faults
     \/ /\ Fault
        /\ commit
        /\ continue(f, "PRINTED", d, flow[f].copy, None)
     \/ /\ Fault
        /\ continue(f, "PRINTED", d, flow[f].copy, None)
        /\ UNCHANGED <<last, printed>>
  /\ UNCHANGED row

RecordResult(f) ==
  /\ flow[f].stage = "PRINTED"
  /\ persistLast(f, IF flow[f].answer = None THEN failed(flow[f].copy)
                    ELSE issued(flow[f].copy, flow[f].answer))
  /\ UNCHANGED <<last, printed, faults>>

-----------------------------------------------------------------------------
(* The credit note of a return.                                            *)

invoicedOrPending(s) == row[invoice(s)].status \in {"ISSUED", "ERROR"}
invoiced(s) == row[invoice(s)].status = "ISSUED"

(* `registerReturn`, which creates the note with the invoice's content and *)
(* asks for no active document; a repeated key finds the return it made.   *)
RegisterReturn(f, s) ==
  LET d == creditNote(s) IN
  /\ flow[f] = idle
  /\ \/ /\ row[d] = absent
        /\ invoiced(s)
        /\ row' = [row EXCEPT ![d] = pending]
     \/ /\ row[d] # absent
        /\ UNCHANGED row
  /\ continue(f, "REGISTERED", d, absent, None)
  /\ UNCHANGED <<last, printed, faults>>

(* `issueCreditNote` loads the note and prints it only when it is pending. *)
IssueCreditNote(f) ==
  LET d == flow[f].document IN
  /\ flow[f].stage = "REGISTERED"
  /\ IF row[d].status = "PENDING" THEN continue(f, "PREPARED", d, row[d], None)
                                  ELSE finish(f)
  /\ UNCHANGED <<row, last, printed, faults>>

-----------------------------------------------------------------------------
(* Reconciliation with the device.                                         *)

ReconcileFiscalState(f, d) ==
  /\ flow[f] = idle
  /\ row[d].status \in Active
  /\ continue(f, "ASKING", d, row[d], None)
  /\ UNCHANGED <<row, last, printed, faults>>

GetStatus(f) ==
  /\ flow[f].stage = "ASKING"
  /\ \/ continue(f, "ANSWERED", flow[f].document, flow[f].copy, last)
     \/ finish(f)
  /\ UNCHANGED <<row, last, printed, faults>>

(* The device's last document is recognised by its reference alone.        *)
recognised(f) ==
  /\ flow[f].answer # None
  /\ flow[f].answer.reference = flow[f].document.reference

(* A pending document cannot be marked issued (a domain error), and is     *)
(* printed when the device does not name it; one whose printing began      *)
(* takes the device's number, or stays or becomes an error.                *)
Conclude(f) ==
  LET d == flow[f].document
      copy == flow[f].copy IN
  /\ flow[f].stage = "ANSWERED"
  /\ \/ /\ recognised(f)
        /\ copy.status # "PENDING"
        /\ persistLast(f, issued(copy, flow[f].answer))
     \/ /\ ~recognised(f)
        /\ copy.status = "PRINTING"
        /\ persistLast(f, failed(copy))
     \/ /\ ~recognised(f)
        /\ copy.status = "PENDING"
        /\ continue(f, "PREPARED", d, copy, None)
        /\ UNCHANGED row
     \/ /\ \/ recognised(f) /\ copy.status = "PENDING"
           \/ ~recognised(f) /\ copy.status = "ERROR"
        /\ finish(f)
        /\ UNCHANGED row
  /\ UNCHANGED <<last, printed, faults>>

-----------------------------------------------------------------------------
(* Failures: one request stops, or the process restarts.  The fake device  *)
(* lives in the process and forgets its last document; one outside keeps   *)
(* it.                                                                     *)

RequestFails(f) ==
  /\ Fault
  /\ flow[f] # idle
  /\ finish(f)
  /\ UNCHANGED <<row, last, printed>>

Restart ==
  /\ Fault
  /\ flow' = [f \in Flow |-> idle]
  /\ last' \in {last, None}
  /\ UNCHANGED <<row, printed>>

FlowStep(f) ==
  \/ \E s \in Sale : IssueFiscalDocument(f, s) \/ RegisterReturn(f, s)
  \/ \E d \in Document : ReconcileFiscalState(f, d)
  \/ StartPrinting(f) \/ PrintDocument(f) \/ RecordResult(f)
  \/ IssueCreditNote(f) \/ GetStatus(f) \/ Conclude(f)
  \/ RequestFails(f)

FiscalNext == Restart \/ \E f \in Flow : FlowStep(f)

FiscalSpec == FiscalInit /\ [][FiscalNext]_fiscalVars

-----------------------------------------------------------------------------
(* Properties.                                                             *)

(* The device never commits a document twice, although requests with the   *)
(* same key, reconciliations and restarts overlap and an unknown result is *)
(* never repeated blindly (startPrinting, the version check of save and    *)
(* the refusal of PRINTING and ERROR documents).                           *)
PrintedOnce == \A d \in Document : printed[d] <= 1

(* At most one invoice of the node waits for the device or for a person:   *)
(* findActive inside the transaction that creates it.                      *)
OneInvoiceAtATime ==
  \A s, t \in Sale :
    row[invoice(s)].status \in Active /\ row[invoice(t)].status \in Active => s = t

(* An issued invoice was committed by the device and carries its own       *)
(* number, also when a reconciliation took the number from the device's    *)
(* last document and a credit note with the same reference was printed.    *)
InvoiceNumberIsOwn ==
  \A s \in Sale : row[invoice(s)].status = "ISSUED" =>
    printed[invoice(s)] > 0 /\ row[invoice(s)].number = invoice(s)

(* A stored document changes by one version at a time and never again once *)
(* it is ISSUED: no request overwrites what another one stored meanwhile.  *)
TransitionsAreLinear ==
  [][\A d \in Document : row'[d] # row[d] =>
       row[d].status # "ISSUED" /\ row'[d].version = row[d].version + 1]_fiscalVars

(* What docs/failure-scenarios/FS-001 says of every document: ISSUED needs *)
(* positive evidence of a fiscal commit.                                   *)
IssuedWasCommitted ==
  \A d \in Document : row[d].status = "ISSUED" => printed[d] > 0
===========================================================================
