----------------------- MODULE CoordinatedOperation -----------------------
(***************************************************************************)
(* Operations of a terminal that change the coordinator's stock: completed *)
(* purchases, approved counts and returns                                  *)
(* (core/.../sync/coordinated-stock-operations.ts).  The terminal records  *)
(* its intention, commits its local effects with one fact, and learns from *)
(* the coordinator whether that fact was applied.  Composed here with the  *)
(* coordinator's SyncInbox and with a delivery that keeps what             *)
(* OrderedDelivery promises: a recorded fact arrives, once.                *)
(***************************************************************************)
EXTENDS SyncInbox

CONSTANTS
  Operation,      \* intentions, each with its fingerprint
  EvidenceOf,     \* EvidenceOf[o]: the facts that its local effect records
  MayTear         \* may the process stop inside recordStep?

ASSUME OperationConstants ==
  /\ EvidenceOf \in [Operation -> (SUBSET Event) \ {{}}]
  /\ MayTear \in BOOLEAN

VARIABLES
  steps,          \* sync_coordinated_step of each operation
  status,         \* sync_coordinated_operation.status
  outbox,         \* facts of the operations the terminal has committed
  reachable,      \* is the link with the coordinator usable now?
  probe           \* the reconciliation in course: operation and answers

sagaVars == <<steps, status, outbox, reachable, probe>>
operationVars == <<inboxVars, sagaVars>>

Progress == {"NONE", "PENDING", "DISCREPANCY", "APPLIED"}
Answers == {"unasked", "UNKNOWN", "PENDING", "DISCREPANCY", "APPLIED"}
Probe == [operation : Operation, answers : [Event -> Answers], recorded : BOOLEAN]
Steps == [local : {"NONE", "PENDING", "APPLIED"},
          remote : {"NONE", "PENDING", "APPLIED", "REJECTED"}]

OperationTypeOK ==
  /\ steps \in [Operation -> Steps]
  /\ status \in [Operation -> {"NONE", "PENDING_RECONCILIATION", "COMPLETED", "NEEDS_REVIEW"}]
  /\ outbox \in SUBSET Event
  /\ reachable \in BOOLEAN
  /\ probe \in Probe \cup {None}

OperationInit ==
  /\ InboxInit
  /\ steps = [o \in Operation |-> [local |-> "NONE", remote |-> "NONE"]]
  /\ status = [o \in Operation |-> "NONE"]
  /\ outbox = {}
  /\ reachable = TRUE
  /\ probe = None

-----------------------------------------------------------------------------
(* The terminal's side.                                                    *)

(* `begin` of an intention that is not registered: it needs the link.  For *)
(* a registered one it returns the record and changes nothing.             *)
BeginOperation(o) ==
  /\ status[o] = "NONE"
  /\ reachable
  /\ steps' = [steps EXCEPT ![o] = [local |-> "PENDING", remote |-> "PENDING"]]
  /\ status' = [status EXCEPT ![o] = "PENDING_RECONCILIATION"]
  /\ UNCHANGED <<inboxVars, outbox, reachable, probe>>

(* `refreshStatus`: the status follows from the steps.                     *)
\* Mutant: a status the schema does not know.
derivedRejected(row) == IF row.remote = "REJECTED" THEN "REJECTED" ELSE "PENDING_RECONCILIATION"

derived(row) ==
  CASE row.remote = "REJECTED" -> "NEEDS_REVIEW"
    [] row.local = "APPLIED" /\ row.remote = "APPLIED" -> "COMPLETED"
    [] OTHER -> "PENDING_RECONCILIATION"

(* The business transaction: effects, fact and `recordLocalEffect` commit  *)
(* together.  It may also fail, or never come, and the intention remains.  *)
RecordLocalEffect(o) ==
  /\ status[o] # "NONE"
  /\ steps[o].local # "APPLIED"
  /\ steps' = [steps EXCEPT ![o].local = "APPLIED"]
  /\ status' = [status EXCEPT ![o] = derived(steps'[o])]
  /\ outbox' = outbox \cup EvidenceOf[o]
  /\ UNCHANGED <<inboxVars, reachable, probe>>

LinkFails ==
  /\ reachable /\ Fails
  /\ reachable' = FALSE
  /\ UNCHANGED <<inbox, work, discrepancy, effectVars, batch, step, steps, status, outbox, probe>>

LinkReturns ==
  /\ ~reachable
  /\ reachable' = TRUE
  /\ UNCHANGED <<inboxVars, steps, status, outbox, probe>>

-----------------------------------------------------------------------------
(* Reconciliation, at the end of each cycle of the terminal's worker.      *)

awaitsCoordinator(o) ==
  /\ status[o] = "PENDING_RECONCILIATION"
  /\ steps[o].local = "APPLIED"
  /\ steps[o].remote # "APPLIED"

StartReconciliation(o) ==
  /\ probe = None
  /\ awaitsCoordinator(o)
  /\ probe' = [operation |-> o, answers |-> [e \in Event |-> "unasked"], recorded |-> FALSE]
  /\ UNCHANGED <<inboxVars, steps, status, outbox, reachable>>

(* `applicationProgress` at the coordinator.                               *)
\* Mutant: no task left to apply counts as applied, with or without custody.
nothingPending(e) ==
  LET states == {State(t) : t \in {x \in Task : x.event = e /\ State(x) # "NONE"}} IN
  IF "DISCREPANCY" \in states THEN "DISCREPANCY"
  ELSE IF states \subseteq {"APPLIED"} THEN "APPLIED" ELSE "PENDING"

applicationProgress(e) ==
  LET states == {State(t) : t \in {x \in Task : x.event = e}} IN
  IF e \notin received THEN "NONE"
  ELSE IF "DISCREPANCY" \in states THEN "DISCREPANCY"
  ELSE IF states \subseteq {"APPLIED"} THEN "APPLIED" ELSE "PENDING"

(* One answer of the probe.  A fact the coordinator does not have is not   *)
(* applied, and neither is one it could not be asked about.                *)
answerTo(e) ==
  CASE ~reachable -> "UNKNOWN"
    [] applicationProgress(e) = "NONE" -> "PENDING"
    [] OTHER -> applicationProgress(e)

Ask(e) ==
  /\ probe # None
  /\ e \in EvidenceOf[probe.operation]
  /\ probe.answers[e] = "unasked"
  /\ probe' = [probe EXCEPT !.answers[e] = answerTo(e)]
  /\ UNCHANGED <<inboxVars, steps, status, outbox, reachable>>

answers == {probe.answers[e] : e \in EvidenceOf[probe.operation]}

\* Mutant: a discrepancy is waited for like anything else.
patientVerdict == IF answers = {"APPLIED"} THEN "APPLIED" ELSE "PENDING"

verdict ==
  IF "DISCREPANCY" \in answers THEN "REJECTED"
  ELSE IF answers = {"APPLIED"} THEN "APPLIED" ELSE "PENDING"

(* `recordStep`: the step is written unless it was already APPLIED, and in *)
(* another statement, with no transaction around them, the status.         *)
recordStep(o, state) ==
  steps' = [steps EXCEPT ![o].remote = IF @ = "APPLIED" THEN @ ELSE state]

Conclude ==
  /\ probe # None /\ ~probe.recorded
  /\ "unasked" \notin answers
  /\ IF verdict = "PENDING"
     THEN probe' = None /\ UNCHANGED steps
     ELSE /\ recordStep(probe.operation, verdict)
          /\ probe' = [probe EXCEPT !.recorded = TRUE]
  /\ UNCHANGED <<inboxVars, status, outbox, reachable>>

refreshStatus ==
  /\ probe # None /\ probe.recorded
  /\ status' = [status EXCEPT ![probe.operation] = derived(steps[probe.operation])]
  /\ probe' = None
  /\ UNCHANGED <<inboxVars, steps, outbox, reachable>>

(* The terminal stops in the middle of a reconciliation.                   *)
TerminalCrash ==
  /\ probe # None
  /\ probe.recorded => MayTear
  /\ Fails
  /\ probe' = None
  /\ UNCHANGED <<inbox, work, discrepancy, effectVars, batch, step,
                 steps, status, outbox, reachable>>

Reconcile == (\E e \in Event : Ask(e)) \/ Conclude \/ refreshStatus

-----------------------------------------------------------------------------
(* Facts of the operations arrive once the terminal recorded them.         *)
Arrives(e) ==
  /\ e \in outbox \/ \A o \in Operation : e \notin EvidenceOf[o]
  /\ Receive(e)
  /\ UNCHANGED sagaVars

OperationNext ==
  \/ InboxStep /\ UNCHANGED sagaVars
  \/ \E e \in Event : Arrives(e) \/ Ask(e)
  \/ \E o \in Operation : BeginOperation(o) \/ RecordLocalEffect(o) \/ StartReconciliation(o)
  \/ LinkFails \/ LinkReturns
  \/ Conclude \/ refreshStatus \/ TerminalCrash

(* Delivered facts arrive (SyncDelivery!EventuallySettled), both workers   *)
(* keep their cycles, and the link returns.                                *)
OperationFairness ==
  /\ \A w \in Worker : /\ WF_operationVars(ClaimBatch(w) /\ UNCHANGED sagaVars)
                       /\ WF_operationVars(Process(w) /\ UNCHANGED sagaVars)
  /\ \A t \in Task : /\ WF_operationVars(LeaseExpires(t) /\ UNCHANGED sagaVars)
                     /\ WF_operationVars(BackoffElapses(t) /\ UNCHANGED sagaVars)
  /\ \A e \in Event : WF_operationVars(e \in outbox /\ Arrives(e))
  /\ \A o \in Operation : SF_operationVars(StartReconciliation(o))
  /\ WF_operationVars(Reconcile)
  /\ WF_operationVars(LinkReturns)

OperationSpec == OperationInit /\ [][OperationNext]_operationVars
OperationFairSpec == OperationSpec /\ OperationFairness

-----------------------------------------------------------------------------
(* Properties.                                                             *)

(* An operation is COMPLETED only when the coordinator really applied all  *)
(* the tasks of all its facts: no lost answer, unknown fact or answer read *)
(* before a crash stands for an application.                               *)
CompletedIsApplied ==
  \A o \in Operation : status[o] = "COMPLETED" =>
    \A e \in EvidenceOf[o] : e \in received /\ applicationProgress(e) = "APPLIED"

(* The argument behind it: what an answer said of a fact stays true, so a  *)
(* step and a status that were derived from it, however late, are true too.*)
appliedThere(e) == e \in received /\ applicationProgress(e) = "APPLIED"

AnswersAreTrue ==
  probe # None =>
    \A e \in EvidenceOf[probe.operation] : probe.answers[e] = "APPLIED" => appliedThere(e)
RemoteIsApplied ==
  \A o \in Operation : steps[o].remote = "APPLIED" => \A e \in EvidenceOf[o] : appliedThere(e)
CompletedHasRemote ==
  \A o \in Operation : status[o] = "COMPLETED" => steps[o].remote = "APPLIED"

OperationInv ==
  /\ InboxInv
  /\ OperationTypeOK
  /\ AnswersAreTrue
  /\ RemoteIsApplied
  /\ CompletedHasRemote

(* An operation whose local effect is committed does not wait for ever for *)
(* the coordinator: it is completed or reaches a person, whatever answers  *)
(* were lost or came before the fact did.  The exception is evidence that  *)
(* arrived and that the coordinator's stock item contradicts from some     *)
(* moment on: it is refused at every retry, without a discrepancy, and the *)
(* operation stays pending.  A person who retries the same discrepancy     *)
(* without end could hide it from every probe, so the property is about    *)
(* behaviours in which the retries end.                                    *)
RetriesEnd ==
  <>[][\A t \in Task : State(t) = "DISCREPANCY" => State(t)' = "DISCREPANCY"]_operationVars

OperationsAreReconciled ==
  RetriesEnd => \A o \in Operation :
    steps[o].local = "APPLIED"
      ~> \/ status[o] \in {"COMPLETED", "NEEDS_REVIEW"}
         \/ \E e \in EvidenceOf[o] : [](e \in received /\ conflicts(e))

(* coordinated-operation-store.ts:48-53 says the status is derived from    *)
(* the steps in every write and nobody can set it apart: an operation with *)
(* evidence of every step is eventually COMPLETED.                         *)
EvidenceCompletes ==
  \A o \in Operation :
    (steps[o].local = "APPLIED" /\ steps[o].remote = "APPLIED") ~> status[o] = "COMPLETED"
==========================================================================
