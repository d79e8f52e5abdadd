--------------------- MODULE CoordinatedOperationProofs ---------------------
(***************************************************************************)
(* Proofs about SyncInbox, for any facts, contracts, workers, batch limit  *)
(* and number of failures, and then about CoordinatedOperation, which      *)
(* composes it, for any operations: the application of a fact is final at  *)
(* the coordinator, so an answer that is used late, after a crash or after *)
(* the link failed, is still true.                                         *)
(***************************************************************************)
EXTENDS CoordinatedOperation, FoldLemmas, TLAPS

USE InboxConstants

-----------------------------------------------------------------------------
(* The inbox.                                                              *)

LEMMA TaskParts ==
  \A t \in Task : /\ t.event \in Event /\ t.consumer \in Consumers
                  /\ t.consumer \in ConsumersOf[t.event]
BY DEF Task

LEMMA SameTask ==
  \A t, u \in Task : t.event = u.event /\ t.consumer = u.consumer => t = u
BY DEF Task

-----------------------------------------------------------------------------
(* What a step that only adds applied tasks and projected rows preserves.  *)

AppliedStays == \A t \in Task : State(t) = "APPLIED" => State(t)' = "APPLIED"
ProjectedStays == \A a \in Aggregate : projected[a] # 0 => projected'[a] # 0

LEMMA SupportStays ==
  ASSUME AppliedStays, ProjectedStays, NEW e \in Event
  PROVE  /\ dependenciesBegun(e) => dependenciesBegun(e)'
         /\ supported(e) => supported(e)'
<1>1. DependsOn[e] \subseteq Aggregate
  OBVIOUS
<1>2. dependenciesBegun(e) => dependenciesBegun(e)'
  BY DEF dependenciesBegun, AppliedStays, first, precedes
<1>3. (Projects[e] = "mark" => \A a \in DependsOn[e] : projected[a] # 0)
        => (Projects[e] = "mark" => \A a \in DependsOn[e] : projected'[a] # 0)
  BY <1>1 DEF ProjectedStays
<1> QED BY <1>2, <1>3 DEF supported

(* A step that moves no effect, and no task in or out of NONE or APPLIED.   *)
Quiet ==
  /\ inbox' = inbox
  /\ \A t \in Task : \/ State(t)' = State(t)
                     \/ /\ State(t) \notin {"NONE", "APPLIED"}
                        /\ State(t)' \notin {"NONE", "APPLIED"}
  /\ UNCHANGED effectVars

LEMMA QuietStep ==
  ASSUME InboxInv, InboxTypeOK', Quiet, DiscrepanciesStayOpen',
         \A w \in Worker : ready(w)' => \E e \in Event : e = step'[w].task.event /\ supported(e)
  PROVE  InboxInv'
<1> USE DEF Quiet, effectVars
<1>1. received' = received
  BY DEF received
<1>2. AppliedStays /\ ProjectedStays
  BY DEF AppliedStays, ProjectedStays
<1>3. ArrivedInOrder'
  BY <1>1 DEF InboxInv, ArrivedInOrder, precedes
<1>4. TasksOfReceived'
  BY <1>1 DEF InboxInv, TasksOfReceived
<1>5. MarkedIffIssued'
  BY DEF InboxInv, MarkedIffIssued
<1>6. AppliedIsProjected'
  BY DEF InboxInv, AppliedIsProjected, isProjected
<1>7. ReadyIsSupported'
  <2> SUFFICES ASSUME NEW w \in Worker, ready(w)' PROVE supported(step[w].task.event)'
    BY DEF ReadyIsSupported
  <2>1. PICK e \in Event : e = step'[w].task.event /\ supported(e)
    OBVIOUS
  <2> QED BY <2>1, <1>2, SupportStays
<1>8. DependenciesFirst' /\ NoReturnIsLost'
  <2>1. DependenciesFirst'
    BY <1>2, SupportStays, TaskParts DEF InboxInv, DependenciesFirst
  <2>2. NoReturnIsLost'
    BY DEF InboxInv, NoReturnIsLost
  <2> QED BY <2>1, <2>2
<1> QED BY <1>3, <1>4, <1>5, <1>6, <1>7, <1>8  DEF InboxInv

-----------------------------------------------------------------------------
(* Types.                                                                  *)

LEMMA TypesInit == InboxInit => InboxTypeOK
BY DEF InboxInit, InboxTypeOK, WorkRow

LEMMA RefusalTypes ==
  ASSUME NEW t \in Task
  PROVE  refusal(t) \in Outcomes \cup {"none"}
BY DEF refusal, Outcomes

States == {"NONE", "PENDING", "APPLIED", "DISCREPANCY"}

LEMMA RowsTyped ==
  ASSUME NEW row \in WorkRow
  PROVE  /\ \A s \in States : [row EXCEPT !.state = s] \in WorkRow
         /\ \A b \in BOOLEAN : [row EXCEPT !.due = b] \in WorkRow
         /\ \A b \in BOOLEAN : [row EXCEPT !.leased = b] \in WorkRow
         /\ \A w \in Worker : [row EXCEPT !.leased = TRUE, !.holder = w] \in WorkRow
<1>1. \A s \in States : [row EXCEPT !.state = s] \in WorkRow
  BY DEF WorkRow, States
<1>2. \A b \in BOOLEAN : [row EXCEPT !.due = b] \in WorkRow
  BY DEF WorkRow
<1>3. \A b \in BOOLEAN : [row EXCEPT !.leased = b] \in WorkRow
  BY DEF WorkRow
<1>4. \A w \in Worker : [row EXCEPT !.leased = TRUE, !.holder = w] \in WorkRow
  BY DEF WorkRow
<1> QED BY <1>1, <1>2, <1>3, <1>4

LEMMA UpdatesTyped ==
  ASSUME NEW f \in [Task -> WorkRow], NEW t \in Task
  PROVE  /\ \A s \in States : [f EXCEPT ![t].state = s] \in [Task -> WorkRow]
         /\ \A b \in BOOLEAN : [f EXCEPT ![t].due = b] \in [Task -> WorkRow]
         /\ \A b \in BOOLEAN : [f EXCEPT ![t].leased = b] \in [Task -> WorkRow]
BY RowsTyped

LEMMA TypesOfWork ==
  ASSUME InboxTypeOK, NEW t \in Task
  PROVE  /\ \A s \in States :
              [work EXCEPT ![t].state = s, ![t].leased = FALSE] \in [Task -> WorkRow]
         /\ [work EXCEPT ![t].due = FALSE, ![t].leased = FALSE] \in [Task -> WorkRow]
         /\ [work EXCEPT ![t].state = "PENDING", ![t].due = TRUE, ![t].leased = FALSE]
              \in [Task -> WorkRow]
         /\ [work EXCEPT ![t].leased = FALSE] \in [Task -> WorkRow]
         /\ [work EXCEPT ![t].due = TRUE] \in [Task -> WorkRow]
<1>0. work \in [Task -> WorkRow] /\ "PENDING" \in States
  BY DEF InboxTypeOK, States
<1>1. ASSUME NEW s \in States
      PROVE  [work EXCEPT ![t].state = s, ![t].leased = FALSE] \in [Task -> WorkRow]
  <2>1. [work EXCEPT ![t].state = s] \in [Task -> WorkRow]
    BY <1>0, UpdatesTyped
  <2> QED BY <2>1, UpdatesTyped
<1>2. [work EXCEPT ![t].due = FALSE, ![t].leased = FALSE] \in [Task -> WorkRow]
  <2>1. [work EXCEPT ![t].due = FALSE] \in [Task -> WorkRow]
    BY <1>0, UpdatesTyped
  <2> QED BY <2>1, UpdatesTyped
<1>3. [work EXCEPT ![t].state = "PENDING", ![t].due = TRUE, ![t].leased = FALSE]
        \in [Task -> WorkRow]
  <2>1. [work EXCEPT ![t].state = "PENDING"] \in [Task -> WorkRow]
    BY <1>0, UpdatesTyped
  <2>2. [work EXCEPT ![t].state = "PENDING", ![t].due = TRUE] \in [Task -> WorkRow]
    BY <2>1, UpdatesTyped
  <2> QED BY <2>2, UpdatesTyped
<1>4. /\ [work EXCEPT ![t].leased = FALSE] \in [Task -> WorkRow]
      /\ [work EXCEPT ![t].due = TRUE] \in [Task -> WorkRow]
  BY <1>0, UpdatesTyped
<1> QED BY <1>1, <1>2, <1>3, <1>4

LEMMA TypesOfEffects ==
  ASSUME InboxTypeOK, NEW t \in Task, apply(t)
  PROVE  /\ issued' \in SUBSET Event
         /\ projected' \in [Aggregate -> Nat]
         /\ returned' \in SUBSET Aggregate
<1>1. t.event \in Event /\ DependsOn[t.event] \subseteq Aggregate
  BY TaskParts
<1>2. CASE t.consumer = "INVENTORY_AUTHORITY"
  BY <1>1, <1>2 DEF apply, applyToInventory, InboxTypeOK
<1>3. CASE t.consumer = "COMMERCIAL_PROJECTION"
  <2> DEFINE a == AggregateOf[t.event]
  <2>1. a \in Aggregate /\ VersionOf[t.event] \in Nat
    BY <1>1
  <2>2. /\ issued \in SUBSET Event /\ projected \in [Aggregate -> Nat]
        /\ returned \in SUBSET Aggregate
    BY DEF InboxTypeOK
  <2>3. applyToProjection(t.event)
    BY <1>3 DEF apply
  <2>4. issued' = issued
    BY <2>3 DEF applyToProjection
  <2>5. projected' = projected \/ projected' = [projected EXCEPT ![a] = VersionOf[t.event]]
    BY <2>3 DEF applyToProjection
  <2>6. \/ returned' = returned
        \/ returned' = returned \cup {s \in DependsOn[t.event] : projected[s] # 0}
    BY <2>3 DEF applyToProjection
  <2>7. projected' \in [Aggregate -> Nat]
    BY <2>1, <2>2, <2>5
  <2>8. returned' \in SUBSET Aggregate
    BY <1>1, <2>2, <2>6
  <2> QED BY <2>2, <2>4, <2>7, <2>8
<1>4. CASE t.consumer \notin {"INVENTORY_AUTHORITY", "COMMERCIAL_PROJECTION"}
  BY <1>4 DEF apply, effectVars, InboxTypeOK
<1> QED BY <1>2, <1>3, <1>4

LEMMA TypesStep == InboxTypeOK /\ [InboxNext]_inboxVars => InboxTypeOK'
<1> SUFFICES ASSUME InboxTypeOK, [InboxNext]_inboxVars PROVE InboxTypeOK'
  OBVIOUS
<1> USE DEF InboxTypeOK
<1>1. ASSUME NEW w \in Worker, ClaimBatch(w) PROVE InboxTypeOK'
  <2>1. work' \in [Task -> WorkRow]
    BY <1>1, RowsTyped DEF ClaimBatch, claimPending
  <2>2. batch' \in [Worker -> SUBSET Task]
    BY <1>1 DEF ClaimBatch, firstClaimable, claimable
  <2> QED BY <1>1, <2>1, <2>2 DEF ClaimBatch, effectVars
<1>2. ASSUME NEW w \in Worker, NEW t \in batch[w], Begin(w, t) PROVE InboxTypeOK'
  <2>1. t \in Task /\ batch' \in [Worker -> SUBSET Task]
    BY <1>2 DEF Begin
  <2>2. step' \in [Worker -> Step \cup {None}]
    BY <1>2, <2>1 DEF Begin, Step, Outcomes
  <2> QED BY <1>2, <2>1, <2>2 DEF Begin, effectVars
<1>3. ASSUME NEW w \in Worker, step[w] # None PROVE step[w].task \in Task
  BY <1>3 DEF Step
<1>4. \A w \in Worker : [step EXCEPT ![w] = None] \in [Worker -> Step \cup {None}]
  OBVIOUS
<1>5. \A w \in Worker : \A o \in Outcomes : step[w] # None
        => [step EXCEPT ![w].outcome = o] \in [Worker -> Step \cup {None}]
  BY DEF Step
<1>6. ASSUME NEW w \in Worker, Apply(w) PROVE InboxTypeOK'
  <2> DEFINE t == step[w].task
  <2>1. t \in Task
    BY <1>3, <1>6 DEF Apply
  <2>2. /\ step[w] # None
        /\ UNCHANGED <<inbox, discrepancy, batch, failures>>
    BY <1>6 DEF Apply
  <2>3. CASE ~isClaimActive(w, t)
    BY <1>4, <1>6, <2>2, <2>3 DEF Apply, finish, effectVars
  <2>4. CASE isClaimActive(w, t) /\ refusal(t) # "none"
    <3>1. step' = [step EXCEPT ![w].outcome = refusal(t)] /\ UNCHANGED <<work, effectVars>>
      BY <1>6, <2>4 DEF Apply
    <3>2. refusal(t) \in Outcomes
      BY <2>1, <2>4, RefusalTypes
    <3> QED BY <1>5, <2>2, <3>1, <3>2 DEF effectVars
  <2>5. CASE isClaimActive(w, t) /\ refusal(t) = "none"
    <3>1. apply(t) /\ markApplied(w, t) /\ finish(w)
      BY <1>6, <2>5 DEF Apply
    <3>2. [work EXCEPT ![t].state = "APPLIED", ![t].leased = FALSE] \in [Task -> WorkRow]
      BY <2>1, TypesOfWork DEF States
    <3>3. work' \in [Task -> WorkRow]
      BY <3>1, <3>2 DEF markApplied
    <3> QED BY <1>4, <2>1, <2>2, <3>1, <3>3, TypesOfEffects DEF finish
  <2> QED BY <2>3, <2>4, <2>5
<1>7. ASSUME NEW w \in Worker, ApplyFails(w) PROVE InboxTypeOK'
  <2>1. step' \in [Worker -> Step \cup {None}]
    BY <1>5, <1>7 DEF ApplyFails, Outcomes
  <2> QED BY <1>7, <2>1 DEF ApplyFails, Fails, effectVars
<1>8. ASSUME NEW w \in Worker, Reschedule(w) PROVE InboxTypeOK'
  <2>1. work' \in [Task -> WorkRow]
    <3> DEFINE t == step[w].task
    <3>1. t \in Task
      BY <1>3, <1>8 DEF Reschedule
    <3>2. [work EXCEPT ![t].due = FALSE, ![t].leased = FALSE] \in [Task -> WorkRow]
      BY <3>1, TypesOfWork
    <3>3. markRetryable(w, t)
      BY <1>8 DEF Reschedule
    <3> QED BY <3>2, <3>3 DEF markRetryable
  <2> QED BY <1>4, <1>8, <2>1 DEF Reschedule, finish, effectVars
<1>9. ASSUME NEW w \in Worker, OpenDiscrepancy(w) PROVE InboxTypeOK'
  <2> DEFINE t == step[w].task
  <2>0. t \in Task
    BY <1>3, <1>9 DEF OpenDiscrepancy
  <2>3. [work EXCEPT ![t].state = "DISCREPANCY", ![t].leased = FALSE] \in [Task -> WorkRow]
    BY <2>0, TypesOfWork DEF States
  <2>1. work' \in [Task -> WorkRow]
    BY <1>9, <2>3 DEF OpenDiscrepancy
  <2>2. discrepancy' \in [Task -> {"NONE", "OPEN", "RESOLVED"}]
    BY <1>9 DEF OpenDiscrepancy
  <2> QED BY <1>4, <1>9, <2>1, <2>2 DEF OpenDiscrepancy, finish, effectVars
<1>10. ASSUME NEW w \in Worker, Crash(w) PROVE InboxTypeOK'
  BY <1>4, <1>10 DEF Crash, finish, Fails, effectVars
<1>11. ASSUME NEW t \in Task, RetrySyncDiscrepancy(t) PROVE InboxTypeOK'
  BY <1>11, TypesOfWork DEF RetrySyncDiscrepancy, effectVars
<1>12. ASSUME NEW t \in Task, ResolveSyncDiscrepancy(t) PROVE InboxTypeOK'
  BY <1>12 DEF ResolveSyncDiscrepancy, effectVars
<1>13. ASSUME NEW t \in Task, LeaseExpires(t) PROVE InboxTypeOK'
  <2>1. failures' \in Nat
    BY <1>13 DEF LeaseExpires
  <2> QED BY <1>13, <2>1, TypesOfWork DEF LeaseExpires, effectVars
<1>14. ASSUME NEW t \in Task, BackoffElapses(t) PROVE InboxTypeOK'
  BY <1>14, TypesOfWork DEF BackoffElapses, effectVars
<1>15. ASSUME NEW e \in Event, Receive(e) PROVE InboxTypeOK'
  <2>1. work' \in [Task -> WorkRow]
    BY <1>15, RowsTyped DEF Receive, States
  <2> QED BY <1>15, <2>1 DEF Receive, effectVars
<1>16. CASE UNCHANGED inboxVars
  BY <1>16 DEF inboxVars, effectVars
<1>17. ASSUME NEW e \in Event, CompletePurchaseReceipt(e) PROVE InboxTypeOK'
  BY <1>17 DEF CompletePurchaseReceipt
<1> QED
  BY <1>1, <1>2, <1>6, <1>7, <1>8, <1>9, <1>10, <1>11, <1>12, <1>13, <1>14, <1>15, <1>16, <1>17
  DEF InboxNext, InboxStep, Process

-----------------------------------------------------------------------------
(* One lemma per kind of step.                                             *)

(* What `process` reads before its transaction supports the application:   *)
(* the facts of an aggregate arrive in order, so a received aggregate has  *)
(* its first fact, and all that was received of it is applied.             *)
LEMMA DependenciesSupport ==
  ASSUME InboxInv, NEW e \in Event, ~pendingDependency(e)
  PROVE  supported(e)
<1>1. ASSUME NEW a \in DependsOn[e]
      PROVE  \E x \in received : x \in Event /\ AggregateOf[x] = a
  BY DEF pendingDependency, isDependencyApplied, received, InboxInv, InboxTypeOK
<1>2. ASSUME NEW a \in DependsOn[e], NEW t \in Task,
             t.event \in received, AggregateOf[t.event] = a
      PROVE  State(t) = "APPLIED"
  BY <1>2 DEF pendingDependency, isDependencyApplied
<1>3. dependenciesBegun(e)
  <2> SUFFICES ASSUME NEW a \in DependsOn[e], NEW u \in Task, u.event \in first(a)
               PROVE  State(u) = "APPLIED"
    BY DEF dependenciesBegun
  <2> DEFINE f == u.event
  <2>1. f \in Event /\ AggregateOf[f] = a /\ \A p \in Event : ~precedes(p, f)
    BY DEF first
  <2>2. PICK x \in received : x \in Event /\ AggregateOf[x] = a
    BY <1>1
  <2>3. x = f \/ precedes(f, x)
    <3>1. ~precedes(x, f)
      BY <2>1, <2>2
    <3>2. x \in Nat /\ f \in Nat /\ VersionOf[x] \in Nat /\ VersionOf[f] \in Nat
      BY <2>1, <2>2
    <3> QED BY <2>1, <2>2, <3>1, <3>2 DEF precedes
  <2>4. f \in received
    BY <2>1, <2>2, <2>3 DEF InboxInv, ArrivedInOrder
  <2> QED BY <1>2, <2>1, <2>4
<1>4. ASSUME Projects[e] = "mark", NEW a \in DependsOn[e]
      PROVE  projected[a] # 0
  <2>1. PICK x \in received : x \in Event /\ AggregateOf[x] = a
    BY <1>1
  <2>2. Projects[x] = "upsert" /\ "COMMERCIAL_PROJECTION" \in ConsumersOf[x]
    BY <1>4, <2>1, MarksProjectedAggregate
  <2> DEFINE t == [event |-> x, consumer |-> "COMMERCIAL_PROJECTION"]
  <2>3. t \in Task /\ t.event = x /\ t.consumer = "COMMERCIAL_PROJECTION"
    BY <2>1, <2>2 DEF Task, Consumers
  <2>4. State(t) = "APPLIED"
    BY <1>2, <2>1, <2>3
  <2>5. isProjected(t)
    BY <2>2, <2>3 DEF isProjected
  <2> QED BY <2>1, <2>3, <2>4, <2>5 DEF InboxInv, AppliedIsProjected
<1> QED BY <1>3, <1>4 DEF supported

(* Custody: the new tasks are pending, and nothing else moves.             *)
LEMMA ReceiveStep ==
  ASSUME InboxInv, InboxTypeOK', NEW e \in Event, Receive(e)
  PROVE  InboxInv'
<1>1. received' = received \cup {e}
  <2>1. inbox \in Seq(Event) /\ inbox' = Append(inbox, e)
    BY DEF Receive, InboxInv, InboxTypeOK
  <2>2. Len(inbox) \in Nat /\ Len(inbox') = Len(inbox) + 1
    BY <2>1
  <2>3. inbox'[Len(inbox) + 1] = e /\ \A i \in 1..Len(inbox) : inbox'[i] = inbox[i]
    BY <2>1
  <2>4. 1..Len(inbox') = (1..Len(inbox)) \cup {Len(inbox) + 1}
    BY <2>2
  <2> QED BY <2>3, <2>4 DEF received
<1>2. /\ e \notin received
      /\ \A p \in Event : precedes(p, e) => p \in received
      /\ UNCHANGED <<discrepancy, effectVars, batch, step, failures>>
  BY DEF Receive
<1>3. \A t \in Task : State(t)' = IF t.event = e THEN "PENDING" ELSE State(t)
  BY DEF Receive, State, InboxInv, InboxTypeOK, WorkRow
<1>4. \A t \in Task : t.event = e => State(t) = "NONE"
  BY <1>2 DEF InboxInv, TasksOfReceived
<1>5. AppliedStays /\ ProjectedStays
  BY <1>2, <1>3, <1>4 DEF AppliedStays, ProjectedStays, effectVars
<1>6. ArrivedInOrder'
  <2> SUFFICES ASSUME NEW x \in received', NEW p \in Event, precedes(p, x)
               PROVE  p \in received'
    BY DEF ArrivedInOrder, precedes
  <2> QED BY <1>1, <1>2 DEF InboxInv, ArrivedInOrder
<1>7. TasksOfReceived'
  BY <1>1, <1>3 DEF InboxInv, TasksOfReceived
<1>8. MarkedIffIssued'
  BY <1>2, <1>3, <1>4 DEF InboxInv, MarkedIffIssued, effectVars
<1>9. DiscrepanciesStayOpen'
  BY <1>2, <1>3, <1>4 DEF InboxInv, DiscrepanciesStayOpen
<1>10. AppliedIsProjected'
  BY <1>2, <1>3 DEF InboxInv, AppliedIsProjected, isProjected, effectVars
<1>11. ReadyIsSupported'
  <2> SUFFICES ASSUME NEW w \in Worker, ready(w)' PROVE supported(step[w].task.event)'
    BY DEF ReadyIsSupported
  <2>1. ready(w) /\ step'[w] = step[w]
    BY <1>2 DEF ready
  <2>2. step[w].task.event \in Event
    BY <2>1, TaskParts DEF ready, InboxInv, InboxTypeOK, Step
  <2> DEFINE x == step[w].task.event
  <2>3. supported(x)
    BY <2>1 DEF InboxInv, ReadyIsSupported
  <2>4. x' = x
    BY <2>1
  <2> HIDE DEF x
  <2>5. \A y \in Event : supported(y) => supported(y)'
    BY <1>5, SupportStays
  <2> QED BY <2>2, <2>3, <2>4, <2>5 DEF x
<1>12. DependenciesFirst'
  BY <1>3, <1>5, SupportStays, TaskParts DEF InboxInv, DependenciesFirst
<1>13. NoReturnIsLost'
  BY <1>2, <1>3 DEF InboxInv, NoReturnIsLost, effectVars
<1> QED
  BY <1>6, <1>7, <1>8, <1>9, <1>10, <1>11, <1>12, <1>13 DEF InboxInv

(* A receipt of the authority itself moves its stock and no task.          *)
LEMMA OwnReceiptStep ==
  ASSUME InboxInv, InboxTypeOK', NEW e \in Event, CompletePurchaseReceipt(e)
  PROVE  InboxInv'
<1>1. /\ UNCHANGED <<inbox, work, discrepancy, projected, returned, batch, step, failures>>
      /\ e \in Own /\ issued' = issued \cup {e}
  BY DEF CompletePurchaseReceipt
<1>2. received' = received /\ \A t \in Task : State(t)' = State(t)
  BY <1>1 DEF received, State
<1>3. AppliedStays /\ ProjectedStays
  BY <1>1, <1>2 DEF AppliedStays, ProjectedStays
<1>4. ArrivedInOrder' /\ TasksOfReceived'
  BY <1>2 DEF InboxInv, ArrivedInOrder, TasksOfReceived, precedes
<1>5. MarkedIffIssued'
  <2>1. \A t \in Task : t.event # e
    BY <1>1, TaskParts
  <2> QED BY <1>1, <1>2, <2>1 DEF InboxInv, MarkedIffIssued
<1>6. DiscrepanciesStayOpen' /\ AppliedIsProjected' /\ NoReturnIsLost'
  BY <1>1, <1>2 DEF InboxInv, DiscrepanciesStayOpen, AppliedIsProjected, isProjected,
                    NoReturnIsLost
<1>7. ReadyIsSupported'
  <2> SUFFICES ASSUME NEW w \in Worker, ready(w)' PROVE supported(step[w].task.event)'
    BY DEF ReadyIsSupported
  <2>1. ready(w) /\ step'[w] = step[w]
    BY <1>1 DEF ready
  <2>2. step[w].task.event \in Event
    BY <2>1, TaskParts DEF ready, InboxInv, InboxTypeOK, Step
  <2> DEFINE x == step[w].task.event
  <2>3. supported(x)
    BY <2>1 DEF InboxInv, ReadyIsSupported
  <2>4. x' = x
    BY <2>1
  <2> HIDE DEF x
  <2>5. \A y \in Event : supported(y) => supported(y)'
    BY <1>3, SupportStays
  <2> QED BY <2>2, <2>3, <2>4, <2>5 DEF x
<1>8. DependenciesFirst'
  BY <1>2, <1>3, SupportStays, TaskParts DEF InboxInv, DependenciesFirst
<1> QED BY <1>4, <1>5, <1>6, <1>7, <1>8 DEF InboxInv

(* The effect of a ready task, together with its mark.                     *)
LEMMA ApplyStep ==
  ASSUME InboxInv, InboxTypeOK', NEW w \in Worker, ready(w),
         NEW t \in Task, t = step[w].task,
         ownsTask(w, t), apply(t), markApplied(w, t), finish(w),
         UNCHANGED <<inbox, discrepancy, batch>>
  PROVE  InboxInv'
<1> DEFINE e == t.event
<1>1. e \in Event /\ AggregateOf[e] \in Aggregate /\ VersionOf[e] \in Nat \ {0}
  BY TaskParts
<1>2. State(t) = "PENDING" /\ State(t)' = "APPLIED"
  <2>1. State(t) = "PENDING"
    BY DEF ownsTask
  <2>2. work' = [work EXCEPT ![t].state = "APPLIED", ![t].leased = FALSE]
    BY DEF markApplied
  <2>3. work'[t].state = "APPLIED"
    BY <1>1, <2>2 DEF InboxInv, InboxTypeOK, WorkRow
  <2> QED BY <2>1, <2>3 DEF State
<1>3. \A u \in Task : u # t => State(u)' = State(u)
  <2>1. work' = [work EXCEPT ![t].state = "APPLIED", ![t].leased = FALSE]
    BY DEF markApplied
  <2>2. \A u \in Task : u # t => work'[u] = work[u]
    BY <1>1, <2>1 DEF InboxInv, InboxTypeOK
  <2> QED BY <2>2 DEF State
<1>4. supported(e)
  BY DEF InboxInv, ReadyIsSupported
<1>5. \A v \in Worker : ready(v)' => v # w /\ step'[v] = step[v] /\ ready(v)
  <2>1. step'[w] = None
    BY DEF finish, InboxInv, InboxTypeOK
  <2>2. \A v \in Worker : v # w => step'[v] = step[v]
    BY DEF finish, InboxInv, InboxTypeOK
  <2> QED BY <2>1, <2>2 DEF ready
<1>6. t.consumer = "INVENTORY_AUTHORITY"
        => issued' = issued \cup {e} /\ UNCHANGED <<projected, returned>>
  BY DEF apply, applyToInventory
<1>7. t.consumer = "COMMERCIAL_PROJECTION"
        => issued' = issued /\ applyToProjection(e)
  BY DEF apply, applyToProjection
<1>8. t.consumer \notin {"INVENTORY_AUTHORITY", "COMMERCIAL_PROJECTION"}
        => UNCHANGED <<issued, projected, returned>>
  BY DEF apply, effectVars
<1> HIDE DEF e
<1>9. ProjectedStays /\ returned \subseteq returned'
  <2>1. CASE t.consumer = "COMMERCIAL_PROJECTION"
    <3>1. returned \subseteq returned'
      BY <1>7, <2>1 DEF applyToProjection
    <3>2. \A a \in Aggregate : projected'[a] = projected[a]
                               \/ (a = AggregateOf[e] /\ projected'[a] = VersionOf[e])
      BY <1>1, <1>7, <2>1 DEF applyToProjection, InboxInv, InboxTypeOK
    <3> QED BY <1>1, <3>1, <3>2 DEF ProjectedStays
  <2> QED BY <1>6, <1>8, <2>1 DEF ProjectedStays
<1>10. AppliedStays
  BY <1>2, <1>3 DEF AppliedStays
<1>11. received' = received
  BY DEF received
<1>12. ArrivedInOrder'
  BY <1>11 DEF InboxInv, ArrivedInOrder, precedes
<1>13. TasksOfReceived'
  BY <1>1, <1>2, <1>3, <1>11 DEF InboxInv, TasksOfReceived
<1>14. MarkedIffIssued'
  <2> SUFFICES ASSUME NEW u \in Task, u.consumer = "INVENTORY_AUTHORITY"
               PROVE  State(u)' = "APPLIED" <=> u.event \in issued'
    BY DEF MarkedIffIssued
  <2>1. State(u) = "APPLIED" <=> u.event \in issued
    BY DEF InboxInv, MarkedIffIssued
  <2>2. CASE u = t
    BY <1>2, <1>6, <2>2 DEF e
  <2>3. CASE u # t
    <3>1. t.consumer = "INVENTORY_AUTHORITY" => u.event # e
      BY <1>1, <2>3, SameTask DEF e
    <3>2. u.event \in issued' <=> u.event \in issued
      BY <1>6, <1>7, <1>8, <3>1
    <3> QED BY <1>3, <2>1, <2>3, <3>2
  <2> QED BY <2>2, <2>3
<1>15. DiscrepanciesStayOpen'
  BY <1>1, <1>2, <1>3 DEF InboxInv, DiscrepanciesStayOpen
<1>16. AppliedIsProjected'
  <2> SUFFICES ASSUME NEW u \in Task, State(u)' = "APPLIED", isProjected(u)
               PROVE  projected'[AggregateOf[u.event]] # 0
    BY DEF AppliedIsProjected, isProjected
  <2>1. AggregateOf[u.event] \in Aggregate
    BY TaskParts
  <2>2. CASE u = t
    <3>1. /\ t.consumer = "COMMERCIAL_PROJECTION"
          /\ Projects[e] \in {"upsert", "closure"}
      BY <2>2 DEF isProjected, e
    <3>2. projected' = IF VersionOf[e] > projected[AggregateOf[e]]
                       THEN [projected EXCEPT ![AggregateOf[e]] = VersionOf[e]] ELSE projected
      BY <1>7, <3>1 DEF applyToProjection
    <3>3. projected \in [Aggregate -> Nat]
      BY DEF InboxInv, InboxTypeOK
    <3>4. projected'[AggregateOf[e]] # 0
      BY <1>1, <3>2, <3>3
    <3> QED BY <2>2, <3>4 DEF e
  <2>3. CASE u # t
    <3>1. State(u) = "APPLIED"
      BY <1>3, <2>3
    <3>2. projected[AggregateOf[u.event]] # 0
      BY <3>1 DEF InboxInv, AppliedIsProjected
    <3> QED BY <1>9, <2>1, <3>2 DEF ProjectedStays
  <2> QED BY <2>2, <2>3
<1>17. ReadyIsSupported'
  <2> SUFFICES ASSUME NEW v \in Worker, ready(v)'
               PROVE  supported(step[v].task.event)'
    BY DEF ReadyIsSupported
  <2> DEFINE x == step[v].task.event
  <2>1. ready(v) /\ step'[v] = step[v]
    BY <1>5
  <2>2. x \in Event /\ x' = x /\ supported(x)
    BY <2>1, TaskParts DEF ready, InboxInv, InboxTypeOK, Step, ReadyIsSupported
  <2>3. \A y \in Event : supported(y) => supported(y)'
    BY <1>9, <1>10, SupportStays
  <2> HIDE DEF x
  <2> QED BY <2>2, <2>3 DEF x
<1>18. DependenciesFirst'
  <2>1. \A y \in Event : dependenciesBegun(y) => dependenciesBegun(y)'
    BY <1>9, <1>10, SupportStays
  <2>2. \A u \in Task : State(u)' = "APPLIED" => dependenciesBegun(u.event)
    BY <1>3, <1>4 DEF InboxInv, DependenciesFirst, supported, e
  <2> QED BY <2>1, <2>2, TaskParts DEF DependenciesFirst
<1>19. NoReturnIsLost'
  <2> SUFFICES ASSUME NEW u \in Task, State(u)' = "APPLIED",
                      u.consumer = "COMMERCIAL_PROJECTION", Projects[u.event] = "mark"
               PROVE  DependsOn[u.event] \subseteq returned'
    BY DEF NoReturnIsLost
  <2>1. CASE u = t
    <3>1. \A a \in DependsOn[e] : projected[a] # 0
      BY <1>4, <2>1 DEF supported, e
    <3>2. returned' = returned \cup {a \in DependsOn[e] : projected[a] # 0}
      BY <1>7, <2>1 DEF applyToProjection, e
    <3> QED BY <2>1, <3>1, <3>2 DEF e
  <2>2. CASE u # t
    BY <1>3, <1>9, <2>2 DEF InboxInv, NoReturnIsLost
  <2> QED BY <2>1, <2>2
<1> QED
  BY <1>12, <1>13, <1>14, <1>15, <1>16, <1>17, <1>18, <1>19 DEF InboxInv

-----------------------------------------------------------------------------
(* The worker drops its task, or notes why it was not applied.             *)
leavesReady(w) ==
  \/ finish(w)
  \/ \E x : x # "ready" /\ step[w] # None /\ step' = [step EXCEPT ![w].outcome = x]

LEMMA StepPreserves == InboxInv /\ [InboxNext]_inboxVars => InboxInv'
<1> SUFFICES ASSUME InboxInv, [InboxNext]_inboxVars PROVE InboxInv'
  OBVIOUS
<1>0. InboxTypeOK /\ InboxTypeOK'
  BY TypesStep DEF InboxInv
<1>a. /\ work \in [Task -> WorkRow]
      /\ discrepancy \in [Task -> {"NONE", "OPEN", "RESOLVED"}]
      /\ step \in [Worker -> Step \cup {None}]
  BY <1>0 DEF InboxTypeOK
<1>b. \A t \in Task : /\ State(t) = "DISCREPANCY" => discrepancy[t] = "OPEN"
                      /\ discrepancy[t] = "RESOLVED" => State(t) = "APPLIED"
  BY DEF InboxInv, DiscrepanciesStayOpen
<1>c. \A w \in Worker : ready(w) => \E e \in Event : e = step[w].task.event /\ supported(e)
  BY <1>a, TaskParts DEF InboxInv, ReadyIsSupported, ready, Step
<1>d. \A w \in Worker : step[w] # None => step[w].task \in Task
  BY <1>a DEF Step
<1>e. (UNCHANGED discrepancy /\ \A t \in Task : State(t)' = State(t)) => DiscrepanciesStayOpen'
  BY <1>b DEF DiscrepanciesStayOpen
<1>1. ASSUME NEW w \in Worker, ClaimBatch(w) PROVE InboxInv'
  <2>1. \A t \in Task : State(t)' = State(t)
    <3>1. \A t \in Task : work'[t] = work[t] \/ work'[t] = [work[t] EXCEPT !.leased = TRUE, !.holder = w]
      BY <1>1 DEF ClaimBatch, claimPending
    <3>2. \A t \in Task : work'[t].state = work[t].state
      <4> TAKE t \in Task
      <4>1. work[t] \in WorkRow
        BY <1>a
      <4> QED BY <3>1, <4>1 DEF WorkRow
    <3> QED BY <3>2 DEF State
  <2>2. UNCHANGED <<inbox, discrepancy, effectVars, step>>
    BY <1>1 DEF ClaimBatch
  <2>3. \A v \in Worker : ready(v)' => \E e \in Event : e = step'[v].task.event /\ supported(e)
    BY <1>c, <2>2 DEF ready
  <2> QED BY <1>0, <1>e, <2>1, <2>2, <2>3, QuietStep DEF Quiet
<1>2. ASSUME NEW w \in Worker, NEW t \in batch[w], Begin(w, t) PROVE InboxInv'
  <2>1. t \in Task /\ t.event \in Event
    BY <1>0, TaskParts DEF InboxTypeOK
  <2>2. UNCHANGED <<inbox, work, discrepancy, effectVars>>
    BY <1>2 DEF Begin
  <2>3. \A v \in Worker : ready(v)' => \E e \in Event : e = step'[v].task.event /\ supported(e)
    <3> SUFFICES ASSUME NEW v \in Worker, ready(v)'
                 PROVE  \E e \in Event : e = step'[v].task.event /\ supported(e)
      OBVIOUS
    <3>1. CASE v # w
      BY <1>2, <1>a, <1>c, <3>1 DEF Begin, ready
    <3>2. CASE v = w
      <4>1. step'[w].task = t /\ ~pendingDependency(t.event)
        BY <1>2, <1>a, <3>2 DEF Begin, ready
      <4> QED BY <2>1, <3>2, <4>1, DependenciesSupport
    <3> QED BY <3>1, <3>2
  <2> QED BY <1>0, <1>e, <2>2, <2>3, QuietStep DEF Quiet, State
<1>3. ASSUME NEW w \in Worker, UNCHANGED <<inbox, effectVars>>, DiscrepanciesStayOpen',
             \A t \in Task : \/ State(t)' = State(t)
                             \/ /\ State(t) \notin {"NONE", "APPLIED"}
                                /\ State(t)' \notin {"NONE", "APPLIED"},
             leavesReady(w)
      PROVE  InboxInv'
  <2>1. \A v \in Worker : v # w => step'[v] = step[v]
    BY <1>3, <1>a DEF finish, leavesReady
  <2>2. ~ready(w)'
    <3>1. CASE finish(w)
      BY <1>a, <3>1 DEF finish, ready
    <3>2. CASE ~finish(w)
      <4>1. PICK x : x # "ready" /\ step[w] # None /\ step' = [step EXCEPT ![w].outcome = x]
        BY <1>3, <3>2 DEF leavesReady
      <4>2. step'[w].outcome = x
        BY <1>a, <4>1 DEF Step
      <4> QED BY <4>1, <4>2 DEF ready
    <3> QED BY <3>1, <3>2
  <2>3. \A v \in Worker : ready(v)' => \E e \in Event : e = step'[v].task.event /\ supported(e)
    BY <1>c, <2>1, <2>2 DEF ready
  <2> QED BY <1>0, <1>3, <2>3, QuietStep DEF Quiet
<1>4. ASSUME NEW w \in Worker, Apply(w) PROVE InboxInv'
  <2>1. PICK t \in Task : t = step[w].task
    BY <1>4, <1>d DEF Apply
  <2>2. UNCHANGED <<inbox, discrepancy, batch, failures>> /\ ready(w)
    BY <1>4 DEF Apply, ready
  <2>3. CASE isClaimActive(w, t) /\ refusal(t) = "none"
    <3>1. apply(t) /\ markApplied(w, t) /\ finish(w) /\ ownsTask(w, t)
      BY <1>4, <2>1, <2>3 DEF Apply, isClaimActive
    <3> QED BY <1>0, <2>1, <2>2, <3>1, ApplyStep
  <2>4. CASE ~isClaimActive(w, t) \/ refusal(t) # "none"
    <3>1. UNCHANGED <<work, effectVars>>
      BY <1>4, <2>1, <2>4 DEF Apply
    <3>2. \/ finish(w)
          \/ step[w] # None /\ step' = [step EXCEPT ![w].outcome = refusal(t)]
      BY <1>4, <2>1, <2>4 DEF Apply
    <3>3. refusal(t) # "ready"
      BY DEF refusal
    <3>4. \A u \in Task : State(u)' = State(u)
      BY <3>1 DEF State
    <3>5. leavesReady(w)
      BY <3>2, <3>3 DEF leavesReady
    <3> QED BY <1>3, <1>e, <2>2, <3>1, <3>4, <3>5
  <2> QED BY <2>3, <2>4
<1>5. ASSUME NEW w \in Worker, ApplyFails(w) PROVE InboxInv'
  <2>1. UNCHANGED <<inbox, work, discrepancy, effectVars>>
    BY <1>5 DEF ApplyFails
  <2>2. step[w] # None /\ step' = [step EXCEPT ![w].outcome = "retry"]
    BY <1>5 DEF ApplyFails
  <2>3. \A u \in Task : State(u)' = State(u)
    BY <2>1 DEF State
  <2>4. leavesReady(w)
    <3>1. "retry" # "ready"
      OBVIOUS
    <3> QED BY <2>2, <3>1 DEF leavesReady
  <2> QED BY <1>3, <1>e, <2>1, <2>3, <2>4
<1>6. ASSUME NEW w \in Worker, Reschedule(w) PROVE InboxInv'
  <2>1. PICK t \in Task : t = step[w].task
    BY <1>6, <1>d DEF Reschedule
  <2>2. UNCHANGED <<inbox, discrepancy, effectVars>> /\ finish(w) /\ markRetryable(w, t)
    BY <1>6, <2>1 DEF Reschedule
  <2>3. \A u \in Task : State(u)' = State(u)
    BY <1>a, <2>2 DEF markRetryable, State, WorkRow
  <2> QED BY <1>3, <1>e, <2>2, <2>3 DEF leavesReady
<1>7. ASSUME NEW w \in Worker, OpenDiscrepancy(w) PROVE InboxInv'
  <2>1. PICK t \in Task : t = step[w].task
    BY <1>7, <1>d DEF OpenDiscrepancy
  <2>2. UNCHANGED <<inbox, effectVars>> /\ finish(w)
    BY <1>7 DEF OpenDiscrepancy
  <2>3. CASE ~ownsTask(w, t)
    <3>1. UNCHANGED <<work, discrepancy>>
      BY <1>7, <2>1, <2>3 DEF OpenDiscrepancy
    <3>2. \A u \in Task : State(u)' = State(u)
      BY <3>1 DEF State
    <3> QED BY <1>3, <1>e, <2>2, <3>1, <3>2 DEF leavesReady
  <2>4. CASE ownsTask(w, t)
    <3>1. /\ work' = [work EXCEPT ![t].state = "DISCREPANCY", ![t].leased = FALSE]
          /\ discrepancy' = [discrepancy EXCEPT ![t] = IF @ = "NONE" THEN "OPEN" ELSE @]
      BY <1>7, <2>1, <2>4 DEF OpenDiscrepancy
    <3>2. State(t) = "PENDING" /\ State(t)' = "DISCREPANCY"
      BY <1>a, <2>4, <3>1 DEF ownsTask, State, WorkRow
    <3>3. \A u \in Task : u # t => State(u)' = State(u) /\ discrepancy'[u] = discrepancy[u]
      BY <1>a, <3>1 DEF State
    <3>4. discrepancy'[t] = "OPEN"
      BY <1>a, <1>b, <3>1, <3>2
    <3>5. DiscrepanciesStayOpen'
      BY <1>b, <3>2, <3>3, <3>4 DEF DiscrepanciesStayOpen
    <3>6. \A u \in Task : \/ State(u)' = State(u)
                          \/ /\ State(u) \notin {"NONE", "APPLIED"}
                             /\ State(u)' \notin {"NONE", "APPLIED"}
      BY <3>2, <3>3
    <3> QED BY <1>3, <2>2, <3>5, <3>6 DEF leavesReady
  <2> QED BY <2>3, <2>4
<1>8. ASSUME NEW w \in Worker, Crash(w) PROVE InboxInv'
  <2>1. UNCHANGED <<inbox, work, discrepancy, effectVars>> /\ finish(w)
    BY <1>8 DEF Crash
  <2>2. \A u \in Task : State(u)' = State(u)
    BY <2>1 DEF State
  <2> QED BY <1>3, <1>e, <2>1, <2>2 DEF leavesReady
<1>9. ASSUME UNCHANGED <<inbox, effectVars, step>>, DiscrepanciesStayOpen',
             \A t \in Task : \/ State(t)' = State(t)
                             \/ /\ State(t) \notin {"NONE", "APPLIED"}
                                /\ State(t)' \notin {"NONE", "APPLIED"}
      PROVE  InboxInv'
  <2>1. \A v \in Worker : ready(v)' => \E e \in Event : e = step'[v].task.event /\ supported(e)
    BY <1>9, <1>c DEF ready
  <2> QED BY <1>0, <1>9, <2>1, QuietStep DEF Quiet
<1>10. ASSUME NEW t \in Task, RetrySyncDiscrepancy(t) PROVE InboxInv'
  <2>1. UNCHANGED <<inbox, discrepancy, effectVars, step>>
    BY <1>10 DEF RetrySyncDiscrepancy
  <2>2. /\ State(t) = "DISCREPANCY" /\ State(t)' = "PENDING"
        /\ \A u \in Task : u # t => State(u)' = State(u)
    BY <1>10, <1>a DEF RetrySyncDiscrepancy, State, WorkRow
  <2>3. DiscrepanciesStayOpen'
    BY <1>b, <2>1, <2>2 DEF DiscrepanciesStayOpen
  <2>4. \A u \in Task : \/ State(u)' = State(u)
                        \/ /\ State(u) \notin {"NONE", "APPLIED"}
                           /\ State(u)' \notin {"NONE", "APPLIED"}
    BY <2>2
  <2> QED BY <1>9, <2>1, <2>3, <2>4
<1>11. ASSUME NEW t \in Task, ResolveSyncDiscrepancy(t) PROVE InboxInv'
  <2>1. UNCHANGED <<inbox, work, effectVars, step>>
    BY <1>11 DEF ResolveSyncDiscrepancy
  <2>2. \A u \in Task : State(u)' = State(u)
    BY <2>1 DEF State
  <2>3. /\ State(t) = "APPLIED"
        /\ \A u \in Task : u # t => discrepancy'[u] = discrepancy[u]
    BY <1>11, <1>a DEF ResolveSyncDiscrepancy
  <2>4. DiscrepanciesStayOpen'
    BY <1>b, <2>2, <2>3 DEF DiscrepanciesStayOpen
  <2> QED BY <1>9, <2>1, <2>2, <2>4
<1>12. ASSUME NEW t \in Task, LeaseExpires(t) \/ BackoffElapses(t) PROVE InboxInv'
  <2>1. UNCHANGED <<inbox, discrepancy, effectVars, step>>
    BY <1>12 DEF LeaseExpires, BackoffElapses
  <2>2. \A u \in Task : State(u)' = State(u)
    <3>1. \/ work' = [work EXCEPT ![t].leased = FALSE]
          \/ work' = [work EXCEPT ![t].due = TRUE]
      BY <1>12 DEF LeaseExpires, BackoffElapses
    <3>2. work'[t].state = work[t].state
      BY <1>a, <3>1 DEF WorkRow
    <3>3. \A u \in Task : u # t => work'[u] = work[u]
      BY <1>a, <3>1
    <3> QED BY <3>2, <3>3 DEF State
  <2> QED BY <1>9, <1>e, <2>1, <2>2
<1>13. ASSUME NEW e \in Event, Receive(e) PROVE InboxInv'
  BY <1>0, <1>13, ReceiveStep
<1>14. CASE UNCHANGED inboxVars
  <2>1. UNCHANGED <<inbox, work, discrepancy, effectVars, step>>
    BY <1>14 DEF inboxVars
  <2>2. \A u \in Task : State(u)' = State(u)
    BY <2>1 DEF State
  <2> QED BY <1>9, <1>e, <2>1, <2>2
<1>15. ASSUME NEW e \in Event, CompletePurchaseReceipt(e) PROVE InboxInv'
  BY <1>0, <1>15, OwnReceiptStep
<1> QED
  BY <1>1, <1>2, <1>4, <1>5, <1>6, <1>7, <1>8, <1>10, <1>11, <1>12, <1>13, <1>14, <1>15
  DEF InboxNext, InboxStep, Process

LEMMA InitHolds == InboxInit => InboxInv
<1> SUFFICES ASSUME InboxInit PROVE InboxInv
  OBVIOUS
<1>1. InboxTypeOK
  BY TypesInit
<1>2. received = {}
  BY DEF InboxInit, received
<1>3. \A t \in Task : State(t) = "NONE" /\ discrepancy[t] = "NONE"
  BY DEF InboxInit, State
<1>4. issued = {} /\ \A w \in Worker : ~ready(w)
  BY DEF InboxInit, ready
<1>5. ArrivedInOrder /\ TasksOfReceived
  BY <1>2, <1>3 DEF ArrivedInOrder, TasksOfReceived
<1>6. MarkedIffIssued /\ DiscrepanciesStayOpen
  BY <1>3, <1>4 DEF MarkedIffIssued, DiscrepanciesStayOpen
<1>7. AppliedIsProjected /\ ReadyIsSupported
  BY <1>3, <1>4 DEF AppliedIsProjected, ReadyIsSupported
<1>8. DependenciesFirst /\ NoReturnIsLost
  BY <1>3 DEF DependenciesFirst, NoReturnIsLost
<1> QED BY <1>1, <1>5, <1>6, <1>7, <1>8 DEF InboxInv

-----------------------------------------------------------------------------
(* What was applied.                                                       *)

(* A step of the inbox forgets no fact and no application.                 *)
Remembers == received \subseteq received' /\ AppliedStays

LEMMA InboxRemembers ==
  ASSUME InboxInv, InboxStep \/ \E e \in Event : Receive(e)
  PROVE  Remembers
PROOF
  <1>a. work \in [Task -> WorkRow] /\ inbox \in Seq(Event)
    BY DEF InboxInv, InboxTypeOK
  <1>b. ASSUME NEW t \in Task, State(t) # "APPLIED", inbox' = inbox,
               \A u \in Task : u # t => State(u)' = State(u)
        PROVE  Remembers
    BY <1>b DEF Remembers, AppliedStays, received
  <1>c. ASSUME inbox' = inbox, \A u \in Task : State(u)' = State(u)
        PROVE  Remembers
    BY <1>c DEF Remembers, AppliedStays, received
  <1>d. ASSUME inbox' = inbox, work' = work
        PROVE  Remembers
    BY <1>c, <1>d DEF State
  <1>1. ASSUME NEW w \in Worker, ClaimBatch(w) PROVE Remembers
    <2>1. inbox' = inbox
      BY <1>1 DEF ClaimBatch
    <2>2. \A u \in Task : State(u)' = State(u)
      BY <1>1, <1>a DEF ClaimBatch, claimPending, State, WorkRow
    <2>3. QED
      BY <1>c, <2>1, <2>2
  <1>2. ASSUME NEW w \in Worker, (\E t \in batch[w] : Begin(w, t)) \/ ApplyFails(w) \/ Crash(w)
        PROVE  Remembers
    BY <1>2, <1>d DEF Begin, ApplyFails, Crash
  <1>3. ASSUME NEW w \in Worker, Apply(w) \/ OpenDiscrepancy(w) PROVE Remembers
    <2> DEFINE t == step[w].task
    <2>1. t \in Task /\ inbox' = inbox
      BY <1>3 DEF Apply, OpenDiscrepancy, InboxInv, InboxTypeOK, Step
    <2>2. \/ work' = work
          \/ /\ ownsTask(w, t)
             /\ \E s \in {"APPLIED", "DISCREPANCY"} :
                  work' = [work EXCEPT ![t].state = s, ![t].leased = FALSE]
      BY <1>3 DEF Apply, OpenDiscrepancy, markApplied
    <2>3. CASE work' = work
      BY <1>d, <2>1, <2>3
    <2>4. CASE /\ ownsTask(w, t)
               /\ \E s \in {"APPLIED", "DISCREPANCY"} :
                    work' = [work EXCEPT ![t].state = s, ![t].leased = FALSE]
      <3>1. State(t) # "APPLIED"
        BY <2>4 DEF ownsTask
      <3>2. \A u \in Task : u # t => State(u)' = State(u)
        BY <1>a, <2>1, <2>4 DEF State
      <3>3. QED
        BY <1>b, <2>1, <3>1, <3>2
    <2>5. QED
      BY <2>2, <2>3, <2>4
  <1>4. ASSUME NEW w \in Worker, Reschedule(w) PROVE Remembers
    <2> DEFINE t == step[w].task
    <2>1. t \in Task /\ inbox' = inbox
      BY <1>4 DEF Reschedule, InboxInv, InboxTypeOK, Step
    <2>2. CASE work' = work
      BY <1>d, <2>1, <2>2
    <2>3. CASE ownsTask(w, t) /\ work' = [work EXCEPT ![t].due = FALSE, ![t].leased = FALSE]
      <3>1. State(t) # "APPLIED"
        BY <2>3 DEF ownsTask
      <3>2. \A u \in Task : u # t => State(u)' = State(u)
        BY <1>a, <2>1, <2>3 DEF State
      <3>3. QED
        BY <1>b, <2>1, <3>1, <3>2
    <2>4. QED
      BY <1>4, <2>2, <2>3 DEF Reschedule, markRetryable
  <1>5. ASSUME NEW t \in Task,
               RetrySyncDiscrepancy(t) \/ LeaseExpires(t) \/ BackoffElapses(t)
        PROVE  Remembers
    <2>1. State(t) # "APPLIED" /\ inbox' = inbox
      BY <1>5 DEF RetrySyncDiscrepancy, LeaseExpires, BackoffElapses
    <2>2. \A u \in Task : u # t => State(u)' = State(u)
      BY <1>5, <1>a DEF RetrySyncDiscrepancy, LeaseExpires, BackoffElapses, State
    <2>3. QED
      BY <1>b, <2>1, <2>2
  <1>6. ASSUME NEW t \in Task, ResolveSyncDiscrepancy(t) PROVE Remembers
    BY <1>6, <1>d DEF ResolveSyncDiscrepancy
  <1>7. ASSUME NEW e \in Event, Receive(e) PROVE Remembers
    <2>1. received \subseteq received'
      <3>1. inbox' = Append(inbox, e)
        BY <1>7 DEF Receive
      <3>2. Len(inbox') = Len(inbox) + 1 /\ \A i \in 1..Len(inbox) : inbox'[i] = inbox[i]
        BY <1>a, <3>1
      <3>3. Len(inbox) \in Nat
        BY <1>a
      <3>4. QED
        BY <3>2, <3>3 DEF received
    <2>2. \A t \in Task : t.event = e => State(t) = "NONE"
      BY <1>7 DEF Receive, InboxInv, TasksOfReceived
    <2>3. \A t \in Task : t.event # e => State(t)' = State(t)
      BY <1>7, <1>a DEF Receive, State
    <2>4. QED
      BY <2>1, <2>2, <2>3 DEF Remembers, AppliedStays
  <1>8. ASSUME NEW e \in Event, CompletePurchaseReceipt(e) PROVE Remembers
    BY <1>8, <1>d DEF CompletePurchaseReceipt
  <1>9. QED
    BY <1>1, <1>2, <1>3, <1>4, <1>5, <1>6, <1>7, <1>8 DEF InboxStep, Process

(* A fact enters the stock by itself, once, only if its evidence names the *)
(* item that the authority has, and only if what it takes out is there.    *)
LEMMA IssuedStep ==
  ASSUME InboxTypeOK, [InboxNext]_inboxVars, issued' # issued
  PROVE  \E e \in Event \ issued :
           /\ issued' = issued \cup {e}
           /\ ~conflicts(e)
           /\ ~(Issue[e] > 0 /\ Issue[e] > balance)
<1>1. \/ \E w \in Worker : Apply(w)
      \/ \E e \in Event : CompletePurchaseReceipt(e)
  BY DEF InboxNext, InboxStep, Process, ClaimBatch, Begin, Reschedule, OpenDiscrepancy,
         ApplyFails, Crash, RetrySyncDiscrepancy, ResolveSyncDiscrepancy, LeaseExpires,
         BackoffElapses, Receive, effectVars, inboxVars
<1>2. ASSUME NEW w \in Worker, Apply(w)
      PROVE  \E e \in Event \ issued :
               /\ issued' = issued \cup {e}
               /\ ~conflicts(e)
               /\ ~(Issue[e] > 0 /\ Issue[e] > balance)
  <2> DEFINE t == step[w].task
             e == t.event
  <2>1. e \in Event
    <3>1. t \in Task
      BY <1>2 DEF Apply, InboxTypeOK, Step
    <3> QED BY <3>1, TaskParts
  <2>2. /\ t.consumer = "INVENTORY_AUTHORITY" /\ refusal(t) = "none"
        /\ issued' = issued \cup {e}
    BY <1>2 DEF Apply, apply, applyToInventory, applyToProjection, effectVars
  <2> HIDE DEF t
  <2>3. e \notin issued
    BY <2>2
  <2>4. ~conflicts(e) /\ ~(Issue[e] > 0 /\ Issue[e] > balance)
    BY <2>2, <2>3 DEF refusal
  <2> QED BY <2>1, <2>2, <2>3, <2>4
<1>3. ASSUME NEW e \in Event, CompletePurchaseReceipt(e)
      PROVE  /\ e \notin issued /\ issued' = issued \cup {e}
             /\ ~conflicts(e)
             /\ ~(Issue[e] > 0 /\ Issue[e] > balance)
  <2>1. Issue[e] \in Int /\ Issue[e] <= 0
    BY <1>3 DEF CompletePurchaseReceipt
  <2> QED BY <1>3, <2>1 DEF CompletePurchaseReceipt
<1> QED BY <1>1, <1>2, <1>3

(* The movements of the facts are finitely many, and leave no less than    *)
(* nothing.                                                                *)
StockCovered == IsFiniteSet(issued) /\ issued \subseteq Event /\ balance \in Nat

LEMMA StockCoveredStep ==
  ASSUME InboxTypeOK, StockCovered, [InboxNext]_inboxVars
  PROVE  StockCovered'
<1>1. CASE UNCHANGED issued
  BY <1>1 DEF StockCovered, balance
<1>2. CASE ~ UNCHANGED issued
  <2>1. PICK e \in Event \ issued : /\ issued' = issued \cup {e}
                                    /\ ~(Issue[e] > 0 /\ Issue[e] > balance)
    BY <1>2, IssuedStep
  <2>2. /\ IsFiniteSet(issued) /\ issued \subseteq Event /\ balance \in Nat
        /\ Issue[e] \in Int /\ \A x \in issued : Issue[x] \in Int
    BY DEF StockCovered
  <2>3. SumFunctionOnSet(Issue, issued \cup {e}) = Issue[e] + SumFunctionOnSet(Issue, issued)
    BY <2>2, SumWithOneMore
  <2>4. SumFunctionOnSet(Issue, issued) \in Int
    BY <2>2, SumOfIntegers
  <2>5. balance' = balance - Issue[e]
    BY <2>1, <2>2, <2>3, <2>4 DEF balance
  <2>6. balance' \in Nat
    BY <2>1, <2>2, <2>5
  <2>7. IsFiniteSet(issued \cup {e})
    BY <2>2, FS_AddElement
  <2> QED BY <2>1, <2>2, <2>6, <2>7 DEF StockCovered
<1> QED BY <1>1, <1>2

(* The item of the product, once the authority has one.                    *)
ItemStays == items # {} => items' = items

LEMMA ItemStep ==
  ASSUME InboxTypeOK, [InboxNext]_inboxVars
  PROVE  ItemStays /\ (OneItem => OneItem')
<1>1. CASE UNCHANGED issued
  <2>1. items' = items
    BY <1>1 DEF items
  <2> QED BY <2>1 DEF ItemStays, OneItem
<1>2. CASE ~ UNCHANGED issued
  <2>1. PICK e \in Event : issued' = issued \cup {e} /\ ~conflicts(e)
    BY <1>2, IssuedStep
  <2>2. items' = items \cup ({Names[e]} \ {None})
    BY <2>1 DEF items
  <2>3. CASE items = {}
    BY <2>2, <2>3 DEF ItemStays, OneItem
  <2>4. CASE items # {}
    <3>1. Names[e] = None \/ Names[e] \in items
      BY <2>1, <2>4 DEF conflicts
    <3>2. items' = items
      BY <2>2, <3>1
    <3> QED BY <3>2 DEF ItemStays, OneItem
  <2> QED BY <2>3, <2>4
<1> QED BY <1>1, <1>2

-----------------------------------------------------------------------------
(* Theorems about the inbox.                                               *)

(* The invariant behind all of them: what a worker found when it checked   *)
(* the dependencies of its task still holds when it applies it.            *)
THEOREM InboxInvariance == InboxSpec => []InboxInv
<1>1. InboxInit => InboxInv
  BY InitHolds
<1>2. InboxInv /\ [InboxNext]_inboxVars => InboxInv'
  BY StepPreserves
<1> QED BY <1>1, <1>2, PTL DEF InboxSpec

(* Every table and every worker keep their types.                          *)
THEOREM InboxTypeCorrectness == InboxSpec => []InboxTypeOK
<1>1. InboxInv => InboxTypeOK
  BY DEF InboxInv
<1> QED BY <1>1, InboxInvariance, PTL

(* However many workers share the database, and whenever their leases end, *)
(* stock moves for a fact exactly when its task is marked APPLIED.         *)
THEOREM EffectsAreMarked == InboxSpec => []MarkedIffIssued
<1>1. InboxInv => MarkedIffIssued
  BY DEF InboxInv
<1> QED BY <1>1, InboxInvariance, PTL

(* No task is applied before the first fact of each aggregate its contract *)
(* depends on, although the check is made outside the transaction.         *)
THEOREM DependenciesAreApplied == InboxSpec => []DependenciesFirst
<1>1. InboxInv => DependenciesFirst
  BY DEF InboxInv
<1> QED BY <1>1, InboxInvariance, PTL

(* Every return that was applied to the projection marked its sale.        *)
THEOREM ReturnsAreVisible == InboxSpec => []NoReturnIsLost
<1>1. InboxInv => NoReturnIsLost
  BY DEF InboxInv
<1> QED BY <1>1, InboxInvariance, PTL

(* A task in DISCREPANCY has an open discrepancy, and only an applied task *)
(* a resolved one.                                                         *)
THEOREM DiscrepanciesAreOpen == InboxSpec => []DiscrepanciesStayOpen
<1>1. InboxInv => DiscrepanciesStayOpen
  BY DEF InboxInv
<1> QED BY <1>1, InboxInvariance, PTL

(* No step, of any worker or person, takes back what was applied or loses  *)
(* a fact that was received: the coordinator's answer about a fact may be  *)
(* believed however late it is used.                                       *)
THEOREM ApplicationsAreFinal == InboxSpec => [][Remembers]_inboxVars
<1>1. InboxInv /\ [InboxNext]_inboxVars => [Remembers]_inboxVars
  BY InboxRemembers DEF InboxNext
<1> QED BY <1>1, InboxInvariance, PTL DEF InboxSpec

(* The facts of all the terminals never take out more than the coordinator *)
(* has, in whatever order its workers apply them: what is missing when the *)
(* transaction looks goes to a person instead.                             *)
THEOREM StockIsNeverOverdrawn == InboxSpec => [](balance >= 0)
<1>1. InboxInit => StockCovered
  BY SumOfNothing, FS_EmptySet DEF InboxInit, StockCovered, balance
<1>2. InboxTypeOK /\ StockCovered /\ [InboxNext]_inboxVars => StockCovered'
  BY StockCoveredStep
<1>3. StockCovered => balance >= 0
  BY DEF StockCovered
<1> QED BY <1>1, <1>2, <1>3, InboxTypeCorrectness, PTL DEF InboxSpec

(* The terminals and the coordinator may name an item of their own for one *)
(* product, in any number of receipts: the stock never has two of them.    *)
THEOREM ProductHasOneItem == InboxSpec => []OneItem
<1>1. InboxInit => OneItem
  <2>1. InboxInit => items = {OpeningItem} \ {None}
    BY DEF InboxInit, items
  <2> QED BY <2>1 DEF OneItem
<1>2. InboxTypeOK /\ OneItem /\ [InboxNext]_inboxVars => OneItem'
  BY ItemStep
<1> QED BY <1>1, <1>2, InboxTypeCorrectness, PTL DEF InboxSpec

(* And the item it has does not change any more: a task that it contradicts *)
(* is contradicted for good, so retrying it, which is what ProcessSyncInbox *)
(* does with the refusals it does not list, cannot succeed.                *)
THEOREM ContradictionsAreFinal == InboxSpec => [][ItemStays]_inboxVars
<1>1. InboxTypeOK /\ [InboxNext]_inboxVars => [ItemStays]_inboxVars
  BY ItemStep
<1> QED BY <1>1, InboxTypeCorrectness, PTL DEF InboxSpec

-----------------------------------------------------------------------------
(* Coordinated operations.                                                 *)

-----------------------------------------------------------------------------
LEMMA AppliedThereStates ==
  ASSUME NEW e \in Event
  PROVE  appliedThere(e) <=>
           e \in received /\ \A t \in Task : t.event = e => State(t) = "APPLIED"
PROOF BY DEF appliedThere, applicationProgress

LEMMA AppliedThereStays ==
  ASSUME Remembers, NEW e \in Event, appliedThere(e)
  PROVE  appliedThere(e)'
PROOF
  <1>1. e \in received /\ \A t \in Task : t.event = e => State(t) = "APPLIED"
    BY AppliedThereStates
  <1>2. e \in received' /\ \A t \in Task : t.event = e => State(t)' = "APPLIED"
    BY <1>1 DEF Remembers, AppliedStays
  <1>3. QED
    BY <1>2 DEF appliedThere, applicationProgress

(* Failures are counted beside the inbox.                                  *)
LEMMA InboxRests ==
  ASSUME InboxInv, UNCHANGED <<inbox, work, discrepancy, effectVars, batch, step>>,
         failures' \in Nat
  PROVE  InboxInv' /\ Remembers
PROOF
  <1>1. InboxTypeOK'
    BY DEF InboxInv, InboxTypeOK, effectVars
  <1>2. \A t \in Task : State(t)' = State(t)
    BY DEF State
  <1>3. \A w \in Worker : ready(w)' => \E e \in Event : e = step'[w].task.event /\ supported(e)
    <2> SUFFICES ASSUME NEW w \in Worker, ready(w)'
                 PROVE  step[w].task.event \in Event /\ supported(step[w].task.event)
      OBVIOUS
    <2>1. ready(w)
      BY DEF ready
    <2>2. step[w].task \in Task
      BY <2>1 DEF ready, InboxInv, InboxTypeOK, Step
    <2>3. QED
      BY <2>1, <2>2, TaskParts DEF InboxInv, ReadyIsSupported
  <1>4. DiscrepanciesStayOpen'
    BY <1>2 DEF InboxInv, DiscrepanciesStayOpen
  <1>5. Quiet
    BY <1>2 DEF Quiet
  <1>6. InboxInv'
    BY <1>1, <1>3, <1>4, <1>5, QuietStep
  <1>7. Remembers
    BY <1>2 DEF Remembers, AppliedStays, received
  <1>8. QED
    BY <1>6, <1>7

(* No step of a worker, a person or a clock takes a task out of APPLIED.   *)
-----------------------------------------------------------------------------
(* What the inbox does keeps what the terminal knows.                      *)
LEMMA SagaRests ==
  ASSUME OperationInv, InboxInv', Remembers, UNCHANGED sagaVars
  PROVE  OperationInv'
PROOF
  <1>0. \A o \in Operation : EvidenceOf[o] \subseteq Event
    BY OperationConstants
  <1>1. OperationTypeOK'
    BY DEF OperationInv, OperationTypeOK, sagaVars, Steps, Probe
  <1>2. AnswersAreTrue'
    <2> SUFFICES ASSUME probe # None, NEW e \in EvidenceOf[probe.operation],
                        probe.answers[e] = "APPLIED"
                 PROVE  appliedThere(e)'
      BY DEF AnswersAreTrue, sagaVars
    <2>1. probe.operation \in Operation
      BY DEF OperationInv, OperationTypeOK, Probe
    <2>2. appliedThere(e) /\ e \in Event
      BY <1>0, <2>1 DEF OperationInv, AnswersAreTrue
    <2>3. QED
      BY <2>2, AppliedThereStays
  <1>3. RemoteIsApplied'
    <2> SUFFICES ASSUME NEW o \in Operation, steps[o].remote = "APPLIED", NEW e \in EvidenceOf[o]
                 PROVE  appliedThere(e)'
      BY DEF RemoteIsApplied, sagaVars
    <2>1. appliedThere(e) /\ e \in Event
      BY <1>0 DEF OperationInv, RemoteIsApplied
    <2>2. QED
      BY <2>1, AppliedThereStays
  <1>4. CompletedHasRemote'
    BY DEF OperationInv, CompletedHasRemote, sagaVars
  <1>5. QED
    BY <1>1, <1>2, <1>3, <1>4 DEF OperationInv

LEMMA RestOfInbox ==
  ASSUME OperationInv,
         UNCHANGED <<inbox, work, discrepancy, effectVars, batch, step>>,
         UNCHANGED failures \/ Fails
  PROVE  /\ InboxInv'
         /\ \A e \in Event : appliedThere(e) => appliedThere(e)'
PROOF
  <1>1. failures' \in Nat
    BY DEF Fails, OperationInv, InboxInv, InboxTypeOK
  <1>2. InboxInv' /\ Remembers
    BY <1>1, InboxRests DEF OperationInv
  <1>3. QED
    BY <1>2, AppliedThereStays

LEMMA EvidenceIsFacts ==
  \A o \in Operation : EvidenceOf[o] \subseteq Event
PROOF BY OperationConstants

-----------------------------------------------------------------------------
(* The terminal's steps.                                                   *)

LEMMA BeginOperationKeepsInv ==
  ASSUME OperationInv, NEW o \in Operation, BeginOperation(o)
  PROVE  OperationInv'
PROOF
  <1>1. InboxInv' /\ \A e \in Event : appliedThere(e) => appliedThere(e)'
    BY RestOfInbox DEF BeginOperation, inboxVars
  <1>2. steps' = [steps EXCEPT ![o] = [local |-> "PENDING", remote |-> "PENDING"]]
        /\ status' = [status EXCEPT ![o] = "PENDING_RECONCILIATION"]
        /\ UNCHANGED <<outbox, reachable, probe>>
    BY DEF BeginOperation
  <1>3. OperationTypeOK'
    BY <1>2 DEF OperationInv, OperationTypeOK, Steps, Probe
  <1>4. AnswersAreTrue'
    BY <1>1, <1>2, EvidenceIsFacts DEF OperationInv, AnswersAreTrue, OperationTypeOK, Probe
  <1>5. RemoteIsApplied' /\ CompletedHasRemote'
    BY <1>1, <1>2, EvidenceIsFacts DEF OperationInv, OperationTypeOK, RemoteIsApplied, CompletedHasRemote
  <1>6. QED
    BY <1>1, <1>3, <1>4, <1>5 DEF OperationInv

LEMMA DerivedStatus ==
  ASSUME NEW r
  PROVE  /\ derived(r) \in {"PENDING_RECONCILIATION", "COMPLETED", "NEEDS_REVIEW"}
         /\ derived(r) = "COMPLETED" => r.remote = "APPLIED"
PROOF BY DEF derived

LEMMA RecordLocalEffectKeepsInv ==
  ASSUME OperationInv, NEW o \in Operation, RecordLocalEffect(o)
  PROVE  OperationInv'
PROOF
  <1>1. InboxInv' /\ \A e \in Event : appliedThere(e) => appliedThere(e)'
    BY RestOfInbox DEF RecordLocalEffect, inboxVars
  <1>2. /\ steps' = [steps EXCEPT ![o].local = "APPLIED"]
        /\ status' = [status EXCEPT ![o] = derived(steps'[o])]
        /\ outbox' = outbox \cup EvidenceOf[o]
        /\ UNCHANGED <<reachable, probe>>
    BY DEF RecordLocalEffect
  <1>3. \A x \in Operation : steps[x] \in Steps
    BY DEF OperationInv, OperationTypeOK
  <1>4. /\ steps' \in [Operation -> Steps]
        /\ \A x \in Operation : steps'[x].remote = steps[x].remote
    BY <1>2, <1>3 DEF OperationInv, OperationTypeOK, Steps
  <1>5. OperationTypeOK'
    BY <1>2, <1>4, DerivedStatus, EvidenceIsFacts DEF OperationInv, OperationTypeOK, Steps, Probe
  <1>6. AnswersAreTrue'
    BY <1>1, <1>2, EvidenceIsFacts DEF OperationInv, AnswersAreTrue, OperationTypeOK, Probe
  <1>7. RemoteIsApplied'
    BY <1>1, <1>4, EvidenceIsFacts DEF OperationInv, RemoteIsApplied
  <1>8. CompletedHasRemote'
    BY <1>2, <1>4, DerivedStatus DEF OperationInv, OperationTypeOK, CompletedHasRemote
  <1>9. QED
    BY <1>1, <1>5, <1>6, <1>7, <1>8 DEF OperationInv

(* Steps that change the link or forget the probe.                         *)
LEMMA ForgettingKeepsInv ==
  ASSUME OperationInv,
         UNCHANGED <<inbox, work, discrepancy, effectVars, batch, step>>,
         UNCHANGED failures \/ Fails,
         UNCHANGED <<steps, status, outbox>>, reachable' \in BOOLEAN,
         probe' \in {probe, None}
  PROVE  OperationInv'
PROOF
  <1>1. InboxInv' /\ \A e \in Event : appliedThere(e) => appliedThere(e)'
    BY RestOfInbox
  <1>2. OperationTypeOK'
    BY DEF OperationInv, OperationTypeOK, Steps, Probe
  <1>3. AnswersAreTrue'
    BY <1>1, EvidenceIsFacts DEF OperationInv, AnswersAreTrue, OperationTypeOK, Probe
  <1>4. RemoteIsApplied' /\ CompletedHasRemote'
    BY <1>1, EvidenceIsFacts DEF OperationInv, RemoteIsApplied, CompletedHasRemote
  <1>5. QED
    BY <1>1, <1>2, <1>3, <1>4 DEF OperationInv

-----------------------------------------------------------------------------
(* Reconciliation.                                                         *)

LEMMA StartReconciliationKeepsInv ==
  ASSUME OperationInv, NEW o \in Operation, StartReconciliation(o)
  PROVE  OperationInv'
PROOF
  <1> DEFINE begun == [operation |-> o, answers |-> [e \in Event |-> "unasked"], recorded |-> FALSE]
  <1>1. InboxInv' /\ \A e \in Event : appliedThere(e) => appliedThere(e)'
    BY RestOfInbox DEF StartReconciliation, inboxVars
  <1>2. probe' = begun /\ UNCHANGED <<steps, status, outbox, reachable>>
    BY DEF StartReconciliation
  <1>3. begun \in Probe /\ \A e \in Event : begun.answers[e] # "APPLIED"
    BY DEF Probe, Answers
  <1>4. begun.operation = o
    OBVIOUS
  <1> HIDE DEF begun
  <1>5. OperationTypeOK'
    BY <1>2, <1>3 DEF OperationInv, OperationTypeOK, Steps, Probe
  <1>6. AnswersAreTrue'
    BY <1>2, <1>3, <1>4, EvidenceIsFacts DEF AnswersAreTrue
  <1>7. RemoteIsApplied' /\ CompletedHasRemote'
    BY <1>1, <1>2, EvidenceIsFacts DEF OperationInv, RemoteIsApplied, CompletedHasRemote
  <1>8. QED
    BY <1>1, <1>5, <1>6, <1>7 DEF OperationInv

(* An answer APPLIED is given only for a fact that is applied.             *)
LEMMA AskKeepsInv ==
  ASSUME OperationInv, NEW e \in Event, Ask(e)
  PROVE  OperationInv'
PROOF
  <1>1. InboxInv' /\ \A x \in Event : appliedThere(x) => appliedThere(x)'
    BY RestOfInbox DEF Ask, inboxVars
  <1>2. probe \in Probe /\ probe' = [probe EXCEPT !.answers[e] = answerTo(e)]
        /\ UNCHANGED <<steps, status, outbox, reachable>>
    BY DEF Ask, OperationInv, OperationTypeOK
  <1>3. answerTo(e) \in Answers /\ (answerTo(e) = "APPLIED" => appliedThere(e))
    BY DEF answerTo, applicationProgress, appliedThere, Answers
  <1>4. /\ probe' \in Probe
        /\ probe'.operation = probe.operation
        /\ probe'.answers[e] = answerTo(e)
        /\ \A x \in Event : x # e => probe'.answers[x] = probe.answers[x]
    BY <1>2, <1>3 DEF Probe
  <1>5. OperationTypeOK'
    BY <1>2, <1>4 DEF OperationInv, OperationTypeOK, Steps, Probe
  <1>6. AnswersAreTrue'
    <2>1. probe # None /\ probe.operation \in Operation
      BY <1>2 DEF Ask, Probe
    <2>2. \A x \in EvidenceOf[probe.operation] : probe'.answers[x] = "APPLIED" => appliedThere(x)
      BY <1>3, <1>4, <2>1, EvidenceIsFacts DEF OperationInv, AnswersAreTrue
    <2>3. QED
      BY <1>1, <1>4, <2>1, <2>2, EvidenceIsFacts DEF AnswersAreTrue
  <1>7. RemoteIsApplied' /\ CompletedHasRemote'
    BY <1>1, <1>2, EvidenceIsFacts DEF OperationInv, RemoteIsApplied, CompletedHasRemote
  <1>8. QED
    BY <1>1, <1>5, <1>6, <1>7 DEF OperationInv

LEMMA ConcludeKeepsInv ==
  ASSUME OperationInv, Conclude
  PROVE  OperationInv'
PROOF
  <1> DEFINE o == probe.operation
  <1>1. InboxInv' /\ \A e \in Event : appliedThere(e) => appliedThere(e)'
    BY RestOfInbox DEF Conclude, inboxVars
  <1>2. probe # None /\ probe \in Probe /\ o \in Operation
        /\ UNCHANGED <<status, outbox, reachable>>
    BY DEF Conclude, OperationInv, OperationTypeOK, Probe
  <1>3. CASE probe' = None /\ UNCHANGED steps
    BY <1>2, <1>3, ForgettingKeepsInv DEF Conclude, inboxVars, OperationInv, OperationTypeOK
  <1>4. CASE verdict # "PENDING" /\ recordStep(o, verdict) /\ probe' = [probe EXCEPT !.recorded = TRUE]
    <2>1. verdict \in {"REJECTED", "APPLIED"}
      BY <1>4 DEF verdict
    <2>2. verdict = "APPLIED" => \A e \in EvidenceOf[o] : appliedThere(e)
      <3>1. verdict = "APPLIED" => answers = {"APPLIED"}
        BY DEF verdict
      <3>2. verdict = "APPLIED" => \A e \in EvidenceOf[o] : probe.answers[e] = "APPLIED"
        BY <3>1 DEF answers
      <3>3. QED
        BY <1>2, <3>2 DEF OperationInv, AnswersAreTrue
    <2>3. steps \in [Operation -> Steps] /\ steps[o] \in Steps
      BY <1>2 DEF OperationInv, OperationTypeOK
    <2>4. steps' = [steps EXCEPT ![o].remote = IF steps[o].remote = "APPLIED" THEN "APPLIED" ELSE verdict]
      BY <1>4 DEF recordStep
    <2>5. /\ steps' \in [Operation -> Steps]
          /\ steps'[o].remote = IF steps[o].remote = "APPLIED" THEN "APPLIED" ELSE verdict
          /\ \A x \in Operation : x # o => steps'[x] = steps[x]
      BY <1>2, <2>1, <2>3, <2>4 DEF Steps
    <2>6. /\ probe' \in Probe /\ probe'.operation = o /\ probe'.answers = probe.answers
      BY <1>2, <1>4 DEF Probe
    <2>7. OperationTypeOK'
      BY <1>2, <2>5, <2>6 DEF OperationInv, OperationTypeOK, Steps, Probe
    <2>8. AnswersAreTrue'
      BY <1>1, <1>2, <2>6, EvidenceIsFacts DEF OperationInv, AnswersAreTrue
    <2>9. RemoteIsApplied'
      BY <1>1, <1>2, <2>2, <2>5, EvidenceIsFacts DEF OperationInv, RemoteIsApplied
    <2>10. CompletedHasRemote'
      BY <1>2, <2>5 DEF OperationInv, CompletedHasRemote
    <2>11. QED
      BY <1>1, <2>7, <2>8, <2>9, <2>10 DEF OperationInv
  <1>5. QED
    BY <1>3, <1>4 DEF Conclude

LEMMA RefreshStatusKeepsInv ==
  ASSUME OperationInv, refreshStatus
  PROVE  OperationInv'
PROOF
  <1> DEFINE o == probe.operation
  <1>1. InboxInv' /\ \A e \in Event : appliedThere(e) => appliedThere(e)'
    BY RestOfInbox DEF refreshStatus, inboxVars
  <1>2. /\ o \in Operation /\ probe' = None
        /\ status' = [status EXCEPT ![o] = derived(steps[o])]
        /\ UNCHANGED <<steps, outbox, reachable>>
    BY DEF refreshStatus, OperationInv, OperationTypeOK, Probe
  <1>3. OperationTypeOK'
    BY <1>2, DerivedStatus DEF OperationInv, OperationTypeOK, Steps, Probe
  <1>4. AnswersAreTrue' /\ RemoteIsApplied'
    BY <1>1, <1>2, EvidenceIsFacts DEF OperationInv, AnswersAreTrue, RemoteIsApplied
  <1>5. CompletedHasRemote'
    BY <1>2, DerivedStatus DEF OperationInv, OperationTypeOK, CompletedHasRemote
  <1>6. QED
    BY <1>1, <1>3, <1>4, <1>5 DEF OperationInv

-----------------------------------------------------------------------------
LEMMA OperationInitInv == OperationInit => OperationInv
PROOF
  <1> SUFFICES ASSUME OperationInit PROVE OperationInv
    OBVIOUS
  <1>1. InboxInv
    BY InitHolds DEF OperationInit
  <1>2. OperationTypeOK
    BY DEF OperationInit, OperationTypeOK, Steps
  <1>3. AnswersAreTrue /\ RemoteIsApplied /\ CompletedHasRemote
    BY DEF OperationInit, AnswersAreTrue, RemoteIsApplied, CompletedHasRemote
  <1>4. QED
    BY <1>1, <1>2, <1>3 DEF OperationInv

LEMMA OperationStepInv == OperationInv /\ [OperationNext]_operationVars => OperationInv'
PROOF
  <1> SUFFICES ASSUME OperationInv, [OperationNext]_operationVars PROVE OperationInv'
    OBVIOUS
  <1>1. CASE UNCHANGED operationVars
    <2>1. UNCHANGED inboxVars /\ UNCHANGED sagaVars
      BY <1>1 DEF operationVars
    <2>2. /\ UNCHANGED <<inbox, work, discrepancy, effectVars, batch, step>>
          /\ UNCHANGED failures
      BY <2>1 DEF inboxVars
    <2>3. UNCHANGED <<steps, status, outbox, probe>> /\ reachable' \in BOOLEAN
      BY <2>1 DEF sagaVars, OperationInv, OperationTypeOK
    <2>4. QED
      BY <2>2, <2>3, ForgettingKeepsInv
  <1>2. CASE (InboxStep \/ \E e \in Event : Receive(e)) /\ UNCHANGED sagaVars
    <2>1. InboxInv'
      BY <1>2, StepPreserves DEF InboxNext, OperationInv
    <2>2. Remembers
      BY <1>2, InboxRemembers DEF OperationInv
    <2>3. QED
      BY <1>2, <2>1, <2>2, SagaRests
  <1>3. ASSUME NEW e \in Event, Ask(e) PROVE OperationInv'
    BY <1>3, AskKeepsInv
  <1>4. ASSUME NEW o \in Operation, BeginOperation(o) \/ RecordLocalEffect(o) \/ StartReconciliation(o)
        PROVE  OperationInv'
    BY <1>4, BeginOperationKeepsInv, RecordLocalEffectKeepsInv, StartReconciliationKeepsInv
  <1>5. CASE LinkFails \/ LinkReturns
    <2>1. UNCHANGED <<inbox, work, discrepancy, effectVars, batch, step>>
          /\ (UNCHANGED failures \/ Fails)
      BY <1>5 DEF LinkFails, LinkReturns, inboxVars
    <2>2. UNCHANGED <<steps, status, outbox, probe>> /\ reachable' \in BOOLEAN
      BY <1>5 DEF LinkFails, LinkReturns
    <2>3. QED
      BY <2>1, <2>2, ForgettingKeepsInv
  <1>6. CASE TerminalCrash
    <2>1. UNCHANGED <<inbox, work, discrepancy, effectVars, batch, step>> /\ Fails
      BY <1>6 DEF TerminalCrash
    <2>2. UNCHANGED <<steps, status, outbox, reachable>> /\ probe' = None
      BY <1>6 DEF TerminalCrash
    <2>3. reachable' \in BOOLEAN
      BY <2>2 DEF OperationInv, OperationTypeOK
    <2>4. QED
      BY <2>1, <2>2, <2>3, ForgettingKeepsInv
  <1>7. CASE Conclude \/ refreshStatus
    BY <1>7, ConcludeKeepsInv, RefreshStatusKeepsInv
  <1>8. QED
    BY <1>1, <1>2, <1>3, <1>4, <1>5, <1>6, <1>7 DEF OperationNext, Arrives

-----------------------------------------------------------------------------
(* The inductive invariant of operations, probes and coordinator.          *)
THEOREM OperationInvariance == OperationSpec => []OperationInv
PROOF BY OperationInitInv, OperationStepInv, PTL DEF OperationSpec

(* Operations, their steps and probes keep their types.                    *)
THEOREM OperationTypeCorrectness == OperationSpec => []OperationTypeOK
PROOF
  <1>1. OperationInv => OperationTypeOK
    BY DEF OperationInv
  <1>2. QED
    BY <1>1, OperationInvariance, PTL

(* An operation is COMPLETED only when the coordinator applied its facts.  *)
THEOREM CompletedOperationsAreApplied == OperationSpec => []CompletedIsApplied
PROOF
  <1>1. OperationInv => CompletedIsApplied
    BY DEF OperationInv, CompletedHasRemote, RemoteIsApplied, CompletedIsApplied, appliedThere
  <1>2. QED
    BY <1>1, OperationInvariance, PTL
-----------------------------------------------------------------------------
(* Evidence and completion are final.                                      *)

(* Nothing is recorded of an operation that was not begun.                 *)
EvidenceInv ==
  /\ \A o \in Operation :
       /\ status[o] = "COMPLETED" => steps[o].local = "APPLIED"
       /\ status[o] = "NONE" => steps[o].local # "APPLIED" /\ steps[o].remote # "APPLIED"
  /\ probe # None => status[probe.operation] # "NONE"

EvidenceStays ==
  \A o \in Operation : /\ steps[o].local = "APPLIED" => steps'[o].local = "APPLIED"
                       /\ steps[o].remote = "APPLIED" => steps'[o].remote = "APPLIED"
                       /\ status[o] = "COMPLETED" => status'[o] = "COMPLETED"

(* The status that is derived from both steps is COMPLETED, and only that. *)
LEMMA CompletedIsDerived ==
  ASSUME NEW row, row.remote \in {"NONE", "PENDING", "APPLIED", "REJECTED"}
  PROVE  /\ derived(row) = "COMPLETED" <=> row.local = "APPLIED" /\ row.remote = "APPLIED"
         /\ derived(row) # "NONE"
BY DEF derived

LEMMA EvidenceStep ==
  ASSUME OperationInv, EvidenceInv, [OperationNext]_operationVars
  PROVE  EvidenceInv' /\ EvidenceStays
<1>1. /\ steps \in [Operation -> Steps] /\ DOMAIN status = Operation
      /\ probe # None => probe.operation \in Operation
      /\ \A o \in Operation : status[o] = "COMPLETED" => steps[o].remote = "APPLIED"
  BY DEF OperationInv, OperationTypeOK, CompletedHasRemote, Probe
<1>2. CASE UNCHANGED <<steps, status>> /\ probe' \in {probe, None}
  BY <1>2 DEF EvidenceInv, EvidenceStays
<1>3. ASSUME NEW o \in Operation, BeginOperation(o)
      PROVE  EvidenceInv' /\ EvidenceStays
  <2>1. /\ status[o] = "NONE" /\ status'[o] = "PENDING_RECONCILIATION"
        /\ \A p \in Operation \ {o} : status'[p] = status[p] /\ steps'[p] = steps[p]
    BY <1>1, <1>3 DEF BeginOperation
  <2>2. /\ steps[o].local # "APPLIED" /\ steps[o].remote # "APPLIED"
        /\ steps'[o].local # "APPLIED" /\ UNCHANGED probe
    BY <1>1, <1>3, <2>1 DEF BeginOperation, EvidenceInv
  <2> QED BY <1>1, <2>1, <2>2 DEF EvidenceInv, EvidenceStays
<1>4. ASSUME NEW o \in Operation, RecordLocalEffect(o)
      PROVE  EvidenceInv' /\ EvidenceStays
  <2>1. /\ steps[o].local # "APPLIED" /\ steps'[o].local = "APPLIED"
        /\ steps'[o].remote = steps[o].remote /\ UNCHANGED probe
        /\ status'[o] = derived(steps'[o])
        /\ \A p \in Operation \ {o} : status'[p] = status[p] /\ steps'[p] = steps[p]
    BY <1>1, <1>4 DEF RecordLocalEffect, Steps
  <2>2. status'[o] # "NONE"
    <3>1. steps'[o].remote \in {"NONE", "PENDING", "APPLIED", "REJECTED"}
      BY <1>1, <2>1 DEF Steps
    <3> QED BY <2>1, <3>1, CompletedIsDerived
  <2> QED BY <1>1, <2>1, <2>2 DEF EvidenceInv, EvidenceStays
<1>5. CASE Conclude
  <2>1. /\ UNCHANGED status
        /\ \/ UNCHANGED steps /\ probe' = None
           \/ recordStep(probe.operation, verdict) /\ probe' = [probe EXCEPT !.recorded = TRUE]
    BY <1>5 DEF Conclude
  <2>2. CASE UNCHANGED steps /\ probe' = None
    BY <1>2, <2>1, <2>2
  <2>3. CASE recordStep(probe.operation, verdict) /\ probe' = [probe EXCEPT !.recorded = TRUE]
    <3>1. probe.operation \in Operation /\ status[probe.operation] # "NONE"
      BY <1>1, <1>5 DEF Conclude, EvidenceInv
    <3>2. probe'.operation = probe.operation
      BY <1>1, <1>5, <2>3 DEF Conclude, OperationInv, OperationTypeOK, Probe
    <3>3. \A p \in Operation : /\ steps'[p].local = steps[p].local
                               /\ steps[p].remote = "APPLIED" => steps'[p].remote = "APPLIED"
      BY <1>1, <2>3, <3>1 DEF recordStep, Steps
    <3>4. \A p \in Operation \ {probe.operation} : steps'[p] = steps[p]
      BY <1>1, <2>3, <3>1 DEF recordStep
    <3> QED BY <2>1, <3>1, <3>2, <3>3, <3>4 DEF EvidenceInv, EvidenceStays
  <2> QED BY <2>1, <2>2, <2>3
<1>6. CASE refreshStatus
  <2> DEFINE o == probe.operation
  <2>1. /\ o \in Operation /\ UNCHANGED steps /\ probe' = None
        /\ status' = [status EXCEPT ![o] = derived(steps[o])]
    BY <1>1, <1>6 DEF refreshStatus
  <2>2. steps[o].remote \in {"NONE", "PENDING", "APPLIED", "REJECTED"}
    BY <1>1, <2>1 DEF Steps
  <2> HIDE DEF o
  <2>3. /\ status'[o] = derived(steps[o])
        /\ \A p \in Operation \ {o} : status'[p] = status[p]
    BY <1>1, <2>1
  <2>4. /\ derived(steps[o]) = "COMPLETED"
             <=> steps[o].local = "APPLIED" /\ steps[o].remote = "APPLIED"
        /\ derived(steps[o]) # "NONE"
    BY <2>2, CompletedIsDerived
  <2> QED BY <1>1, <2>1, <2>3, <2>4 DEF EvidenceInv, EvidenceStays
<1>7. ASSUME NEW o \in Operation, StartReconciliation(o)
      PROVE  EvidenceInv' /\ EvidenceStays
  <2>1. /\ UNCHANGED <<steps, status>> /\ status[o] = "PENDING_RECONCILIATION"
        /\ probe'.operation = o
    BY <1>7 DEF StartReconciliation, awaitsCoordinator
  <2> QED BY <2>1 DEF EvidenceInv, EvidenceStays
<1>8. ASSUME NEW e \in Event, Ask(e)
      PROVE  EvidenceInv' /\ EvidenceStays
  <2>1. UNCHANGED <<steps, status>> /\ probe # None /\ probe'.operation = probe.operation
    BY <1>8 DEF Ask, OperationInv, OperationTypeOK, Probe
  <2> QED BY <2>1 DEF EvidenceInv, EvidenceStays
<1>9. CASE OperationNext
  BY <1>2, <1>3, <1>4, <1>5, <1>6, <1>7, <1>8, <1>9
     DEF OperationNext, Arrives, LinkFails, LinkReturns, TerminalCrash, sagaVars
<1>10. CASE UNCHANGED operationVars
  BY <1>2, <1>10 DEF operationVars, sagaVars
<1> QED BY <1>9, <1>10

(* No later answer, crash or repeated command takes back the evidence of a *)
(* step, and a completed operation stays completed.                        *)
THEOREM CompletionIsFinal == OperationSpec => [][EvidenceStays]_operationVars
<1>1. OperationInit => EvidenceInv
  BY DEF OperationInit, EvidenceInv
<1>2. OperationInv /\ EvidenceInv /\ [OperationNext]_operationVars
        => EvidenceInv' /\ EvidenceStays
  BY EvidenceStep
<1> QED BY <1>1, <1>2, OperationInvariance, PTL DEF OperationSpec
=============================================================================
