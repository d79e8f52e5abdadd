---------------------------- MODULE SyncInbox ----------------------------
(***************************************************************************)
(* What a node does with the facts it has in custody: one durable task per *)
(* (event, consumer) (drivers/db/src/sync-inbox-work-store.ts), processed  *)
(* by ProcessSyncInbox (core/.../sync/process-sync-inbox.ts), which waits  *)
(* for dependencies, applies the effect and its progress mark together,    *)
(* retries, or opens a discrepancy for a person to deal with               *)
(* (discrepancy-use-cases.ts).                                             *)
(*                                                                         *)
(* `attempts` is compared only for equality with the generation of a       *)
(* claim, and a worker never has two claims of one task: the model keeps,  *)
(* instead of the number, who made the last claim (`holder`).  `due` and   *)
(* `leased` are the comparisons of next_attempt_at and lease_until with    *)
(* the clock, as in SyncDelivery.                                          *)
(***************************************************************************)
EXTENDS Integers, FiniteSets, Sequences, Functions

CONSTANTS
  Event,          \* the facts the node may receive: ids in the order of their creation
  Aggregate,      \* the aggregates they belong to
  AggregateOf,    \* AggregateOf[e] is the aggregate of fact e
  VersionOf,      \* VersionOf[e] is its aggregate version
  ConsumersOf,    \* consumers its contract declares
  DependsOn,      \* aggregates its contract says must be applied before it
  Projects,       \* Projects[e]: what the commercial projection does with it
  Issue,          \* Issue[e]: units it takes out of the authoritative stock
  Names,          \* Names[e]: the stock item its evidence names, or None (a sale)
  Makes,          \* facts that make the item of a product without one: receipts
  Own,            \* receipts of the authority itself, that no consumer applies
  OpeningItem,    \* the item the authority has before any fact is applied, or None
  OpeningStock,   \* units in stock before any fact is applied
  Registered,     \* consumers the process composes
  Worker,         \* processes that run ProcessSyncInbox over one database
  BatchLimit,     \* the limit of a batch
  MaxFaults,      \* bound: failures of the environment in a behaviour
  None            \* no worker, no step

Consumers == {"COMMERCIAL_PROJECTION", "INVENTORY_AUTHORITY", "CATALOG_REFERENCE"}

(* "upsert": ShiftOpened, SaleCompleted; "closure": ShiftClosed;           *)
(* "mark": SaleReturned; "none": facts with no commercial projection.      *)
Projections == {"upsert", "closure", "mark", "none"}

ASSUME InboxConstants ==
  /\ Event \subseteq Nat
  /\ AggregateOf \in [Event -> Aggregate]
  /\ VersionOf \in [Event -> Nat \ {0}]
  /\ ConsumersOf \in [Event -> SUBSET Consumers]
  /\ DependsOn \in [Event -> SUBSET Aggregate]
  /\ Projects \in [Event -> Projections]
  /\ Issue \in [Event -> Int]
  /\ Makes \subseteq Event /\ Own \subseteq Makes
  /\ \A e \in Own : ConsumersOf[e] = {} /\ Issue[e] <= 0
  /\ OpeningStock \in Nat
  /\ OpeningItem = None => OpeningStock = 0
  /\ Registered \subseteq Consumers
  /\ BatchLimit \in Nat \ {0}
  /\ MaxFaults \in Nat
  /\ None \notin Worker

(* A return marks its only dependency, a sale, and every fact that a sale  *)
(* publishes is projected.                                                 *)
ASSUME MarksProjectedAggregate ==
  \A e \in Event : Projects[e] = "mark" =>
    \A x \in Event : AggregateOf[x] \in DependsOn[e] =>
      Projects[x] = "upsert" /\ "COMMERCIAL_PROJECTION" \in ConsumersOf[x]

VARIABLES
  inbox,         \* sync_inbox_event, in the order of received_at
  work,          \* sync_inbox_work: one row per task
  discrepancy,   \* sync_discrepancy: at most one per task
  issued,        \* facts whose movements are in the authoritative stock
  projected,     \* projected[a]: version of a's row in the projection, or 0
  returned,      \* sales the projection shows as returned
  batch,         \* batch[w]: claims worker w has not begun to process
  step,          \* step[w]: the task w is processing, and how far it is
  failures       \* failures the environment has caused so far

effectVars == <<issued, projected, returned>>
inboxVars == <<inbox, work, discrepancy, effectVars, batch, step, failures>>

-----------------------------------------------------------------------------
Task == {t \in [event : Event, consumer : Consumers] : t.consumer \in ConsumersOf[t.event]}

WorkRow == [state : {"NONE", "PENDING", "APPLIED", "DISCREPANCY"},
            due : BOOLEAN, leased : BOOLEAN, holder : Worker \cup {None}]

(* What the next transaction of the worker will be.                        *)
Outcomes == {"ready", "waiting", "retry", "discrepancy"}
Step == [task : Task, outcome : Outcomes]

InboxTypeOK ==
  /\ inbox \in Seq(Event)
  /\ work \in [Task -> WorkRow]
  /\ discrepancy \in [Task -> {"NONE", "OPEN", "RESOLVED"}]
  /\ issued \in SUBSET Event
  /\ projected \in [Aggregate -> Nat]
  /\ returned \in SUBSET Aggregate
  /\ batch \in [Worker -> SUBSET Task]
  /\ step \in [Worker -> Step \cup {None}]
  /\ failures \in Nat

InboxInit ==
  /\ inbox = << >>
  /\ work = [t \in Task |-> [state |-> "NONE", due |-> TRUE, leased |-> FALSE, holder |-> None]]
  /\ discrepancy = [t \in Task |-> "NONE"]
  /\ issued = {}
  /\ projected = [a \in Aggregate |-> 0]
  /\ returned = {}
  /\ batch = [w \in Worker |-> {}]
  /\ step = [w \in Worker |-> None]
  /\ failures = 0

received == {inbox[i] : i \in 1..Len(inbox)}
State(t) == work[t].state
Fails == failures < MaxFaults /\ failures' = failures + 1

precedes(p, e) ==
  /\ AggregateOf[p] = AggregateOf[e]
  /\ \/ VersionOf[p] < VersionOf[e]
     \/ VersionOf[p] = VersionOf[e] /\ p < e

(* Custody of a fact creates its tasks in the same transaction.  What the   *)
(* owner's use cases record arrives in the order of its aggregate           *)
(* (SyncDelivery!CustodyInOrder); the states that an initial cut lists      *)
(* again, which may come late, are those of CatalogReferences.              *)
Receive(e) ==
  /\ e \notin received \cup Own
  /\ \A p \in Event : precedes(p, e) => p \in received
  /\ inbox' = Append(inbox, e)
  /\ work' = [t \in Task |-> IF t.event = e THEN [work[t] EXCEPT !.state = "PENDING"] ELSE work[t]]
  /\ UNCHANGED <<discrepancy, effectVars, batch, step, failures>>

-----------------------------------------------------------------------------
(* The batch.                                                              *)

position(e) == CHOOSE i \in 1..Len(inbox) : inbox[i] = e

(* `order by event.received_at, work.event_id, work.consumer`.             *)
Rank == [c \in Consumers |-> CASE c = "CATALOG_REFERENCE" -> 1
                               [] c = "COMMERCIAL_PROJECTION" -> 2
                               [] c = "INVENTORY_AUTHORITY" -> 3]
earlier(t, u) ==
  \/ position(t.event) < position(u.event)
  \/ t.event = u.event /\ Rank[t.consumer] < Rank[u.consumer]

claimable == {t \in Task : State(t) = "PENDING" /\ work[t].due /\ ~work[t].leased}
firstClaimable ==
  {t \in claimable : Cardinality({u \in claimable : earlier(u, t)}) < BatchLimit}

claimPending(w) ==
  LET claimed == firstClaimable IN
  work' = [t \in Task |-> IF t \in claimed
                          THEN [work[t] EXCEPT !.leased = TRUE, !.holder = w] ELSE work[t]]

(* One transaction at the beginning of `runBatch`.                         *)
ClaimBatch(w) ==
  /\ batch[w] = {} /\ step[w] = None
  /\ firstClaimable # {}
  /\ claimPending(w)
  /\ batch' = [batch EXCEPT ![w] = firstClaimable]
  /\ UNCHANGED <<inbox, discrepancy, effectVars, step, failures>>

(* Received is not applied: every task of every fact received of the       *)
(* aggregate must be.                                                      *)
\* Mutant: received counts as applied.
isDependencyReceived(a) == \E e \in received : AggregateOf[e] = a

isDependencyApplied(a) ==
  /\ \E e \in received : AggregateOf[e] = a
  /\ \A t \in Task : t.event \in received /\ AggregateOf[t.event] = a => State(t) = "APPLIED"

\* Mutant: a fact waits for its own aggregate too.
pendingCycle(e) == \E a \in DependsOn[e] \cup {AggregateOf[e]} : ~isDependencyApplied(a)

pendingDependency(e) == \E a \in DependsOn[e] : ~isDependencyApplied(a)

(* `process` begins: the reads before the transaction.                     *)
Begin(w, t) ==
  /\ step[w] = None
  /\ t \in batch[w]
  /\ \A u \in batch[w] : ~earlier(u, t)
  /\ batch' = [batch EXCEPT ![w] = @ \ {t}]
  /\ step' = [step EXCEPT ![w] =
       [task |-> t,
        outcome |-> IF t.consumer \notin Registered \/ pendingDependency(t.event)
                    THEN "waiting" ELSE "ready"]]
  /\ UNCHANGED <<inbox, work, discrepancy, effectVars, failures>>

-----------------------------------------------------------------------------
(* The consumers.                                                          *)

balance == OpeningStock - SumFunctionOnSet(Issue, issued)

(* The item the authority has for the product, if any.                     *)
items == ({OpeningItem} \cup {Names[e] : e \in issued}) \ {None}

(* The terminal named the item in its own database: two of them may have   *)
(* made one each for a product whose availability they had not received.   *)
(* The lots of an item are named, and contradicted, in the same way.       *)
conflicts(e) ==
  /\ Names[e] # None
  /\ IF items = {} THEN e \notin Makes ELSE Names[e] \notin items

(* Why a consumer refuses.  Only the causes in DISCREPANCY_CODES are for a *)
(* person.  A contradiction is not among them (STOCK_PURCHASE_ITEM_ and    *)
(* BATCH_CONFLICT, STOCK_COUNT_ITEM_ and BATCH_CONFLICT and                *)
(* STOCK_SALE_RETURN_ITEM_CONFLICT): it is retried, like the refusal that  *)
(* may pass, COMMERCIAL_PROJECTION_SHIFT_NOT_PROJECTED.                    *)
refusal(t) ==
  LET e == t.event IN
  IF \/ t.consumer = "INVENTORY_AUTHORITY" /\ conflicts(e)
     \/ /\ t.consumer = "COMMERCIAL_PROJECTION" /\ Projects[e] = "closure"
        /\ projected[AggregateOf[e]] = 0
  THEN "retry"
  ELSE IF t.consumer = "INVENTORY_AUTHORITY" /\ e \notin issued /\ Issue[e] > 0 /\ Issue[e] > balance
  THEN "discrepancy"               \* STOCK_INSUFFICIENT, STOCK_ITEM_NOT_FOUND
  ELSE "none"

(* Movements carry the fact's identity: applying it again adds none.       *)
applyToInventory(e) == issued' = issued \cup {e} /\ UNCHANGED <<projected, returned>>

(* Upserts take the greater version; a return marks a row that exists.     *)
applyToProjection(e) ==
  LET a == AggregateOf[e] IN
  /\ projected' = IF Projects[e] \in {"upsert", "closure"} /\ VersionOf[e] > projected[a]
                  THEN [projected EXCEPT ![a] = VersionOf[e]] ELSE projected
  /\ returned' = IF Projects[e] = "mark"
                 THEN returned \cup {s \in DependsOn[e] : projected[s] # 0} ELSE returned
  /\ UNCHANGED issued

apply(t) ==
  CASE t.consumer = "INVENTORY_AUTHORITY" -> applyToInventory(t.event)
    [] t.consumer = "COMMERCIAL_PROJECTION" -> applyToProjection(t.event)
    [] OTHER -> UNCHANGED effectVars

-----------------------------------------------------------------------------
(* The transactions of `process`.                                          *)

(* The `where` of every conditional update: still pending, last claim.     *)
ownsTask(w, t) == State(t) = "PENDING" /\ work[t].holder = w
\* Mutant: any live lease is taken for the worker's own.
anyLease(w, t) == State(t) = "PENDING" /\ work[t].leased

isClaimActive(w, t) == ownsTask(w, t) /\ work[t].leased

finish(w) == step' = [step EXCEPT ![w] = None]

\* Mutant: a state the schema does not know.
markDone(w, t) == work' = [work EXCEPT ![t].state = "DONE", ![t].leased = FALSE]

markApplied(w, t) ==
  IF ownsTask(w, t)
  THEN work' = [work EXCEPT ![t].state = "APPLIED", ![t].leased = FALSE]
  ELSE UNCHANGED work

(* The effect and its mark commit together, or neither does.               *)
Apply(w) ==
  LET t == step[w].task IN
  /\ step[w] # None
  /\ step[w].outcome = "ready"
  /\ IF ~isClaimActive(w, t)
     THEN finish(w) /\ UNCHANGED <<work, effectVars>>      \* SYNC_CLAIM_EXPIRED
     ELSE IF refusal(t) # "none"
     THEN /\ step' = [step EXCEPT ![w].outcome = refusal(t)]
          /\ UNCHANGED <<work, effectVars>>
     ELSE apply(t) /\ markApplied(w, t) /\ finish(w)
  /\ UNCHANGED <<inbox, discrepancy, batch, failures>>

(* The transaction throws and is rolled back: SYNC_CONSUMER_UNAVAILABLE.   *)
ApplyFails(w) ==
  /\ step[w] # None
  /\ step[w].outcome = "ready"
  /\ Fails
  /\ step' = [step EXCEPT ![w].outcome = "retry"]
  /\ UNCHANGED <<inbox, work, discrepancy, effectVars, batch>>

markRetryable(w, t) ==
  IF ownsTask(w, t)
  THEN work' = [work EXCEPT ![t].due = FALSE, ![t].leased = FALSE]
  ELSE UNCHANGED work

Reschedule(w) ==
  /\ step[w] # None
  /\ step[w].outcome \in {"waiting", "retry"}
  /\ markRetryable(w, step[w].task)
  /\ finish(w)
  /\ UNCHANGED <<inbox, discrepancy, effectVars, batch, failures>>

(* One discrepancy per task: a later one of the same task adds nothing.    *)
OpenDiscrepancy(w) ==
  LET t == step[w].task IN
  /\ step[w] # None
  /\ step[w].outcome = "discrepancy"
  /\ IF ownsTask(w, t)
     THEN /\ work' = [work EXCEPT ![t].state = "DISCREPANCY", ![t].leased = FALSE]
          /\ discrepancy' = [discrepancy EXCEPT ![t] = IF @ = "NONE" THEN "OPEN" ELSE @]
     ELSE UNCHANGED <<work, discrepancy>>
  /\ finish(w)
  /\ UNCHANGED <<inbox, effectVars, batch, failures>>

-----------------------------------------------------------------------------
(* A receipt of the authority itself: one transaction of its own use case, *)
(* with no task.  stock_items.product_id is UNIQUE: with another item the  *)
(* transaction fails and leaves nothing.                                   *)
CompletePurchaseReceipt(e) ==
  /\ e \in Own \ issued
  /\ ~conflicts(e)
  /\ issued' = issued \cup {e}
  /\ UNCHANGED <<inbox, work, discrepancy, projected, returned, batch, step, failures>>

-----------------------------------------------------------------------------
(* People, time, and failures of the process.                              *)

RetrySyncDiscrepancy(t) ==
  /\ State(t) = "DISCREPANCY" /\ discrepancy[t] = "OPEN"
  /\ work' = [work EXCEPT ![t].state = "PENDING", ![t].due = TRUE, ![t].leased = FALSE]
  /\ UNCHANGED <<inbox, discrepancy, effectVars, batch, step, failures>>

(* Only evidence of application closes a discrepancy.                      *)
\* Mutant: an acknowledgement closes it.
acknowledge(t) ==
  /\ discrepancy[t] = "OPEN"
  /\ discrepancy' = [discrepancy EXCEPT ![t] = "RESOLVED"]
  /\ UNCHANGED <<inbox, work, effectVars, batch, step, failures>>

ResolveSyncDiscrepancy(t) ==
  /\ discrepancy[t] = "OPEN" /\ State(t) = "APPLIED"
  /\ discrepancy' = [discrepancy EXCEPT ![t] = "RESOLVED"]
  /\ UNCHANGED <<inbox, work, effectVars, batch, step, failures>>

(* The process stops, or a bookkeeping transaction throws out of `runBatch`. *)
Crash(w) ==
  /\ batch[w] # {} \/ step[w] # None
  /\ Fails
  /\ batch' = [batch EXCEPT ![w] = {}]
  /\ finish(w)
  /\ UNCHANGED <<inbox, work, discrepancy, effectVars>>

worksOn(w, t) ==
  /\ work[t].holder = w
  /\ t \in batch[w] \/ (step[w] # None /\ step[w].task = t)

LeaseExpires(t) ==
  /\ State(t) = "PENDING" /\ work[t].leased
  /\ (\E w \in Worker : worksOn(w, t)) => failures < MaxFaults
  /\ failures' = IF \E w \in Worker : worksOn(w, t) THEN failures + 1 ELSE failures
  /\ work' = [work EXCEPT ![t].leased = FALSE]
  /\ UNCHANGED <<inbox, discrepancy, effectVars, batch, step>>

BackoffElapses(t) ==
  /\ State(t) = "PENDING" /\ ~work[t].due
  /\ work' = [work EXCEPT ![t].due = TRUE]
  /\ UNCHANGED <<inbox, discrepancy, effectVars, batch, step, failures>>

-----------------------------------------------------------------------------
Process(w) ==
  \/ \E t \in batch[w] : Begin(w, t)
  \/ Apply(w)
  \/ Reschedule(w)
  \/ OpenDiscrepancy(w)

InboxStep ==
  \/ \E w \in Worker : ClaimBatch(w) \/ Process(w) \/ ApplyFails(w) \/ Crash(w)
  \/ \E t \in Task :
       \/ RetrySyncDiscrepancy(t)
       \/ ResolveSyncDiscrepancy(t)
       \/ LeaseExpires(t)
       \/ BackoffElapses(t)
  \/ \E e \in Event : CompletePurchaseReceipt(e)

InboxNext == InboxStep \/ \E e \in Event : Receive(e)

(* The worker's timer runs a batch in every cycle; clocks advance.         *)
InboxFairness ==
  /\ \A w \in Worker : WF_inboxVars(ClaimBatch(w)) /\ WF_inboxVars(Process(w))
  /\ \A t \in Task : WF_inboxVars(LeaseExpires(t)) /\ WF_inboxVars(BackoffElapses(t))

InboxSpec == InboxInit /\ [][InboxNext]_inboxVars
InboxFairSpec == InboxSpec /\ InboxFairness

-----------------------------------------------------------------------------
(* Properties.                                                             *)

(* Stock moves for a fact exactly when its inventory task is APPLIED: no    *)
(* effect survives a lost claim, and no mark stands for a lost effect.     *)
MarkedIffIssued ==
  \A t \in Task : t.consumer = "INVENTORY_AUTHORITY" =>
    (State(t) = "APPLIED" <=> t.event \in issued)

(* A fact is never applied before what it depends on: the dependency was   *)
(* checked outside the transaction, but its first fact stays applied.      *)
first(a) == {e \in Event : AggregateOf[e] = a /\ \A p \in Event : ~precedes(p, e)}

dependenciesBegun(e) ==
  \A a \in DependsOn[e], u \in Task : u.event \in first(a) => State(u) = "APPLIED"

DependenciesFirst ==
  \A t \in Task : State(t) = "APPLIED" => dependenciesBegun(t.event)

(* The projection silently ignores a return whose sale it does not have;   *)
(* waiting for the sale is what keeps every applied return visible.        *)
NoReturnIsLost ==
  \A t \in Task :
    /\ State(t) = "APPLIED"
    /\ t.consumer = "COMMERCIAL_PROJECTION"
    /\ Projects[t.event] = "mark"
    => DependsOn[t.event] \subseteq returned

(* A task in DISCREPANCY can always be retried (its discrepancy is open),  *)
(* and a discrepancy is closed only over an effect that exists.            *)
DiscrepanciesStayOpen ==
  \A t \in Task :
    /\ State(t) = "DISCREPANCY" => discrepancy[t] = "OPEN"
    /\ discrepancy[t] = "RESOLVED" => State(t) = "APPLIED"

(* The argument behind them: what a worker found when it checked the       *)
(* dependencies cannot be undone before it applies the fact.               *)
supported(e) ==
  /\ dependenciesBegun(e)
  /\ Projects[e] = "mark" => \A a \in DependsOn[e] : projected[a] # 0

ArrivedInOrder == \A e \in received : \A p \in Event : precedes(p, e) => p \in received
TasksOfReceived == \A t \in Task : State(t) = "NONE" <=> t.event \notin received

isProjected(t) ==
  /\ t.consumer = "COMMERCIAL_PROJECTION"
  /\ Projects[t.event] \in {"upsert", "closure"}

AppliedIsProjected ==
  \A t \in Task : State(t) = "APPLIED" /\ isProjected(t) => projected[AggregateOf[t.event]] # 0

ready(w) == step[w] # None /\ step[w].outcome = "ready"
ReadyIsSupported == \A w \in Worker : ready(w) => supported(step[w].task.event)

InboxInv ==
  /\ InboxTypeOK
  /\ ArrivedInOrder
  /\ TasksOfReceived
  /\ MarkedIffIssued
  /\ DiscrepanciesStayOpen
  /\ AppliedIsProjected
  /\ ReadyIsSupported
  /\ DependenciesFirst
  /\ NoReturnIsLost

(* The item of a product is decided once: evidence that names another is   *)
(* contradicted for good.                                                  *)
OneItem == \A i, j \in items : i = j

contradicted(t) == t.consumer = "INVENTORY_AUTHORITY" /\ conflicts(t.event)

(* A received task is not pending for ever, unless a fact it needs was not *)
(* received or is in the hands of a person, or its own evidence is         *)
(* contradicted by the stock item the authority has: the only wait of      *)
(* which nobody is told.  The contracts chain at most two dependencies (a  *)
(* return needs its sale, which needs its shift), and what is needed names *)
(* no item.                                                                *)
needs == [e \in Event |->
  DependsOn[e] \cup UNION {DependsOn[d] : d \in {x \in Event : AggregateOf[x] \in DependsOn[e]}}]

Stuck(t) ==
  \E a \in needs[t.event] :
    \/ \E e \in Event \ received : AggregateOf[e] = a
    \/ \E u \in Task : AggregateOf[u.event] = a /\ State(u) = "DISCREPANCY"

PendingIsProcessed ==
  \A t \in Task : []<>(State(t) # "PENDING" \/ Stuck(t) \/ contradicted(t))
==========================================================================
