-------------------------- MODULE SyncDelivery --------------------------
(***************************************************************************)
(* Delivery of the facts a node records to the other nodes of its store:   *)
(* the outbox with one delivery row per (event, destination)               *)
(* (drivers/db/src/outbox-store.ts), the relay that claims, sends and      *)
(* settles them (core/.../events/outbox-relay.ts, sync-ack.ts), the        *)
(* network, and the receiver's custody (receive-sync-event.ts).            *)
(*                                                                         *)
(* Every database transaction is one step (unit-of-work.ts runs it between *)
(* `begin immediate` and `commit`); everything between two transactions -  *)
(* the network call, a crash, another worker - is another step.  Times are *)
(* abstracted to the two comparisons the code makes with the clock: `due`  *)
(* is next_attempt_at <= now and `leased` is lease_until > now.            *)
(***************************************************************************)
EXTENDS Integers, FiniteSets

CONSTANTS
  Event,             \* event ids: naturals, in the order of the ids
  Aggregate,         \* the aggregates the facts belong to
  AggregateOf,       \* AggregateOf[e] is the aggregate of fact e
  VersionOf,         \* VersionOf[e] is its aggregate version
  Contract,          \* Contract[e]: does the catalogue publish e's contract?
  Listed,            \* facts that an initial cut records: new ids, existing states
  RateHistory,       \* aggregates whose earlier versions a cut lists: exchange rates
  Destination,       \* the other nodes of the store
  Relay,             \* relay workers over the sender's database
  AttemptsPerCycle,  \* OUTBOX_RETRY_POLICY_V1.attemptsPerCycle (10)
  BatchLimit,        \* the relay's batch limit
  MaxFaults,         \* bound: failures of the environment in a behaviour
  MaxResumes,        \* bound: resumptions by the operator in a behaviour
  MayTruncate,       \* may a connection close in the middle of a response?
  None               \* no destination, no call

Contracts == {"supported", "unsupported", "invalid"}

ASSUME EventAssumption == Event \subseteq Nat
ASSUME MetadataAssumption ==
  /\ AggregateOf \in [Event -> Aggregate]
  /\ VersionOf \in [Event -> Nat]
  /\ Contract \in [Event -> Contracts]
  /\ Listed \subseteq Event
  /\ RateHistory \subseteq Aggregate
ASSUME BoundsAssumption ==
  /\ AttemptsPerCycle \in Nat \ {0}
  /\ BatchLimit \in Nat \ {0}
  /\ MaxFaults \in Nat
  /\ MaxResumes \in Nat
  /\ MayTruncate \in BOOLEAN
ASSUME NoneAssumption == None \notin Destination

VARIABLES
  recorded,    \* outbox_event: facts committed by the node
  follows,     \* follows[e]: what was recorded before e, or with it, and precedes it
  local,       \* outbox_event.status, a local summary
  delivery,    \* sync_delivery: one row per destination and fact
  registry,    \* sync_node: which destinations the worker is offered
  target,      \* target[r]: destination of the batch relay r is running
  batch,       \* batch[r]: claims relay r has not begun to deliver
  call,        \* call[r]: the claim whose publication relay r awaits
  wire,        \* requests that left a relay and no receiver answered
  custody,     \* sync_inbox_event of each destination, with its class
  owner,       \* aggregates each destination has the sender as owner of
  faults,      \* failures the environment has caused so far
  resumes      \* resumptions the operator has ordered so far

senderVars == <<recorded, follows, local, delivery>>
relayVars == <<target, batch, call>>
vars == <<recorded, follows, local, delivery, registry, target, batch, call, wire,
          custody, owner, faults, resumes>>

-----------------------------------------------------------------------------
(* Rows, claims and calls.                                                 *)

Statuses == {"ABSENT", "PENDING", "PROCESSING", "PUBLISHED", "BLOCKED", "PAUSED"}
Row == [status : Statuses, attempts : Nat, cycle : Nat, due : BOOLEAN, leased : BOOLEAN]
Claim == [event : Event, generation : Nat]
Outcomes == {"CONFIRMED", "REJECTED", "RETRYABLE"}
Call == [event : Event, generation : Nat, ack : Outcomes \cup {"awaited", "truncated"}]
Request == [to : Destination, event : Event, generation : Nat]
CustodyStates == {"NONE", "PENDING_CONSUMER", "PENDING_REVIEW"}

TypeOK ==
  /\ recorded \in SUBSET Event
  /\ follows \in [Event -> SUBSET Event]
  /\ local \in [Event -> {"PENDING", "PUBLISHED", "BLOCKED"}]
  /\ delivery \in [Destination -> [Event -> Row]]
  /\ registry \in [Destination -> {"UNREGISTERED", "ACTIVE", "REVOKED"}]
  /\ target \in [Relay -> Destination \cup {None}]
  /\ batch \in [Relay -> SUBSET Claim]
  /\ call \in [Relay -> Call \cup {None}]
  /\ wire \in SUBSET Request
  /\ custody \in [Destination -> [Event -> CustodyStates]]
  /\ owner \in [Destination -> SUBSET Aggregate]
  /\ faults \in Nat
  /\ resumes \in Nat

(* Before its row exists a delivery has the values of the later insert.    *)
absentRow == [status |-> "ABSENT", attempts |-> 0, cycle |-> 0, due |-> TRUE, leased |-> FALSE]

(* The order the claim query imposes inside an aggregate: version, then id. *)
Precedes(p, e) ==
  /\ AggregateOf[p] = AggregateOf[e]
  /\ \/ VersionOf[p] < VersionOf[e]
     \/ VersionOf[p] = VersionOf[e] /\ p < e

Before == [e \in Event |-> {p \in Event : Precedes(p, e)}]

Init ==
  /\ recorded = {}
  /\ follows = [e \in Event |-> {}]
  /\ local = [e \in Event |-> "PENDING"]
  /\ delivery = [d \in Destination |-> [e \in Event |-> absentRow]]
  /\ registry = [d \in Destination |-> "UNREGISTERED"]
  /\ target = [r \in Relay |-> None]
  /\ batch = [r \in Relay |-> {}]
  /\ call = [r \in Relay |-> None]
  /\ wire = {}
  /\ custody = [d \in Destination |-> [e \in Event |-> "NONE"]]
  /\ owner = [d \in Destination |-> {}]
  /\ faults = 0
  /\ resumes = 0

Fault == faults < MaxFaults /\ faults' = faults + 1

-----------------------------------------------------------------------------
(* The node's own use cases and the registry.                              *)

(* `enqueue` writes rows and looks at no other: what it records follows    *)
(* the facts that are there.  (`follows` is a history of that order: the   *)
(* code keeps it only as created_at.)                                      *)
enqueue(facts) ==
  /\ recorded' = recorded \cup facts
  /\ follows' = [e \in Event |-> IF e \in facts THEN Before[e] \cap (recorded \cup facts)
                                 ELSE follows[e]]
  /\ UNCHANGED <<local, delivery, registry, relayVars, wire, custody, owner, faults, resumes>>

(* The facts of one change are committed together with the new version of  *)
(* their aggregate (persistBusinessChange), which is greater than any it   *)
(* had before.                                                             *)
FactsOf(a, v) == {e \in Event \ Listed : AggregateOf[e] = a /\ VersionOf[e] = v}

Record(a, v) ==
  LET facts == FactsOf(a, v) IN
  /\ facts # {}
  /\ \A p \in recorded : AggregateOf[p] = a => VersionOf[p] < v
  /\ enqueue(facts)

(* What a cut may list: the present version of an aggregate, whether or    *)
(* not it was published before, and every version of a rate still valid.   *)
listable(e) ==
  \/ AggregateOf[e] \in RateHistory
  \/ \A p \in recorded : AggregateOf[p] = AggregateOf[e] => VersionOf[p] <= VersionOf[e]

(* `PublishCatalogBootstrap`, as often as it is ordered: one transaction,  *)
(* one publication per state, each with a new id.                          *)
PublishCatalogBootstrap(facts) ==
  /\ facts # {}
  /\ facts \cap recorded = {}
  /\ \A e \in facts : listable(e)
  /\ \A e, f \in facts : e # f /\ AggregateOf[e] = AggregateOf[f] =>
       AggregateOf[e] \in RateHistory /\ VersionOf[e] # VersionOf[f]
  /\ enqueue(facts)

(* The administrator enrols a node, with its address and its credential.   *)
RegisterNode(d) ==
  /\ registry[d] = "UNREGISTERED"
  /\ registry' = [registry EXCEPT ![d] = "ACTIVE"]
  /\ UNCHANGED <<senderVars, relayVars, wire, custody, owner, faults, resumes>>

(* Revoking keeps the delivery rows: pending facts do not become published. *)
RevokeNode(d) ==
  /\ registry[d] = "ACTIVE"
  /\ Fault
  /\ registry' = [registry EXCEPT ![d] = "REVOKED"]
  /\ UNCHANGED <<senderVars, relayVars, wire, custody, owner, resumes>>

(* The destination registers the sender as owner of an aggregate.          *)
RegisterOwnedAggregate(d, a) ==
  /\ a \notin owner[d]
  /\ owner' = [owner EXCEPT ![d] = @ \cup {a}]
  /\ UNCHANGED <<senderVars, registry, relayVars, wire, custody, faults, resumes>>

-----------------------------------------------------------------------------
(* The claim.                                                              *)

Status(d, e) == delivery[d][e].status

(* `materialize`: facts without a row for the destination get one.         *)
materialize(d) ==
  [e \in Event |-> IF e \in recorded /\ Status(d, e) = "ABSENT"
                   THEN [delivery[d][e] EXCEPT !.status = "PENDING"]
                   ELSE delivery[d][e]]

(* The claim query: pending and due, or claimed with an expired lease, and *)
(* every recorded predecessor of its aggregate already published there.    *)
\* Mutant: an expired lease is never recovered.
neverReclaimed(row) == row.status = "PENDING" /\ row.due

\* Mutant: everything that is not published is claimed again.
anyUnpublished(row) == row.status # "PUBLISHED" /\ row.due /\ ~row.leased

available(row) ==
  \/ row.status = "PENDING" /\ row.due
  \/ row.status = "PROCESSING" /\ ~row.leased

\* Mutant: the claim does not look at the predecessors.
anyOrder(d) == {e \in recorded : available(materialize(d)[e])}

candidates(d) ==
  {e \in recorded : /\ available(materialize(d)[e])
                    /\ \A p \in Before[e] \cap recorded : Status(d, p) = "PUBLISHED"}

(* `order by created_at, event_id limit ?`                                 *)
claimable(d) ==
  {e \in candidates(d) : Cardinality({c \in candidates(d) : c < e}) < BatchLimit}

(* A row the query takes: claimed with a new generation, or isolated when  *)
(* the catalogue publishes its type but not its version.                   *)
\* Mutant: a claim does not start a generation.
sameGeneration(row) == [row EXCEPT !.status = "PROCESSING", !.leased = TRUE]

claimedRow(row) ==
  [status |-> "PROCESSING", attempts |-> row.attempts + 1, cycle |-> row.cycle + 1,
   due |-> row.due, leased |-> TRUE]
\* Mutant: a status the schema does not know.
rejectedRow(row) == [row EXCEPT !.status = "REJECTED", !.leased = FALSE]

isolatedRow(row) == [row EXCEPT !.status = "BLOCKED", !.leased = FALSE]

unsupported(e) == Contract[e] = "unsupported"

(* `markLocalStatus`: the summary never leaves PUBLISHED.                  *)
isolateLocally(facts) ==
  [e \in Event |-> IF e \in facts /\ local[e] # "PUBLISHED" THEN "BLOCKED" ELSE local[e]]

idle(r) == batch[r] = {} /\ call[r] = None

(* `claimAvailable`, one transaction: the relay of destination d starts a  *)
(* batch.  A claim that changes nothing is not a step.                     *)
ClaimAvailable(r, d) ==
  LET rows == materialize(d)
      taken == claimable(d)
      claims == {e \in taken : ~unsupported(e)} IN
  /\ idle(r)
  /\ registry[d] = "ACTIVE"
  /\ taken # {} \/ rows # delivery[d]
  /\ delivery' = [delivery EXCEPT ![d] =
       [e \in Event |-> IF e \in claims THEN claimedRow(rows[e])
                        ELSE IF e \in taken THEN isolatedRow(rows[e])
                        ELSE rows[e]]]
  /\ local' = isolateLocally(taken \ claims)
  /\ target' = [target EXCEPT ![r] = d]
  /\ batch' = [batch EXCEPT ![r] =
       {[event |-> e, generation |-> rows[e].attempts + 1] : e \in claims}]
  /\ UNCHANGED <<recorded, follows, registry, call, wire, custody, owner, faults, resumes>>

-----------------------------------------------------------------------------
(* One claim of the batch after another, in the order of the batch.        *)

next(r, c) ==
  /\ call[r] = None
  /\ c \in batch[r]
  /\ \A o \in batch[r] : c.event <= o.event

(* The `where` of every conditional update of a claim.                     *)
ownsRow(d, c) ==
  /\ Status(d, c.event) = "PROCESSING"
  /\ delivery[d][c.event].attempts = c.generation

isClaimActive(d, c) == ownsRow(d, c) /\ delivery[d][c.event].leased

drop(r, c) == batch' = [batch EXCEPT ![r] = @ \ {c}]

(* The lease expired, or another relay claimed: the fact is left alone.    *)
Skip(r, c) ==
  /\ next(r, c)
  /\ ~isClaimActive(target[r], c)
  /\ drop(r, c)
  /\ UNCHANGED <<senderVars, registry, target, call, wire, custody, owner, faults, resumes>>

markBlocked(d, c) ==
  IF ownsRow(d, c)
  THEN /\ delivery' = [delivery EXCEPT ![d][c.event] = isolatedRow(@)]
       /\ local' = isolateLocally({c.event})
  ELSE UNCHANGED <<delivery, local>>

(* The contract does not survive its own round trip: isolated, not sent.   *)
(* `isClaimActive` and `markBlocked` are two transactions with no await of *)
(* the outside between them, so only another process could step between.  *)
Isolate(r, c) ==
  /\ next(r, c)
  /\ isClaimActive(target[r], c)
  /\ Contract[c.event] = "invalid"
  /\ markBlocked(target[r], c)
  /\ drop(r, c)
  /\ UNCHANGED <<recorded, follows, registry, target, call, wire, custody, owner, faults, resumes>>

request(r, c) == [to |-> target[r], event |-> c.event, generation |-> c.generation]

(* `publisher.publish`: outside every transaction, awaited.                *)
Send(r, c) ==
  /\ next(r, c)
  /\ isClaimActive(target[r], c)
  /\ Contract[c.event] = "supported"
  /\ drop(r, c)
  /\ call' = [call EXCEPT ![r] =
       [event |-> c.event, generation |-> c.generation, ack |-> "awaited"]]
  /\ wire' = wire \cup {request(r, c)}
  /\ UNCHANGED <<senderVars, registry, target, custody, owner, faults, resumes>>

-----------------------------------------------------------------------------
(* The receiver.                                                           *)

(* The receipt reaches only the call that is waiting for it.               *)
answer(q, outcome) ==
  /\ wire' = wire \ {q}
  /\ call' = [r \in Relay |->
       IF call[r] # None /\ call[r].ack = "awaited" /\ request(r, call[r]) = q
       THEN [call[r] EXCEPT !.ack = outcome] ELSE call[r]]

(* SYNC_AGGREGATE_OWNER_UNRESOLVED: no registered owner, nothing is kept   *)
(* but a bounded quarantine row.                                           *)
Reject(q) ==
  /\ AggregateOf[q.event] \notin owner[q.to]
  /\ answer(q, "REJECTED")
  /\ UNCHANGED <<senderVars, registry, target, batch, custody, owner, faults, resumes>>

(* `classifyApplication`: a version below the highest received needs review. *)
classifyApplication(d, e) ==
  IF \E h \in Event : /\ custody[d][h] # "NONE"
                      /\ AggregateOf[h] = AggregateOf[e]
                      /\ VersionOf[h] > VersionOf[e]
  THEN "PENDING_REVIEW" ELSE "PENDING_CONSUMER"

(* `takeCustody`: ACCEPTED the first time, DUPLICATE afterwards.           *)
TakeCustody(q) ==
  /\ AggregateOf[q.event] \in owner[q.to]
  /\ IF custody[q.to][q.event] = "NONE"
     THEN custody' = [custody EXCEPT ![q.to][q.event] = classifyApplication(q.to, q.event)]
     ELSE UNCHANGED custody
  /\ answer(q, "CONFIRMED")
  /\ UNCHANGED <<senderVars, registry, target, batch, owner, faults, resumes>>

(* SYNC_RECEIVER_UNAVAILABLE: the transaction failed and nothing is kept.  *)
Unavailable(q) ==
  /\ Fault
  /\ answer(q, "RETRYABLE")
  /\ UNCHANGED <<senderVars, registry, target, batch, custody, owner, resumes>>

Receive(q) == q \in wire /\ (Reject(q) \/ TakeCustody(q))

-----------------------------------------------------------------------------
(* The relay settles the call.                                             *)

hangUp(r) == call' = [call EXCEPT ![r] = None]

(* `rollUp` runs after the row was published: the summary becomes          *)
(* PUBLISHED when no materialised row of the fact is in another state.     *)
rollUp(d, e) ==
  IF /\ local[e] # "BLOCKED"
     /\ \A o \in Destination \ {d} : Status(o, e) \in {"ABSENT", "PUBLISHED"}
  THEN local' = [local EXCEPT ![e] = "PUBLISHED"]
  ELSE UNCHANGED local

publishedRow(row) == [row EXCEPT !.status = "PUBLISHED", !.cycle = 0, !.leased = FALSE]

markPublished(d, c) ==
  IF ownsRow(d, c)
  THEN /\ delivery' = [delivery EXCEPT ![d][c.event] = publishedRow(@)]
       /\ rollUp(d, c.event)
  ELSE UNCHANGED <<delivery, local>>

(* `reschedule`: paused when the cycle is spent, otherwise after a backoff. *)
\* Mutant: one attempt too many.
rescheduledLate(row) ==
  IF row.cycle > AttemptsPerCycle
  THEN [row EXCEPT !.status = "PAUSED", !.leased = FALSE]
  ELSE [row EXCEPT !.status = "PENDING", !.due = FALSE, !.leased = FALSE]

rescheduledRow(row) ==
  IF row.cycle >= AttemptsPerCycle
  THEN [row EXCEPT !.status = "PAUSED", !.leased = FALSE]
  ELSE [row EXCEPT !.status = "PENDING", !.due = FALSE, !.leased = FALSE]

reschedule(d, c) ==
  /\ IF ownsRow(d, c)
     THEN delivery' = [delivery EXCEPT ![d][c.event] = rescheduledRow(@)]
     ELSE UNCHANGED delivery
  /\ UNCHANGED local

(* The interpreted receipt decides which update runs.                      *)
\* Mutant: whatever is not a rejection is a confirmation.
settleAnything(r, outcome) ==
  IF outcome = "REJECTED" THEN markBlocked(target[r], call[r]) ELSE markPublished(target[r], call[r])

settleAs(r, outcome) ==
  LET d == target[r]
      c == call[r] IN
  CASE outcome = "CONFIRMED" -> markPublished(d, c)
    [] outcome = "REJECTED" -> markBlocked(d, c)
    [] outcome = "RETRYABLE" -> reschedule(d, c)

Settle(r) ==
  /\ call[r] # None
  /\ call[r].ack \in Outcomes
  /\ settleAs(r, call[r].ack)
  /\ hangUp(r)
  /\ UNCHANGED <<recorded, follows, registry, target, batch, wire, custody, owner, faults, resumes>>

(* No usable receipt: the request or the answer was lost, the answer came  *)
(* late or malformed.  The request may still reach the receiver.           *)
Timeout(r) ==
  /\ call[r] # None
  /\ call[r].ack # "truncated"
  /\ Fault
  /\ wire' \in {wire, wire \ {request(r, call[r])}}
  /\ reschedule(target[r], call[r])
  /\ hangUp(r)
  /\ UNCHANGED <<recorded, follows, registry, target, batch, custody, owner, resumes>>

(* The connection closes after the headers of the answer and before its    *)
(* end: `publish` listens to neither `aborted` nor `error` of the response, *)
(* so its promise is never settled.                                        *)
Truncate(r) ==
  /\ MayTruncate
  /\ call[r] # None
  /\ call[r].ack \in Outcomes
  /\ Fault
  /\ call' = [call EXCEPT ![r].ack = "truncated"]
  /\ UNCHANGED <<senderVars, registry, target, batch, wire, custody, owner, resumes>>

-----------------------------------------------------------------------------
(* Time, failures of the process, and the operator.                        *)

(* The process stops, or a settling transaction fails and `runOnce` drops   *)
(* the batch; a new cycle starts from the database.                        *)
Crash(r) ==
  /\ ~idle(r)
  /\ Fault
  /\ batch' = [batch EXCEPT ![r] = {}]
  /\ call' = [call EXCEPT ![r] = None]
  /\ UNCHANGED <<senderVars, registry, target, wire, custody, owner, resumes>>

(* Relay r works on the last claim of the row, and has not hung on it.     *)
worksOn(r, d, e) ==
  /\ target[r] = d
  /\ \/ \E c \in batch[r] : c.event = e /\ c.generation = delivery[d][e].attempts
     \/ /\ call[r] # None /\ call[r].ack # "truncated"
        /\ call[r].event = e /\ call[r].generation = delivery[d][e].attempts

(* lease_until passes: for a claim no relay works on, or, by accident,     *)
(* while its holder is still at work.                                      *)
LeaseExpires(d, e) ==
  /\ Status(d, e) = "PROCESSING"
  /\ delivery[d][e].leased
  /\ \A r \in Relay : ~worksOn(r, d, e)
  /\ delivery' = [delivery EXCEPT ![d][e].leased = FALSE]
  /\ UNCHANGED <<recorded, follows, local, registry, relayVars, wire, custody, owner, faults, resumes>>

LeaseOverruns(d, e) ==
  /\ Status(d, e) = "PROCESSING"
  /\ delivery[d][e].leased
  /\ \E r \in Relay : worksOn(r, d, e)
  /\ Fault
  /\ delivery' = [delivery EXCEPT ![d][e].leased = FALSE]
  /\ UNCHANGED <<recorded, follows, local, registry, relayVars, wire, custody, owner, resumes>>

(* next_attempt_at passes.                                                 *)
BackoffElapses(d, e) ==
  /\ ~delivery[d][e].due
  /\ delivery' = [delivery EXCEPT ![d][e].due = TRUE]
  /\ UNCHANGED <<recorded, follows, local, registry, relayVars, wire, custody, owner, faults, resumes>>

(* `resumeDelivery`, ordered by an authorised operator.                    *)
resumedRow(row) == [row EXCEPT !.status = "PENDING", !.cycle = 0, !.due = TRUE, !.leased = FALSE]

ResumeSyncDelivery(d, e) ==
  /\ Status(d, e) = "PAUSED"
  /\ resumes < MaxResumes
  /\ resumes' = resumes + 1
  /\ delivery' = [delivery EXCEPT ![d][e] = resumedRow(@)]
  /\ UNCHANGED <<recorded, follows, local, registry, relayVars, wire, custody, owner, faults>>

-----------------------------------------------------------------------------
Work(r) == \E c \in batch[r] : Skip(r, c) \/ Isolate(r, c) \/ Send(r, c)

Next ==
  \/ \E e \in Event : Record(AggregateOf[e], VersionOf[e])
  \/ \E facts \in SUBSET Listed : PublishCatalogBootstrap(facts)
  \/ \E d \in Destination : RegisterNode(d) \/ RevokeNode(d)
  \/ \E d \in Destination, a \in Aggregate : RegisterOwnedAggregate(d, a)
  \/ \E r \in Relay, d \in Destination : ClaimAvailable(r, d)
  \/ \E r \in Relay : \E c \in batch[r] : Skip(r, c) \/ Isolate(r, c) \/ Send(r, c)
  \/ \E q \in wire : Reject(q) \/ TakeCustody(q) \/ Unavailable(q)
  \/ \E r \in Relay : Settle(r) \/ Timeout(r) \/ Truncate(r) \/ Crash(r)
  \/ \E d \in Destination, e \in Event :
       \/ LeaseExpires(d, e)
       \/ LeaseOverruns(d, e)
       \/ BackoffElapses(d, e)
       \/ ResumeSyncDelivery(d, e)

(* The worker's timer keeps the relay at work and visits every destination *)
(* in each cycle (hence strong fairness of its claim); requests are        *)
(* answered, and clocks advance.  Nothing obliges the environment to fail, *)
(* the business to record, or the operator to act.                         *)
Fairness ==
  /\ \A r \in Relay : WF_vars(Work(r)) /\ WF_vars(Settle(r))
  /\ \A r \in Relay, d \in Destination : SF_vars(ClaimAvailable(r, d))
  /\ \A d \in Destination, e \in Event :
       /\ WF_vars(\E q \in wire : q.to = d /\ q.event = e /\ Receive(q))
       /\ WF_vars(LeaseExpires(d, e))
       /\ WF_vars(BackoffElapses(d, e))

Spec == Init /\ [][Next]_vars
FairSpec == Spec /\ Fairness

-----------------------------------------------------------------------------
(* Properties.                                                             *)

inCustody(d, e) == custody[d][e] # "NONE"

(* The sender considers delivered only what the destination has in durable *)
(* custody, whatever was lost, late, repeated or crashed in between.       *)
PublishedHasCustody ==
  \A d \in Destination, e \in Event : Status(d, e) = "PUBLISHED" => inCustody(d, e)

(* Requests travel over separate connections and may arrive after their    *)
(* relay gave up, yet a destination never holds a fact without those of    *)
(* its aggregate that the node recorded before it, and what a use case     *)
(* recorded is never missing under a later fact.  Only a rate that a cut   *)
(* lists again, under a version below one already delivered, can be late.  *)
CustodyInOrder ==
  \A d \in Destination, e \in Event : inCustody(d, e) =>
    /\ \A p \in follows[e] : inCustody(d, p)
    /\ \A p \in Before[e] \cap recorded : inCustody(d, p) \/ p \in Listed
    /\ custody[d][e] = "PENDING_REVIEW" => e \in Listed /\ AggregateOf[e] \in RateHistory

(* The argument behind both: a fact is claimed, travels and is taken into  *)
(* custody only while what it follows is published, which is for good; and *)
(* only a cut records a fact after another that it precedes.               *)
Ready(d, e) ==
  /\ e \in recorded
  /\ \A p \in follows[e] : Status(d, p) = "PUBLISHED"

(* Fact p was recorded after fact h, which it precedes.                    *)
Overtaken(p, h) == p \in recorded \cap Before[h] /\ h \in recorded /\ p \notin follows[h]

OvertakenIsListed ==
  \A p, h \in Event : Overtaken(p, h) =>
    /\ p \in Listed
    /\ AggregateOf[p] \in RateHistory \/ VersionOf[p] = VersionOf[h]

LateIsOvertaken ==
  \A d \in Destination, e \in Event : custody[d][e] = "PENDING_REVIEW" =>
    \E h \in Event : Overtaken(e, h) /\ VersionOf[e] < VersionOf[h] /\ inCustody(d, h)

DeliveryInv ==
  /\ TypeOK
  /\ \A e \in recorded : follows[e] \subseteq Before[e] \cap recorded
  /\ OvertakenIsListed
  /\ \A d \in Destination, e \in Event : Status(d, e) # "ABSENT" => e \in recorded
  /\ \A r \in Relay : ~idle(r) => target[r] \in Destination
  /\ \A r \in Relay : \A c \in batch[r] : Ready(target[r], c.event)
  /\ \A r \in Relay : call[r] # None => Ready(target[r], call[r].event)
  /\ \A q \in wire : Ready(q.to, q.event)
  /\ \A r \in Relay : call[r] # None /\ call[r].ack = "CONFIRMED"
                      => inCustody(target[r], call[r].event)
  /\ \A d \in Destination, e \in Event : inCustody(d, e) => Ready(d, e)
  /\ LateIsOvertaken
  /\ PublishedHasCustody

(* The claims relay r still works on.                                      *)
claimsOf(r) == batch[r] \cup ({call[r]} \ {None})

(* Two relays never work on the same claim, and whoever works on a claim   *)
(* that is not the row's last one can no longer change the row.            *)
OneLiveClaim ==
  \A r, s \in Relay : r # s /\ target[r] = target[s] =>
    \A b \in claimsOf(r), c \in claimsOf(s) :
      b.event = c.event => b.generation # c.generation

(* What was confirmed or isolated stays so: no late answer, lease or       *)
(* resumption reopens it, and generations only grow.                       *)
SettledForGood == [][
  \A d \in Destination, e \in Event :
    /\ Status(d, e) \in {"PUBLISHED", "BLOCKED"} => Status(d, e)' = Status(d, e)
    /\ delivery[d][e].attempts <= delivery[d][e].attempts']_vars

(* A spent cycle pauses the delivery and only an order of the operator     *)
(* reopens it: a pending row always has attempts left, a paused one none.  *)
ExhaustedIsPaused ==
  \A d \in Destination, e \in Event :
    /\ Status(d, e) = "PENDING" => delivery[d][e].cycle < AttemptsPerCycle
    /\ Status(d, e) = "PAUSED" => delivery[d][e].cycle >= AttemptsPerCycle

heldBy == [d \in Destination |-> {e \in Event : inCustody(d, e)}]
lateBy == [d \in Destination |-> {e \in Event : custody[d][e] = "PENDING_REVIEW"}]
confirmedBy == [d \in Destination |-> {e \in Event : Status(d, e) = "PUBLISHED"}]

Abs == INSTANCE OrderedDelivery WITH held <- heldBy, late <- lateBy, confirmed <- confirmedBy

(* Outbox, leases, retries and receipts implement ordered delivery.        *)
DeliversInOrder == Abs!ASpec

(* Every fact recorded for an active destination is eventually published   *)
(* there, or it or an earlier fact of its aggregate stops visibly: paused  *)
(* or blocked.  Nothing stays pending or claimed for ever.                 *)
Stopped(d, e) == \E p \in Before[e] \cup {e} : Status(d, p) \in {"PAUSED", "BLOCKED"}

EventuallySettled ==
  \A d \in Destination, e \in Event :
    (e \in recorded /\ registry[d] = "ACTIVE")
      ~> (Status(d, e) = "PUBLISHED" \/ Stopped(d, e) \/ registry[d] # "ACTIVE")

(* sync-transport.ts:35-37 says a truncated answer is a failed delivery    *)
(* that the relay turns into a retry: the row it left claimed is           *)
(* eventually settled one way or another.                                  *)
TruncationIsRetried ==
  \A r \in Relay : \A d \in Destination, e \in Event :
    (call[r] # None /\ call[r].ack = "truncated" /\ call[r].event = e /\ target[r] = d)
      ~> Status(d, e) # "PROCESSING"
==========================================================================
