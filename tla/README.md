# Cullen: a verification project

Cullen is the point-of-sale system of a supermarket (TypeScript, SQLite). Each
store has a *coordinator* node and *terminals*; every node owns a database,
keeps selling when the others are away, and exchanges business facts with them
over HTTPS with client certificates. This directory holds TLA+ modules that
model that exchange, what the nodes do with the facts, and the business the
facts are about: sales and the drawer, the stock, the fiscal printer. It also
holds the TLC runs that check them on small instances, and proofs for every
value of the constants.

Paths below are relative to `src/packages/` unless they begin with `src/`.

## 1. Inventory

| Part | State | Operations | What makes it hard | What makes it correct |
| --- | --- | --- | --- | --- |
| Outbox and relay (`core/.../events/outbox-relay.ts`, `drivers/db/src/outbox-store.ts`) | `outbox_event`, `sync_delivery` per fact and destination, with status, attempts, cycle attempts, next attempt, lease | `enqueue`, `claimAvailable`, `isClaimActive`, `markPublished`, `markFailed`, `markBlocked`, `resumeDelivery` | leases that lapse while the network is awaited, several processes on one database, crashes, lost answers, order inside an aggregate, retry budget | what is confirmed is held; once; after what was recorded before it; nothing waits for ever; a spent budget pauses |
| Reception (`core/.../events/receive-sync-event.ts`, `drivers/db/src/sync-reception-store.ts`, `sync-authority-registry.ts`) | `sync_inbox_event`, `sync_quarantine`, owners of aggregates | one transaction per fact: refuse, repeat, take custody; `RegisterOwnedAggregate` | repetitions and late requests | custody once, only from the owner, after the earlier versions; late only what an initial cut listed again |
| Node registry, transport, worker (`drivers/db/src/sync-node-registry.ts`, `drivers/security/src/sync-transport.ts`, `src/apps/server/src/sync/`) | `sync_node`; one timer per process | register, revoke; publish, probe; `runOnce` = deliver, process, reconcile | time outs, cut answers, one chain of timers | a failed exchange is a retry |
| Inbox (`core/.../sync/process-sync-inbox.ts`, `drivers/db/src/sync-inbox-work-store.ts`) | `sync_inbox_work` per fact and consumer, `sync_discrepancy` | claim a batch, check dependencies, apply effect with its mark, reschedule, open a discrepancy; a person retries or resolves | checks made before the transaction, two workers, crashes | effect exactly when marked; dependencies first; no silent loss; nothing waits for ever without a person who knows; one kind of refusal breaks this, section 3 |
| Consumers (`core/.../sync/inventory-authority-consumer.ts`, `commercial-projection-consumer.ts`, `catalog-reference-consumer.ts`) | stock, projected sales, shifts and returns, references | `apply` | updates of rows that do not exist; refusals that may pass or not | idempotent effects; stock not negative; one stock item per product |
| Coordinated operations (`core/.../sync/coordinated-stock-operations.ts`, `drivers/db/src/coordinated-operation-store.ts`) | intention and two steps per operation | `begin`, `recordLocalEffect`, `reconcile` | answers read before an await and used after it; statements that commit alone | COMPLETED only over application; every committed operation ends |
| Fiscal documents, fiscal day, credit notes (`core/src/domain/fiscal/`, `core/.../fiscal/`, `core/.../sales/return-sale.ts`) | document and report with status, attempts, evidence; the device | issue, reconcile, report X and Z | a device that acts and whose answer is lost; crashes around printing | a fiscal effect at most once per reference |
| Sales, payments, shifts (`core/src/domain/sales/`, `core/src/domain/cash/`, `core/.../sales/`, `core/.../cash/`) | sales and shifts with a version, cash movements | start, items, discount, payments, complete, void, return; open, incomes and withdrawals, close | payments taken long before the completion, a shift that closes in between, a refund in a later shift | the drawer holds each payment and refund once, in its shift; a closed shift never changes |
| Stock, counts, purchases (`core/src/domain/inventory/`, `core/.../inventory/`, `core/.../purchasing/`) | stock item with movements and costs, counts, receipts, and the availability each terminal holds | receive, adjust, open, close and approve a count, complete and reverse a receipt | movements between the close of a count and its approval; facts of a terminal that come late; averages computed in two ways | each count, receipt and sale moves its goods once; an availability is the stock at its version |
| Idempotency and transactions (`core/.../idempotency/`, `drivers/db/src/unit-of-work.ts`) | stored results; one SQLite connection | find, execute, save | repetitions at any later time; expired results | a command takes effect once |
| Catalogue, configuration, currency and their references (`core/.../catalog/`, `core/.../config/`, `core/.../currency/`, `core/.../sync/publish-catalog-bootstrap.ts`, `drivers/db/src/catalog-reference-projection.ts`) | masters, products, policies and rates with versions at the coordinator; copies of them at each terminal | create and change, publish with the change; publish everything again; apply | publications late, repeated, mixed with the initial cut; barcodes that change hands | a terminal holds what was published, and the newest version wins |
| Identity, grants | users, sessions, grants | log in, administer | terms, last administrator | the newest grant wins |
| Diagnostics, backups, secrets, reports, routes, desktop | read models, files | mostly input and output | | |

How they interact: a use case saves an aggregate and enqueues its facts in one
transaction; the worker's cycle claims the facts that are due for each active
destination, sends them and settles each row by the receipt; the receiver takes
custody and creates its tasks in one transaction; the cycle of the receiver
applies the tasks; the terminal's cycle asks the coordinator whether the facts
of its coordinated operations were applied.

## 2. Modules

| Module | Models | Role |
| --- | --- | --- |
| `OrderedDelivery` | what synchronisation promises: record, hold, put aside as late, confirm | abstract specification |
| `SyncDelivery` | outbox, relay, network, reception, registry of nodes and owners | detailed specification |
| `SyncInbox` | inbox work, dependencies, consumers, discrepancies | detailed specification |
| `CoordinatedOperation` | the terminal's operations over `SyncInbox` and a delivery that keeps the promise of `OrderedDelivery` | composition |
| `SaleAndShift` | sales, payments, returns and the shifts of a register, with repeated commands | detailed specification |
| `StoreStock` | one stock item with its movements and costs, purchases, counts and sales of two nodes, availabilities | detailed specification |
| `CatalogReferences` | the masters of the coordinator, their publications and initial cuts, the copies of a terminal | detailed specification |
| `FiscalPrinting` | fiscal documents, the printer, reconciliation, credit notes of returns | detailed specification |
| `FiscalDay` | fiscal days and their X and Z reports | detailed specification |
| `SyncDeliveryProofs` | invariants and refinement of `SyncDelivery` | proofs |
| `CoordinatedOperationProofs` | invariants and finality of `SyncInbox` and of `CoordinatedOperation`, which composes it | proofs |
| `SaleAndShiftProofs`, `StoreStockProofs`, `CatalogReferencesProofs`, `FiscalPrintingProofs`, `FiscalDayProofs` | invariants and action properties of the module of that name | proofs |
| `FoldLemmas` | finite sets, folds over sequences and sums over sets | lemmas that the proofs share |
| `MC*` | values of the constants | TLC |

### How state and actions correspond to the code

*A database transaction is one step.* `SqliteUnitOfWork.execute` runs its work
between `begin immediate` and `commit`, and SQLite serialises writers. What lies
between two transactions - a call of the network, another process, a crash - is
another step. Statements that the code runs outside any unit of work are steps
of their own (`Conclude` and `refreshStatus` of `CoordinatedOperation`).

*Times are the comparisons the code makes.* `due` is `next_attempt_at <= now`,
`leased` is `lease_until > now`. They change by `BackoffElapses`, `LeaseExpires`
and, while the holder is still at work, `LeaseOverruns`, which counts as a
failure.

*`SyncDelivery`.* `delivery[d][e]` is the row of `sync_delivery`, `ABSENT`
before it is materialised; `batch`, `call` and `target` are the local variables
of `OutboxRelay.runBatch`; `wire` has the requests no receiver answered, so that
a request may arrive long after its relay gave up; `custody` and `owner` are
tables of the destination. `ClaimAvailable` is the whole `claimAvailable`:
materialise, choose, isolate versions that the catalogue does not publish,
claim. `Skip`, `Isolate`, `Send` are the three ways of one turn of the loop of
`runBatch`; `Settle` and `Timeout` its end; `Reject`, `TakeCustody` and
`Unavailable` are `ReceiveSyncEvent.execute`. `Truncate` is an answer that is
cut after its headers. The application class `PENDING_DEPENDENCY` of
`classifyApplication` produces the same receipt and the same custody as
`PENDING_CONSUMER` and is not told apart. Facts enter the outbox in two ways.
`Record` is a use case: all the facts of a new version of an aggregate, in one
transaction. `PublishCatalogBootstrap` is the initial cut, which may be ordered
again at any time: new identifiers under versions that were published before,
and of an exchange rate every version still valid, earlier ones included. A
destination that already holds a later version classifies such a rate as
`PENDING_REVIEW`; it is in custody, its tasks are created and the sender is
answered as usual. `follows` is a history variable that no guard of the code's
actions reads: what was recorded before a fact, or with it, and precedes it. Quarantine rows are not kept: nothing
reads them back. A batch limit counts facts by their identifier, which follows
`created_at, event_id`.

*`SyncInbox`.* `work[t]` is the row of `sync_inbox_work`. Its `attempts` is only
compared with the generation of a claim, and a worker never has two claims of a
task, so the model keeps the holder of the last claim. `Begin` is what `process`
reads before its transaction; `Apply` is the transaction (claim still live,
effect, mark); `ApplyFails` its rollback; `Reschedule` and `OpenDiscrepancy` the
transaction that follows. `inbox` is the order of `received_at`; facts received
in one millisecond, which the query orders by identifier, are one of the orders
that the model already allows. The stock is one balance, the projection the
version of each row and the set of sales that show a return.

A refusal has one of two fates in `ProcessSyncInbox`: its code is in
`DISCREPANCY_CODES` and a person is told, or it is rescheduled, for ever if need
be. A contradiction is of the second kind. A terminal without an availability of
a product names a stock item of its own in a receipt; the authority makes the
item of the first receipt that it applies, or completes itself
(`CompletePurchaseReceipt`), and refuses whatever names another
(`STOCK_PURCHASE_ITEM_CONFLICT`, `STOCK_COUNT_ITEM_CONFLICT`; the lots of an
item in the same way). `Names[e]` is the item that the evidence of a fact names,
`items` the one the authority has, `conflicts` their disagreement. Returns take
their item from the issue that the coordinator applied, so they cannot meet it.

*`CoordinatedOperation`.* `steps` and `status` are the two tables of the
terminal; `probe` is the local state of `reconcile` between its awaits.
`Arrives` stands for the whole of `SyncDelivery`: a recorded fact arrives, once
(refined and checked there), and what a use case records after the earlier
versions of its aggregate.

*`FiscalPrinting`.* `row[d]` is the row of `fiscal_documents` of an invoice or
of a credit note, one of each per sale (`unique (origin_node_id, document_type,
reference_id)`). `flow[f]` is a request of the server between two awaits: the
document in memory and, after a call, the device's answer; `StartPrinting`,
`PrintDocument` and `RecordResult` are the three halves of one printing, for
`IssueFiscalDocument`, for `issueCreditNote` and for a reconciliation of a
pending document, which run the same lines. `accepts` is `save`: the version
check and the trigger that keeps issued documents. The device commits at `CLOSE`
and remembers its last document; `printed` counts what it committed and no code
reads it. The number of a document is modelled as the document that the device
gave it to, so that "its own number" can be said. A restart empties the fake
device, which lives in the process; a device outside keeps its memory; the model
has both. Fiscal evidence is not a variable: no use case decides by it, since
`beginRetry` and `markFailed` have no caller, which is also why `RETRYING` and
`FAILED` do not appear. Documents are issued as `IssueSaleInvoice` does; what a
client may send by hand to `POST /api/v1/fiscal/documents` is left out. The
conditions of a return on shift, payments and stock only refuse, so the model,
which lacks them, allows more.

*`FiscalDay`.* `days[d]` is the row of `fiscal_days` with its reports, saved
whole under a version and kept by a trigger once closed. A request prepares its
report, stores it as `PRINTING`, calls the device and stores the answer over the
day *it read*: `PrintFiscalReport`, `StartReport`, `PrintReport`,
`RecordReport`. A refused save ends the request. Each day has its own business
date, so that a new day is always a new row; a second day with the date of a
closed one is refused by the code and adds nothing here.

*`SaleAndShift`.* Each command is one transaction over the sale, the shift and
the stored answers. Commands that create something carry a key; a second
command with an answered key returns that answer and changes nothing, so it is
not a step, and a client that repeats a command with *another* key is. The
operations of the domain (`addItem`, `registerPayments`, `complete`, `void`...)
are sets of possible outcomes, empty when the operation refuses. Prices are one
`Price` per line and discounts one unit per line: the code divides no amounts
that a property reads. `CompleteSale` includes `ApplySaleCompletedToShift`, the
issue of stock and its audited refusal; `ReturnSale` the refund and the
restoration; the fiscal document is a step of its own (`IssueSaleInvoice`), as it
runs outside the transaction, and `FiscalPrinting` has its inside.

*`StoreStock`.* `movements` is the sequence of one stock item, whose `after` is
`stockAfter`; the cost is a natural number or unknown. The average of the
aggregate (`averageUnitCost`) and the one that the queries compute
(`costInSql`) are separate operators, since the code has both and they differ
when a cost is unknown. An availability carries the version of the item, which
counts its movements. Receipts, counts and sales of the terminal end as a fact
in `facts`, which the coordinator applies at any later time, again and again;
what `SyncInbox` guarantees about their order and dependencies is not assumed,
so the model allows more. The terminal takes availabilities in any order and
keeps the greatest version.

*`CatalogReferences`.* `row` is the row of each master, product, policy and rate
of the coordinator with its version; `sent` the publications that the inbox of a
terminal has not applied; `held` the terminal's row. Each command is one
transaction that saves the row under its next version and publishes the state it
saved. What a row contains is abstract except what a guard reads: whether it is
active, the category, unit and barcode of a product, which has one barcode or
none. A node may start from what `bootstrap-operations` and `seed-products`
leave, which nobody published: hence `PublishCatalogBootstrap`, which publishes
every row again under the version it has. `Apply` is the consumer within the
transaction of the inbox: older versions are dropped, a product waits for its
category and unit, and the unique index of active barcodes refuses a product
whose code another one still holds, so that the work is tried again. The terminal
may apply any publication that can be applied, which is more than `SyncInbox`
allows. It starts without masters of its own and both commands run before the
first change: run again, `bootstrap-operations` would change payment methods
without a version, and `seed-products` would put products back to version 1.

## 3. Runs

The runs of synchronisation use `CHECK_DEADLOCK FALSE`: when every fact is
settled and the bounds on failures and orders of the operator are spent, the
system really has nothing left to do. So do `store`, `stock`, `catalogue` and `fiscal_day`, where
the identifiers and the bounds of a behaviour are spent. `fiscal` and
`fiscal_note` check deadlock: a person may always reconcile or repeat a request.

| Run | Shows | Bounds |
| --- | --- | --- |
| `delivery_safety` | `PublishedHasCustody`, `OneLiveClaim`, `ExhaustedIsPaused`, `SettledForGood` and the refinement `DeliversInOrder`, with two relay processes | two versions of a rate, the first of them listed again by a cut under a new identifier, and one fact of another aggregate whose contract does not survive its round trip; a budget of 2; 2 failures; 1 resumption; about 880,000 states |
| `delivery_live` | `EventuallySettled` | one worker that visits two destinations, two facts of one rate, one of them of a cut, under the earlier version and with a version of contract that the catalogue does not publish, 2 failures, 1 resumption |
| `delivery_truncated` | violation of `TruncationIsRetried` | one cut answer |
| `inbox_safety` | `MarkedIffIssued`, `NoReturnIsLost`, `DiscrepanciesStayOpen`, `DependenciesFirst` and, under fairness, `PendingIsProcessed`, with two workers | a sale without stock, its return, a receipt of goods of the terminal and one of the coordinator that names another item; 1 failure; about 430,000 states |
| `operation` | `CompletedIsApplied`, `OperationsAreReconciled` | a purchase, a count for which stock is short, and a receipt of another terminal that names its own item; 2 failures |
| `operation_torn` | violation of `EvidenceCompletes` | one stop inside `recordStep` |
| `store` | `PaymentsAreInTheirShift`, `ClosedShiftsBalance`, `RefundsMatchReturns`, `OverdrawnOnlyByRefunds`, `OneEffectPerKey`, `StockIsConserved` | two sales, two consecutive shifts, two keys, cash and card, one line and one unit of discount per sale, one manual movement, stock for one sale; with and without a coordinator |
| `stock` | `ReferencesAreSnapshots`, `CountsLandOnWhatWasCounted`, `ReceiptsAreInStockOnce`, `SoldGoodsMoveOnce` | two receipts that may name one document, one count, one sale, each of either node; four movements, one of them loose |
| `catalogue` | `ReferencesFollowTheCoordinator` | one category, unit, method, policy and pair of currencies; two products and two barcodes; four commands, initial cuts among them; about 1,400,000 states |
| `fiscal_day` | `ReportsPrintedOnce`, `ClosedByItsZ`, `UnrecordedZHoldsTheTerminal`, `DaysAreLinear` | two days, four reports, two overlapping requests, 3 failures |
| `fiscal` | `PrintedOnce`, `OneInvoiceAtATime`, `InvoiceNumberIsOwn`, `TransitionsAreLinear` | two sales (four documents), two requests, 3 failures; about 340,000 states |
| `fiscal_note` | violation of `IssuedWasCommitted` | one sale, two requests, 1 failure |

Why these bounds are enough to see the interesting cases. Two failures let a
lease overrun and the answer of its holder be lost, while another relay sends
the row again; `SyncDeliveryProofs` has the same properties for any number of
them. A budget of one or two
attempts replaces ten: the code only compares the counter with its limit. Two
versions show the order inside an aggregate, one of them recorded again after
the other shows what comes late, and a fact of another aggregate that aggregates
do not wait for each other. In the inbox the batch limit is not below the number
of tasks: with a batch of one, the task that is tried again for ever and the
oldest one that is due take turns and the newest is never claimed, which is the
hazard of the full batch. Two receipts that name different items are enough for
a contradiction, in whichever order they are applied. Two sales show that the printing of one
meets the reconciliation of the other, two requests that each finds the other's
half-done work, and three failures leave a printing without answer, its
reconciliation cut short and the process restarted. Two fiscal days and four
reports allow a day to be closed, reopened as another and asked for a late X. In
`store`, two shifts let a sale be paid in one and returned in the other, stock
for one of two sales lets the second stand without its issue, and two keys let
each command be sent again with the old key or a new one. In `stock`, four
movements are what a receipt, a sale, its return and a count need between the
close and the approval of the count; two receipts of one document show a repeated
purchase. In `catalogue`, four commands give two products, let them exchange a
barcode and publish everything again in between. A chain of two dependencies
(shift, sale, return) and the closure of a shift are in no run: the theorems
about `SyncInbox` hold for every graph of dependencies. In `store` one manual movement
fits, so what `OneEffectPerKey` says of a movement repeated after another one is
left to its theorem, which is for any number. In the deliveries and in
`operation` the batch limit is below the number of rows, so a batch leaves some
behind. Processes and identifiers that play the same part are symmetric;
symmetry is used only in runs without liveness.

### Fairness

`SyncWorker.schedule` starts a new timer whenever a cycle ends, also when it
ends with an error, so a process that lives works again: weak fairness of the
steps of a batch and of its settlement. A cycle visits every destination and
reconciles every pending operation, so a step that is enabled again and again
at the start of a cycle is taken: strong fairness of `ClaimAvailable` per
destination and of `StartReconciliation` per operation. Clocks advance: leases
and backoffs elapse. A request that stays in the network is answered. Nothing
obliges the environment to fail, the business to record facts, the operator to
resume, or a person to deal with a discrepancy. `MayTruncate = FALSE` in
`delivery_live` and `MayTear = FALSE` in `operation` leave out the two defects
of the next section, each of which has a run of its own.

### Findings

1. **A cut answer stops the worker** (`delivery_truncated`).
   `HttpsSyncEventPublisher.publish` listens only to `data` and `end` of the
   response. A connection closed after the headers emits neither, the promise
   stays open, and with it `runBatch`, the cycle and the only timer. The
   documentation of the class promises a retry. The probe of an application has
   the same listeners.
2. **A step without its status** (`operation_torn`). `recordStep` writes the
   step and then the derived status, and `reconcile` calls it outside any unit
   of work. A stop between the two leaves an operation with evidence of both
   steps `PENDING_RECONCILIATION`, which later reconciliations skip.
3. **A credit note that was never printed is issued** (`fiscal_note`). The
   device's last document is recognised by its reference, and a credit note has
   the reference of its invoice. If the note is the next thing the device is
   asked for after that invoice and its printing stops or fails before the
   commit, `ReconcileFiscalState` finds the invoice there and marks the note
   `ISSUED` with the number of the invoice. FS-001 says that `ISSUED` requires
   positive evidence of a fiscal commit.

### A refusal that nobody hears of

`PendingIsProcessed` and `OperationsAreReconciled` name one exception, and it is
a real one: a task that the stock item of the coordinator contradicts is tried
again for ever, its operation stays `PENDING_RECONCILIATION`, and no discrepancy
is opened, since `DISCREPANCY_CODES` (`core/.../sync/process-sync-inbox.ts:30`)
lists neither the conflicts of purchases, nor those of counts and returns. Two
terminals that receive a new product before either has an availability of it are
enough. A test of the server says otherwise of operations in general: "un
rechazo definitivo del coordinador no deja la intención esperando para siempre"
(`src/apps/server/src/sync/lan-sync.e2e.test.ts`); the refusal it tries is a lack of
stock, which is listed. Without the exception both properties are violated;
`ContradictionsAreFinal` proves that trying again cannot succeed.

## 4. Proofs

`tlapm` checks every obligation of the eight modules that hold theorems. They
assume only the named assumptions of the specifications: identifiers are
naturals or differ from `None`, metadata are functions of them, bounds are
naturals; for the inbox, that a return marks a sale and that every fact of a
sale is projected (`MarksProjectedAggregate`), as the declared contracts say;
for the stock, that receipts, counts and sales have different identifiers, as
generated ones do; for the references, that products, policies and rates have
identifiers of their own, and payment methods other ones than categories and
units, since each kind has a table of its own and the model keeps all the rows
in one function.

Every safety invariant and action property of the passing runs has a theorem.
Some theorems say more than a run does, and are marked *(not in a run)* below.

**`FoldLemmas`.** Balances, goods and values are sums over sets and folds over
sequences. The library's induction theorems take the induction hypothesis as an
operator, which no installed prover can instantiate, so induction is done with
sets: the numbers, or the subsets of a finite set, for which the claim holds are
a set, and one that goes on from each number to the next lacks none
(`CountingUp`, `SubsetInduction`; behind them is the least number principle of
the library, `WFMin`). From them: a fold is determined by its steps (`Folds`,
`FoldExists`), a sum does not depend on the order in which its set is enumerated
(`SumWithout`, `SumWithOneMore`), sums over two sets add up (`SumOfTwo`), a sum
over the image of an injection is the sum of what it maps (`SumOfImages`), and a
sum of members of a set closed under addition stays in it (`SumStaysIn`:
numbers, what is not negative, zero).

**`SyncDeliveryProofs`.** `PublishedHasCustody` is not inductive: a row becomes
`PUBLISHED` by an answer, so the answer in flight must imply custody; and
`CustodyInOrder` needs that whatever is claimed, called or on the wire has what
was recorded before it in its aggregate published (`Ready`), which stays true
because a confirmed row is never reopened. A cut may record a fact that precedes
one already sent; the later one is then `Overtaken`, which only a listed fact can
do, and only with the same version or with an earlier one of a rate
(`OvertakenIsListed`). Hence what a destination puts aside as late is such a rate
(`LateIsOvertaken`). `DeliveryInv` is the conjunction of these facts and the
types.
From it: `TypeCorrectness`, `PublishedIsHeld`, `CustodyFollowsVersions`; with an
invariant of each row for the budget, `BudgetOfRows`; the action property
`SettledStaysSettled`; and `Refinement`, where `Record` and
`PublishCatalogBootstrap` are `RecordFacts`, the first custody is `Hold` or
`HoldLate`, a settlement that publishes is `Confirm` and every other step is a
stutter. `ClaimsAreExclusive` (one live claim per row) needs to know how
what a process holds relates to the row: `ClaimsFollowRows` says that a claim
never has more attempts than its row and that two claims of one generation are
one claim.

**`CoordinatedOperationProofs`: the inbox.** Dependencies are checked before the
transaction that relies on them. What the check found must not be undone:
`InboxInv` keeps, for each worker whose next step is to apply, that its fact is
`supported` (the first facts of its dependencies are applied and the sale it
marks is projected). Support only grows because no step leaves `APPLIED` and no
projection row is removed. `ArrivedInOrder` and `TasksOfReceived` tie the work
to the inbox. From it: types, `EffectsAreMarked`, `DependenciesAreApplied`,
`ReturnsAreVisible`, `DiscrepanciesAreOpen`; the action property
`ApplicationsAreFinal` (`Remembers`: a step forgets neither a received fact nor
an applied task) and `StockIsNeverOverdrawn` *(neither in a run)*: each issue is
checked against the balance in the transaction that takes it out, and the
balance is the opening stock less the sum of the issues, which `SumWithOneMore`
follows from step to step. `ProductHasOneItem` and `ContradictionsAreFinal`
*(neither in a run)* rest on `IssuedStep`: a fact enters the stock only when its
evidence names the item that is there, or makes the first one.

**`CoordinatedOperationProofs`: the operations.** The terminal uses an answer of
the coordinator some awaits after it was given. It is still true because
application is final: a step of the inbox forgets neither a received fact nor an
applied task (`Remembers`, over the invariant of the inbox), so `OperationInv`
may say that every probe that answered `APPLIED`, every step stored as applied
and every `COMPLETED` operation stand on facts that are applied there. From it:
`CompletedOperationsAreApplied`. `CompletionIsFinal` *(not in a run)* needs that
nothing is recorded of an operation that was not begun and that a probe is about
one that was (`EvidenceInv`); then every status derived from both evidences is
`COMPLETED` again, also the one that `refreshStatus` derives late.

**`SaleAndShiftProofs`.** First, which movements there are. A payment of a sale
by a method can be one movement of one shift only (`PaymentsInPlace`), and so
can a refund (`RefundsInPlace`); a closed shift keeps what it counted and has no
drafts (`ClosedForGood`); whatever a key made has its answer stored
(`KeysAreAnswered`), so no second one is made (`KeysMakeOne`). `StoreInv` is
their conjunction, kept by one lemma per action. Then, what they add up to. A
balance is a sum of signed amounts (`BalanceIsASum`), and what a step adds to a
drawer it adds to its balance (`BalancesAddUp`). For `DrawersAreCovered`, a
withdrawal is checked against the whole balance, refunds included, and refunds
only take out (`RefundsOnlyTakeOut`), so what covers it without them is at least
as much. `StockStaysConserved` follows the sum of the goods that are out
(`GoodsInv`): one more when they leave, the same one less when they come back,
and no one edits a sale whose goods left. `DrawersHoldTheTotals` *(not in a
run)* puts both together: a sale that takes payments is settled exactly and is
closed to changes (`PaidInFull`), its movements are the parts of that batch, one
per method that pays (`PartsOfABatch`, `SumOfImages`), so they add up to its
total, and those of its return as well. `MoneyIsNeverRewritten` *(not in a run)*
is the action property of the ledger: movements are only added, and closed
shifts, completed and voided sales and returns do not change.

**`StoreStockProofs`.** No step does anything to the movements but append one,
whose `after` continues the balance (`Sound`), so the stock at an earlier
version can always be read back from a prefix: that is what availabilities and
counts speak of. The invariant has one part per receipt, count and sale, and a
movement concerns only the part of its origin (`StepByParts`); each action is
then a lemma about one part. `TypesInv` adds what `StockTypeOK` needs and the
parts do not say: each movement leaves what the one before left and its own
units, and never less than nothing (`Chained`), and a receipt or a sale has
units. The fold of the valuation forgets its value and its units whenever
nothing is left; by induction over the prefixes of the movements its units are
nevertheless the balance (`UnitsAreTheBalance`), hence `ValueIsOfTheStock` *(not
in a run)*, and hence every cost that is worked out is a number, since a
division by the units happens only when there are some (`CostsAreNumbers`,
`StockIsTyped`). `StockHistoryIsKept` *(not in a run)* is the action property:
movements are only appended, the item of the product keeps its identity, the
terminal does not go back to an older availability, and decided documents are
final.

**`CatalogReferencesProofs`.** That the terminal ends with the current state
(`CurrentArrives`) is not inductive. Behind it are three facts: publications are
never ahead of their row (`PublishedIsBehind`), once a reference is published
its current state is (`CurrentIsPublished`), and what left the queue is held, or
something newer (`ConsumedIsHeld`). So a current state that is not on its way is
held. `BarcodesAreUnique` then says that a product which still holds the code of
another one is behind, with its release on the way. The rotation of three codes
listed among the hazards does not contradict it: the releases are there, and
none can be applied first. `CopiesHoldTogether` *(not in a run)* is about the
terminal by itself: its products have their category and unit, and its barcodes
name one product each, at every moment and not only once everything arrived; at
the coordinator a product has its masters too, although one of them may be
inactive, since an update that does not mention it keeps it. With it,
`VersionsOnlyAdvance` *(not in a run)*.

**`FiscalPrintingProofs`.** A request stores a document that it read some awaits
ago. `Sound` says how old that copy may be: the row has at least its version, so
a save that `accepts` takes finds the row exactly as it was read
(`CurrentCopy`). Hence a row changes in four ways only (`RowsAdvance`: created,
begun, failed, numbered), and the properties follow from those instead of from
each action. `PrintedOnce` needs that a document in the hands of a printing
request has not been printed and is in no other such hands (`OnePrinting`);
`InvoiceNumberIsOwn` needs that a note exists only when its invoice is already
issued (`NoteAfterInvoice`), which is what keeps a note's number from its
invoice - and nothing keeps the invoice's number from the note (finding 3).

**`FiscalDayProofs`.** The same argument over a day that holds many reports:
`CopiesAreOld` says that a copy is the stored day or an older one, so an
accepted save changes a day by one report (`Requested`, `Advanced`), one request
prints a report at a time (`OneRequestPrints`), and what was printed was begun
(`PrintedIsStarted`). Two days are never open together, which with the statuses
gives `UnrecordedZIsHeld`.

**Only model-checked:** the liveness properties (`EventuallySettled`,
`PendingIsProcessed`, `OperationsAreReconciled`), since fairness and ENABLED are
out of the prover's reach; and the three findings, which are counterexamples.

## 5. What is not modelled

* *Identity, authentication, operator grants*: they decide who may act, not what
  an action does; the models let every command happen.
* *Of the references*: the grants of operators; the history of exchange rates,
  where a late rate is dropped, which is among the hazards; products with several
  barcodes; the repeated provisioning of a node, and a terminal with masters of
  its own, also among the hazards. Branches and cash registers are local rows.
* *In the modules that are partly modelled*: `SetSaleRecipient`, taxes and the
  snapshots of lines; suppliers, batches, currencies and the replacement of
  drafts; counts of several lines; enrolment of certificates and the addresses
  of nodes; documents that a client sends to the issuing route by hand.
* *Flows that share the one connection of SQLite*: a transaction is one step of
  the models. `SqliteUnitOfWork` cannot tell two overlapping flows apart, which
  is among the hazards, without a property.
* *A budget of deliveries across crashes*: the relay consults the budget when it
  observes a failure, so a process that stops after a claim sends once more;
  among the hazards, without a property.
* *Diagnostics and reports* only read. Certificates, headers, encodings, wording,
  audit entries and quarantine carry data that no property tells apart. Backups,
  key rotation, routes and the desktop application are input and output.
