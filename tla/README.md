# Verification of Wholo

TLA+ models of the core of Wholo, the wholesale ordering platform of this
repository, with TLC configurations that check them on small instances and
TLAPS proofs of their safety properties for instances of every size.

Paths below are relative to `src/apps/api/src` unless they begin with `src/`.

## The system

Wholo is a NestJS API over PostgreSQL. The web back-ends for administrators,
trade customers and drivers forward requests to it, and one worker process
(`worker.module.ts`) consumes the BullMQ queues in Redis. What makes it hard is
that every request is a read, a decision and a transaction at READ COMMITTED,
that jobs are delivered at least once, that two external systems (the job queue
and the accounting provider) take part, and that the users, the worker and the
accounting provider change the same rows.

| component | state it keeps | operations | hard because | what must hold |
|---|---|---|---|---|
| Delivery runs board (`delivery-runs`) | runs of a route on a date: status, version, driver; stops: order, run, position | assign, unassign, reorder, mark ready, reopen, driver, reschedule | users edit boards seen earlier; a reschedule touches two runs | no edit applies to a board its author did not see; stops are numbered 1..n |
| Allocation worker (`delivery-run-allocation`) | the same rows and the order's scheduled date | allocate an accepted order | redelivered jobs, jobs run twice, races with users | a placed order stays where a user put it |
| Outbox and relay (`outbox`) | event rows PENDING, FAILED, PUBLISHED; retry counts | write in a transaction; publish to queues | no transaction spans the database and the queues; crash in between | a published event is in every queue, once |
| Cart and order submission (`cart`, `orders`) | a draft per user and distributor, its lines; orders | add, change and remove lines; submit | requests of one user overlap; lines are read before the transaction that deletes them | a cart becomes one order that holds what it held |
| Order decisions and completion (`admin-orders`, `orders`) | order status, completion | accept, reject, cancel, complete | decisions on a status read earlier; two sources of completion | delivered and paid is completed, and nothing else is |
| Delivery links (`delivery-links`) | link token, recorded outcome | a driver submits an outcome, with retries | two devices, repeated requests | what a driver is told is what is on record |
| Invoice payment state (`accounting`, `accounting-invoice-sync`) | invoice facts, payment status, events | pull the provider's invoices | pulls overlap and see versions in any order | the payment events are an unbroken chain |
| Invoice export (`accounting-invoice-export`) | export row per organisation and order, its job | claim, look up, create, record; retry by hand | answers are lost, requests carried out late, the worker dies, connections are switched | never two live invoices for an order in one organisation's books |
| Ingestion runs and pulls (`ingestion`, `accounting/sync`) | a run row per connection and kind: status, cursor, heartbeat, slot; the cached records | request, schedule, claim, fetch, upsert, sweep, finalise | an attempt taken for dead may finish; records change during a pull | the cursor passes no change that was not seen; runs end; the cache settles on the provider |
| Accounting connection, token refresh | connection status, encrypted credentials, a lease in Redis | connect, refresh, disconnect | a lease that lapses; refresh tokens rotate and are good for one use | while leases hold, overlapping refreshes neither lose the credential nor break a good connection; its end is told once |
| Provider call budget | a counter per organisation and minute | take a call | concurrent takers at the limit | never more calls than allowed |
| Notifications (`notifications`) | notification and delivery rows, their jobs | record, queue, send, mark | a crash or lost answer between any two of them | no needless second e-mail; every delivery is sent or used up |
| Trade relationships, portal invitations (`admin-customers`, `customers`, `portal-invitations`) | relationship status and removal, invitation links | create, invite, request, accept, suspend, activate, remove | decisions on a status read earlier | opened and removed once; a suspension holds |
| Relationship facts (`analytics-facts`) | facts and one row per relationship | fold events | late, early and repeated events | the row is a function of the set of facts |
| Staff invitations, members | one-time tokens, memberships | invite, accept, revoke | simultaneous acceptance | a token is used once; an owner remains |
| Support grants | a grant with an expiry | grant, revoke, use | use after revocation | no access without a live grant |
| Prices, payment terms, tax | price lists, terms | pure resolution rules | precedence and boundaries | agree with their definition |
| Order, delivery and invoice facts | facts and a projection per order | fold events | late and repeated events | the projection is that of the latest event |

The remaining components (read models, CRUD, images, mail, identity, user
interfaces, back-ends for front-ends, generated clients, deployment) keep no
state of their own or have single-statement operations; `PROJECT.json` lists
each with its reason.

How they interact: a decision on an order writes an event to the outbox in the
same transaction; the relay adds a job for it to each queue its type is routed
to; the worker's processors (allocation, invoice export, notifications,
analytics) consume those. The driver's outcome and the invoice pull both end in
`OrderCompletionService`, which completes an order. The export raises the
invoice whose status the pull brings back. A submission turns a cart into the
order the rest is about. Pulls and exports call the provider with a token the
connection hands out. Changes of a trade relationship go through the outbox to
the analytics.

## The modules

| module | models | checked with | proofs |
|---|---|---|---|
| `DeliveryBoard` | what the board comes to, one change at a time | as a property of reschedule | |
| `DeliveryRuns` | board and allocation worker, implementing `DeliveryBoard` | `MCDeliveryRuns`: board, reschedule | `DeliveryRunsProofs` |
| `EventFanOut` | what consumers are promised of events | as a property of relay | |
| `OutboxRelay` | the relay, implementing `EventFanOut` | `MCOutboxRelay`: relay | within `OrderNoticesProofs` |
| `OrderIntake` | the cart and its submission | `MCOrderIntake`: intake | `OrderIntakeProofs` |
| `OrderCompletion` | what the requests for an order amount to, one at a time | as a property of lifecycle | |
| `OrderLifecycle` | decisions, delivery, invoice pulls, completion, implementing `OrderCompletion` | `MCOrderLifecycle`: lifecycle | `OrderLifecycleProofs` |
| `OrderInvoicing` | what the export promises the books | as a property of export | |
| `InvoiceExport` | the export processor, its queue and the provider, implementing `OrderInvoicing` | `MCInvoiceExport`: export, invoiced_twice | `InvoiceExportProofs` |
| `IngestionRuns` | a record type's pulls, their runs and scheduler | `MCIngestionRuns`: pulls | `IngestionRunsProofs` |
| `TokenRefresh` | connections and the refresh of their tokens | `MCTokenRefresh`: tokens | `TokenRefreshProofs` |
| `TradeRelationships` | a relationship and its invitation links | within relationships | within `RelationshipFactsProofs` |
| `RelationshipFacts` | the consumer of the relationship's events, composed with it | `MCRelationshipFacts`: relationships | `RelationshipFactsProofs` |
| `Notices` | the notices of a placed order | `MCNotices`: notices, unnotified | within `OrderNoticesProofs` |
| `OrderNotices` | `OutboxRelay` and `Notices` composed | its parts' runs | `OrderNoticesProofs` |

`PROJECT.json` maps each definition to the lines it stands for. In every module
a definition marked "mutant" belongs to no specification: it is a plausible bug
that shows that a property can fail.

### DeliveryBoard and DeliveryRuns

Clients and workers are the actors. A client's request holds what its author saw
(the run and its version) and goes from its checks outside the transaction to the
transaction, which locks the run by the compare-and-swap on its version (`bump`
with `expectedVersion`). A reschedule's transaction does not begin with that lock,
and is three steps: `RemoveStop` checks the order's date, takes the order off its
run and reads the stops that remain, the run itself not being locked (:788-812);
`ReadDestination` renumbers what was read and bumps that run, which locks it
(:813-817), and reads the destination without a lock; `CommitReschedule` is the
rest. Between :808 and :817 the worker may add a stop, and another client may
commit an edit. The rows a transaction has written so far are locked
(`LockedOrders`, `HeldBy`, `LockedRuns`). A worker's job is a sequence of
statements, `allocateOrder` and `findOrCreateRun`, each its own step where the
code has no transaction, and may fail, be redelivered or run twice.

What is merged, and why that loses nothing: `getDay` reads the run row before
its stops, so a view is never older than the version it carries, and the read
of the version is one step with the service's checks before its transaction.
Within a transaction, the statements after the row lock are one step, since
nobody else can write what they read. A transaction that meets a locked row waits,
and one that would wait for another that waits for it is rolled back by the
database: a deadlock of row locks is the `RollBack` action. The worker's insert of a stop takes only a key-share lock of the run, so
it is its version bump that waits.

The expected date a client sends is the order's date when its request starts.

`DeliveryBoard` is the board with no versions, transactions, locks or jobs: runs
with their numbered stops and the orders' dates, and one change after another, each made to the board as
it then is. An edit is of an open run, whose stops are 1..n afterwards, those left
in the order they had; a reschedule sets the order's date and its run together;
an allocation takes up an order that is on no run; and no change renumbers a stop
of any other run. It promises less where the code does less: a reschedule numbers
both the run it leaves and the run it goes to from readings that may be out of
date when they are written, and is said to leave 1..n only where it puts the
order back at the end of its own run; the allocation seeds the customer's usual
position whatever numbers are taken; and neither heeds a run that was marked
ready meanwhile. What a reschedule does for the run it leaves is the property
`ReschedulesCloseUp`: it closes it up to 1..n unless the run changed before its
row was locked. Views, versions and jobs map to nothing, requests stutter until
they commit, and what commits maps to the change of that name; only creating a
run can come earlier, with the first step of a reschedule or the worker's look at
the route, and the worker's `SetScheduledDate` is a change of its own (`SetDate`).

### EventFanOut and OutboxRelay

`EventFanOut` says what consumers rely on: each committed event gets one job in
each queue of its routes, in the end. `OutboxRelay` is the code: rows ordered by
`createdAt`, passes over a batch of those that are not published and have
retries left, one queue add after another, each of which may fail before or
after taking effect, the update of the row, which may fail too, and the death of
the process anywhere. A job's id is its event's, so a repeated add does nothing.
The refinement maps the jobs in the queues to the abstract ones; commits map to
commits, the first add of a job to its delivery, everything else stutters.

Taken as given: events become visible in any order whatever their numbers; the
queue remembers a job for as long as its event may be added again (1000 completed
jobs are kept, a pass adds at most 99 younger ones, and at most four more passes
follow); one relay runs (replica count 1, strategy Recreate).

### OrderCompletion and OrderLifecycle

`OrderCompletion` is the order with neither transactions nor locks nor retries:
a delivery, a change of payment status and a decision each take effect in one
step, and a delivered order is completed exactly while its invoice is paid. A
decision alone keeps two steps, for the code checks a status it read earlier.
`OrderLifecycle` is the code, and implements it: the commit of a transaction is
the abstract step, everything before it a stutter, and a repeated or overtaken
request never takes effect at all.

One order with its invoice. Users decide on a status they read before their
transaction. Drivers' requests and invoice pulls take the order's row lock by
updating it, read the other side's row and complete the order or not: the two
kinds of transaction that can make an order complete each read what the other
writes, and only the lock makes one of them see the other. A pull fetches a
version of the invoice, loads the row, and applies what it fetched in a
transaction of its own, so pulls overlap and arrive in any order; overlapping is
reachable, since a fetch has no heartbeat and a run is taken for dead after 15
minutes, and since runs are per connection.

Abstractions: a version of the invoice is its number in the order of the
provider's timestamps and one of the facts the derivation tells apart; VOIDED
stands for DELETED, DRAFT for AWAITING_APPROVAL. `ExportInvoice` is guarded by
the acceptance only; the export is the business of `InvoiceExport`. A decision's
transaction is one step while the row is free. The unique index on the delivery
and the row lock are taken together.

### OrderInvoicing and InvoiceExport

`OrderInvoicing` is what the distributor's books see of the export: an invoice
is raised only where none is live, and the export is said to be completed once,
of an organisation that raised one. `InvoiceExport` implements it as long as
`EditsWait`; the mapping forgets attempts, claims, keys and requests under way.

One order, the organisations the distributor may connect, the jobs that may
export it, and the provider's books. The worker runs one export at a time
(replica count 1, no concurrency set for the queue), so attempts do not overlap;
what overlaps are attempts and the requests of attempts that are gone. A create
request under way may be carried out at any later moment or never. What a
request contains is reduced to its idempotency key (`invoiceIdempotencyKey`, a
hash of the export's id and the request), a number that changes whenever a
mapping, an account, the target status or the export row changes. The provider
answers a key it remembers with the invoice it raised, and forgets keys some
minutes after.

What the worker reads before its claim is one step with the claim, since nobody
else claims. The building of the request and the lookup commute with what may
happen in between and are one step with the sending. A failure that is certain
not to have reached the provider happens at "claimed"; one whose outcome is
unknown at "sent", and its job waits in "settling", at least two minutes
(`UNKNOWN_OUTCOME_SETTLE_MS`), which is taken to be longer than a request is
under way. Claims age only when no attempt works on the row (an attempt is
shorter than 15 minutes). A job of a worker that dies is run again once
(`maxStalledCount` 1), within about a minute. A connection that changes during an
attempt shows as a transient failure.

`EditsWait` is an assumption of the environment: what a request is built from,
and the row, are left alone while a request is under way. The run `invoiced_twice`
drops it.

### OrderIntake

One user's draft cart, the requests of that user that may be under way at once,
and the orders. A request reads the cart in one step and writes in a later one.
The transaction of a submission is two steps, for it is caught between them: it
creates the order and deletes the lines there are by then, and then deletes the
cart's row, which fails when another submission has deleted it or when a line
has appeared meanwhile (`cart_order_lines` refers to the cart without a
cascade). A line's quantity, price and tax are one value, resolved and frozen
together. The checks of the relationship, the date and the minimum spend depend
on nothing the model has, and are failures that may happen at any point. A
cancellation by the customer (`orders.service.ts:535`) is `OrderLifecycle`'s
cancellation under a narrower guard.

An item written between the submission's load and its deletion of the lines is
in no order and no cart afterwards. The model records it (`late`), and the
property says that nothing else is lost.

### IngestionRuns

One record type of one connection: its run row, the scheduler and the Sync
button that request it, the jobs that claim it, and what a pull does to the
cache. Time passes in windows of `PROCESSING_STALE_MS`. Any write to the row,
the scheduler's included, is a heartbeat (`updatedAt`); an attempt is silent
while it fetches, so it can be taken for dead and overtaken while it lives, and
`overlapped` remembers that. An overtaken attempt finishes by id and completes
its successor's run.

A record is the instant of its last change, a fetch a snapshot; the five minutes
by which a cursor is set back become "not earlier than". The read of the
connection and the claim are one step. After a disconnection nothing happens to
the row, and time goes on (`Disconnected`). `quiet` counts only while it matters.

### TokenRefresh

The distributor's connections, the callers that want a token, and the lease in
Redis. The provider accepts a refresh token once and answers with the next, so a
lost answer loses the connection. The lease is renewed while its owner lives;
`Lapse` is an owner that is cut off from Redis and does not notice. A refusal for
good is not always deserved: every error that is not transient is one
(`toRefreshTokenError`), a wrong client secret or a 4xx without a reason
included, and `RefuseGood` is that refusal of a credential that is still
accepted. `Condemn` writes ERROR by id, whatever the row says by then.

`lapsed`, `spoiled`, `untold` and `refused` are history variables: connections
whose lease lapsed; whose credential was revoked, lost with an answer or a
caller, or refused though good; whose end a caller died or failed before telling;
and the credential that was last refused. The properties exempt the first three,
and a reader should know what that leaves out. After a lapse one caller may
present what another has just used up, be refused, and write ERROR, and the other
then drops the new credential, for its conditional write finds the status
changed: the connection is lost. A caller that dies with the new credential in
hand loses the connection too, and one that dies or fails between the ERROR and
its notice leaves it untold. Nothing in the code prevents these. That the write
is conditional on the credential shows in no property: credentials are good for
one use, so a caller that has a new one in hand never finds another stored.
Not modelled: the single-use OAuth states, the organisation's settings.
Callbacks that overlap are taken in the order of `connectedAt`.

### TradeRelationships and RelationshipFacts

The relationship of one pair, its links, and requests of staff and
customers, a step per read whose result is used later. Each change writes an
event with the status it left and the time taken before it waited for the row,
so the events' times and the order of their commits can differ.
`RelationshipFacts` adds the consumer: events arrive in any order and more than
once, each becomes a fact and is folded into the row. The row is compared with
what the set of facts alone determines (`ProjectionOfFacts`), and with the
relationship (`AgreesOnceConsumed`). No two events share a millisecond.

### Notices

The notification job of a placed order and a delivery job per e-mail, with every
call to the database, the queue or the mail server a step that may fail before
or after taking effect, and the worker's death anywhere. `unsure` counts the
e-mails whose sending was not recorded, or was recorded and the record overwritten:
when the answer to the SENT is lost, the catch clause writes FAILED over it
(`FailToMark`, `Catch`), and the next attempt sends again. `retold` the administrators' notices
repeated after a death. A repeated attempt may find other recipients than the
one before, for the settings may have changed; one that finds nobody leaves the
rows alone, which `PendingIsInHand` exempts (`to = {}`). `ForgetMail` is the queue's
retention of completed jobs. The counter of attempts in a row is left out. The
notices of other events take the same way without the administrators' part.

### OrderNotices

The relay and the handlers together. They share the queue, for the notification
job is there once the relay has added it, and the process: the worker that
relays runs the jobs too, so its death ends a pass and an attempt in one step.
Each part keeps its own properties in the composition, and two more are of the
whole: nobody hears of an order that did not commit, and a fan-out repeated
however often is one job and one notice.

## The runs

All state counts are of distinct states.

| run | instance | shows |
|---|---|---|
| board | 2 orders, 2 routes on 1 date, 2 clients, 1 worker, 3 requests, 1 attempt; 317,395 states | no edit applies to a board its author did not see, and every edit leaves 1..n, with the worker adding orders all the while |
| reschedule | 2 orders, one without a route, 1 route on 2 dates, 2 clients, 2 workers, 2 requests, 2 attempts; 1,504,107 states | a version that is the run's means a view that is the run's; a reschedule closes up the run it leaves unless that run changed before its row was locked; requests and jobs, redelivered and concurrent ones too, come to one change of the board at a time (`DeliveryBoard`) |
| relay | 4 events, 3 queues, batches of 2, 4 failures allowed per event, 3 faults; 85,059 states | published means queued everywhere; the relay implements the fan-out, and each event is queued in the end |
| lifecycle | 1 user, 2 devices, 2 pulls, 3 versions, 1 fault; 837,174 states | delivery and payment never miss each other; drivers are told what is recorded; the requests amount to one at a time (`OrderCompletion`); a paid delivery completes in the end |
| export | 2 organisations, 2 jobs of 2 attempts, 2 keys, 1 fault, 1 voided invoice each; 3.1 million states | never two live invoices in an organisation; an invoice is raised only where none is live and one export completed (`OrderInvoicing`); no attempt ends its job silently |
| invoiced_twice | 1 organisation, no faults, edits do not wait | violation: two requests of different keys both raise an invoice |
| relationships | 2 requests, 3 links to two people, 4 instants; 953,039 states (and by hand 2 links and 5 instants, 5.5 million) | the row is a function of the facts; one opening, one removal; a suspension is ended only by lifting it or by a link; the row agrees with the relationship when its events form a chain |
| pulls | 1 record, 2 jobs of 2 attempts, an interval of 2 windows, 2 changes, 1 fault; 413,454 states | the cursor keeps its promise unless attempts overlap; a full pull leaves what it fetched; every run ends; the cache settles on the provider even when attempts overlap |
| tokens | 2 callers, 2 connections, 2 credentials each, 2 faults; 129,908 states (and by hand 3 credentials, 644,021) | while leases hold, overlapping refreshes neither lose the credential nor put the connection in ERROR, and an ERROR stands over the credential that was refused; a connection's end is told once, and told; calls end |
| notices | 2 recipients, 2 attempts, 3 faults; 1,135,536 states | one e-mail each but for unrecorded sendings; no row left behind; every delivery sent or used up |
| unnotified | 1 fault | violation: one failed call loses the notices of an order |
| intake | 3 requests, 2 products, 1 entry, 2 carts; 705,547 states (and by hand 2 requests with 2 entries, 395,037) | a cart becomes one order that holds what the cart held |

Why the bounds are enough: every race here is between two actors about one row
or two, so two of each kind of actor, two runs (on one date, which is where
orders are moved between routes, or on two, which is where they are rescheduled)
and two orders (the least for which positions matter) meet each other. For two
orders the stops that stay in their order are one, so the refinement was also run
by hand with three (2 dates, 1 worker, 2 requests, 1 attempt; 762,954 states), with
`ReschedulesCloseUp` and the parts of the invariant. The customer's usual position
is the second there, so that the worker's number leaves a gap where a stop has
gone meanwhile. Two
workers are more than the deployment runs; the code handles concurrent jobs
(it catches the unique index's error), so they are allowed. The attempts of a
job (5 in the code) are 2, enough to have a first and a last. Three versions of
an invoice let the two pulls hold a newer and an older one than the row's.
Relay's batches of two leave events behind for a later pass, and its faults are
one fewer than the passes an event survives. Two keys and two jobs
let a request of one key be carried out after an attempt with another; voiding an
organisation's first invoice lets another be raised after it. Four instants let
a relationship be opened, changed twice by requests that overlap, and removed;
three links to two people let one be accepted while it is replaced by another, or
beside another. Two jobs let an attempt
be overtaken, and an interval of two windows lets a run die and go stale between
two slots; with one record and two changes it is created, changed and deleted.
Two connections let a refresh of the old one outlive a reconnection. Three faults
let a delivery's two attempts fail and something else with them. Three requests
let two submissions and a change of the cart meet. Where
a bound is not a parameter of the code (`MaxRequests`, `MaxChanges`, `MaxFaults`,
`MaxKeys`, `MaxVoids`), the module names it as one. Symmetry is used for safety only.

`FanOutSpec`, `PaidDeliveryCompletes`, `RunsEnd`, `Converges`, `CallsEnd`,
`ErrorIsTold` and `EveryoneIsTold` are liveness properties; the fairness they
assume:

- relay: weak fairness of the relay's steps, for `@Interval(5000)` keeps firing
  and the pod is restarted; faults are bounded and so end.
- lifecycle: a request the server has taken goes on, and so does a pull; an
  accepted order's invoice is exported; a pull is started again while the row is
  unsettled, because the scheduler runs (a full pull at least every 24 hours).
  Users' requests, pulls by hand and the provider's changes are not fair.
- export: the worker takes jobs and goes on with an attempt, a request is carried
  out or lost, claims age. Users and faults are not fair.
- pulls: the queue runs its jobs, the scheduler ticks (`@Interval`), and time
  passes. The button, the provider's changes, disconnections and faults are not
  fair.
- tokens: a call runs on, for its polling has a deadline of its own, and a lease
  ends, for the key has a time to live. Users and faults are not fair.
- notices: the jobs run on while the queue gives them attempts; faults are not
  fair.

The deadlock check is on in every run: where everything may be over, the
specification says so with a disjunct of its own (`Quiescent`, `Quiet`, `Rest`), guarded
by every actor being idle, so that a state in which one of them is stuck is still
found.

## What is proved

By TLAPS, for every value of the constants that satisfies the module's assumption.

- `DeliveryRunsProofs`: type correctness; `FreshViewIsCurrent`,
  `OpenReschedulesHoldTheirOrder`, `EditsApplyToTheBoardSeen`,
  `EditsLeaveRunDense`. The argument: every write of a run's stops raises its
  version in the same transaction, so versions seen are never above the run's and
  equal ones were read after the last write. Freshness alone is not inductive,
  since it says nothing of the requests that are past their check, nor of the
  reschedule between its removal and its commit; the invariant (`BoardInv`) adds
  that a version seen is not above the run's (`FreshViews`), that an open
  reschedule's order is held by it and by it alone, and that jobs have what their
  next step needs (`JobsPlanned`).
  Then `ReschedulesCloseUp`, and that the board changes one thing at a time
  (`ChangesOneAtATime`), every step being one of `DeliveryBoard`'s or a stutter.
  Their invariant (`MoveInv`) adds that a run has one reschedule at a time past
  its row lock (`OneHolder`), so that nobody else writes a locked run's stops;
  that a reschedule back to the run it holds has therefore read what the run still
  is (`OwnReading`); that while the run is at the version it was read at, what was
  read is what remains, in its order (`FreshReading`); and that a reschedule is to
  another date than the order has (`NewDates`).
- `OrderNoticesProofs`: of the relay, type correctness, a PUBLISHED row has all
  its jobs, and the relay implements the safety part of `EventFanOut`; the
  invariant also says what the relay has queued so far in the pass over an event.
  Of the notices, type correctness, `MailedOnce`, `PendingIsInHand`,
  and that no attempt takes SENT from a row but the one that wrote it, lost the
  answer, and is about to write FAILED (`SentIsFinal`); the invariant (`NoticesInv`) follows an e-mail from its row to
  its mark, counting one that was sent and not recorded as unsure.
  Of the composition, `OnlyPlacedOrdersAreTold` and `OneNoticePerOrder`: every
  behaviour of the whole is one of each part (`SystemIsBoth`), which brings their
  invariants over, and `SystemInv` adds that the notices are untouched until the
  relay has added their job.
- `OrderLifecycleProofs`: type correctness; `CompletionAgrees`, `RecordedAsTold`,
  `PaymentEventsChain` (which follows from what lifecycle checks and is in no
  run of its own); and that the requests act one at a time (`OneAtATime`), every
  step being one of `OrderCompletion`'s or a stutter. A transaction that has
  read the row holds its lock, so what it plans (`DriverPlan`, `SyncPlan`) stays
  right until it commits; that is the part of the invariant the properties do not
  say. The refinement also needs what a plan was made from (`PlanInv`).
- `InvoiceExportProofs`: type correctness; `OneLiveInvoice` when `EditsWait`;
  `OneExportCompleted` (of any specification, `EditsWait` or not);
  `AttemptsEndOpenly`; and `InvoicedAsPromised`, the refinement of
  `OrderInvoicing` when `EditsWait`. The invariant: requests under way
  carry the key the request would carry now, and while one is under way the only
  live invoice there may be is the one remembered under that key. The refinement
  adds that an attempt past its answer, and a completed row, name an organisation
  that raised an invoice (`RaisedInv`).
- `RelationshipFactsProofs`: type correctness and the four properties of the run.
  The row is shown to be the projection of the facts event by event, in whatever
  order they come; the agreement with the relationship follows from the chain of
  events, whose last is the last in time.
- `IngestionRunsProofs`: type correctness; `CursorPromise`; `FullPullIsTheCache`.
  The invariant says what an attempt that is alone knows (`Alone`): what it
  fetched is not older than the cursor it started from, and what it has not yet
  copied is exactly what it still has to.
- `TokenRefreshProofs`: type correctness; `RefreshesKeepTheConnection`;
  `ErrorIsEarned`; `NotifiedOnce`. While a lease does not lapse its owner is alone
  on the connection (`Alone`), so that what it presents is what is stored and what
  it was refused still is when it writes the ERROR (`Earned`), and what it
  presents is accepted unless something spoiled the connection (`Lasting`). That
  the stored credential or the one in hand is the accepted one needs no lease, for
  the provider hands the next one to one caller only (`Rotation`).
- `OrderIntakeProofs`: type correctness; `CartBecomesItsOrder`. The invariant:
  carts are numbered and the draft is the last (`IdsGiven`), a submission's load
  is the cart but for what came late (`LoadsHold`), and lines that a transaction
  has deleted are locked until it ends (`LocksHold`).

The refinement theorem of the relay (`RelayImplementsFanOut`) is stated with the
safety half of `EventFanOut`; the run checks the whole, `FanOutSpec`. The other
three refinements have no fairness, and run and theorem state the same.

Only model-checked: the liveness properties listed above. Liveness under fairness
and ENABLED are beyond the prover.

Proved, and in no run of its own: `OpenReschedulesHoldTheirOrder`, which the
refinement of `DeliveryBoard` rests on; `OneExportCompleted`,
`PaymentEventsChain` and `SentIsFinal`; and the properties of the composition,
which TLC finds true of one event, two queues, one recipient and two faults of
each part (174,196 states).

The versions of an invoice the proofs range over include PART_PAID and VOIDED,
which the TLC instance leaves out.

## What the code does and its texts deny

Two are violation runs; `PROJECT.json` quotes the lines.

1. invoiced_twice: a retry by hand does not wait for a request whose outcome is
   unknown.
2. unnotified: the queue `notifications` gives a job one attempt
   (`worker.module.ts:58`), where the handlers count on being repeated.

The others are behaviours of the modules above, which TLC finds in a few steps
when asked; the passing runs check specifications with these behaviours in them
(only `export` excludes one, the first, by the assumption `EditsWait`).

3. The worker adds an order to a run that was marked READY after it read the
   status (`delivery-run-allocation.service.ts:75`, "Never add to a locked run",
   :73); so does a reschedule. [][...] over `status` and `onRun` of `DeliveryRuns`.
4. The first allocation writes the order's date by id, over a reschedule that
   committed since it read the order (:48; its test, spec :195, says it "never
   rewrites scheduledDeliveryDate once it is already set").
5. An event whose fan-out failed five passes is never read again
   (`outbox-publisher.service.ts:81`), though `queue.constants.ts:24` promises that
   it is processed "even if the queue is briefly unavailable".
6. `cancelOrder` (`admin-orders.service.ts:677`) and the acceptance update by id on
   the strength of an earlier status check, and can take an order out of COMPLETED,
   which `order-completion.service.ts:23` says only the completion does.
7. The version of an invoice is compared with a row loaded before the lock
   (`accounting-invoice-sync.processor.ts:133`), so an overlapping pull can write
   an older one last.
8. A job that finds a fresh claim is done, though the claim is its own from before
   a crash, and no one resumes it (`accounting-invoice-export.processor.ts:208`
   against the comment at :530).
9. An acceptance, an invitation or a removal that overlaps a transition writes an
   event with a later time and an earlier status (`portal-invitations.service.ts:69`),
   and the analytics row keeps that status until the relationship's next event;
   `analytics-reconciliation.service.ts:69` says the two "must always agree".
   `AgreesOnceConsumed` without its premise `Chained` fails.
10. The scheduler's own update at each slot is a heartbeat of a run whose worker
    is dead. For the invoice pull, whose interval is the stale window
    (`accounting-sync.constants.ts:33`), the run stays PROCESSING:
    `pulls` with `Interval = 1` violates `RunsEnd`.

Met on the way and denied by no text: a reschedule leaves the run it moves an
order off with a gap, or with two stops of one number, when the worker adds a stop
between the read of the remaining stops and the lock of the run
(`delivery-runs.service.ts:808`, :817); `ReschedulesCloseUp` without its premise
on the version fails.

## Plan

Done: every module in the table above, and the proofs of every safety property
the runs check.

Left, in this order:

1. The projection of order events in analytics, beside `RelationshipFacts`: an
   auto-accepted order's two events carry the same `occurredAt`, and its
   projection drops the second.
2. The call budget; staff invitations and the last owner; support grants.
3. Pure rules as operators, against reference definitions: price resolution,
   payment terms, tax.
4. Abstract specifications for the cart and for the credentials, as there are
   for completion and invoicing.
5. `OrderLifecycle`'s `ExportInvoice` as an abstraction that `InvoiceExport`
   implements; the fairness half of `FanOutSpec` stays with TLC.

## Not modelled

The wording of messages, logs, metrics and audit rows; Prisma and PostgreSQL
beyond READ COMMITTED, row locks and unique indexes; BullMQ beyond at-least-once
delivery, attempts, backoff and stalls; the provider beyond what its answers
tell. Proof photos and link creation; OAuth states; the matching of pulled
records, and what a pull copies field by field. The components marked
`not_modelled` in `PROJECT.json`, each for the reason given there.
