# Fairflow backend: a TLA+ verification project

Fairflow's backend is some twenty NestJS services (TypeScript) behind one REST
gateway, talking gRPC to each other and publishing events over RabbitMQ. Each
service owns its store (MongoDB or PostgreSQL). What makes the system hard to
get right is not in any single handler: it is that every consequence of a
mutation elsewhere (a sale made from a won deal, a search document, an audit
record, a final action, a retried automation) travels as an event that is delivered at least once,
out of order and with failures between any two calls, and that every consumer
protects itself against that with a small protocol of its own: a ledger, a
version, a compare-and-set, a lease.

This project models those protocols in TLA+, checks them with TLC on small
instances, and proves the safety properties of the modelled ones with TLAPS for
every size. All paths below are relative to the repository's root.

Contents: 1 inventory, 2 what is modelled and how it corresponds to the code,
3 runs, bounds and fairness, 4 theorems, 5 findings and observations, 6 not
modelled, 7 plan.


## 1. Inventory

### How the parts interact

    client -> gateway (REST) -> domain services (gRPC) -> own store
                                     |
                                     |  business write + outbox row, one transaction
                                     v
                              outbox relay (per replica) -> topic exchange
                                     |
             +-----------------------+------------------------+
             v                       v                        v
       work queue            work queue                 work queue     (one per consumer)
       handler --fail--> retry queues (delays) --> work queue ... --> dead-letter queue
             |                       |                        |
       orders: won deal        search: index            audit: hash chain,  ...
       (mutation ledger)       (dedup + versions)       (two-phase claim + CAS)

    orders: final action --requested--> automation: journal of attempts, action
            status, generations <--succeeded / failed--
    automation: failed dispatch -> dead letter -> sweeps (lease, gate, dispatch)

### Components

| component | state | operations | what is hard | what makes it correct |
|---|---|---|---|---|
| outbox and relay (`shared/src/outbox.ts`, a store per service) | business record, outbox rows with status and attempts | `withOutbox`, `tick`, `markPublished`, `markAttemptFailed`, `requeueStaleFailed` | replicas overlap on a row; broker or store fails with either outcome; crash between publish and mark | no event without a record, no record without an event, no mark without a confirm, delivery in the end |
| bus consumer and retry ladder (`shared/src/bus-topology.ts`, `consumer-dlq.ts`, `*/messaging/rabbitmq.consumer.ts`) | work, retry and dead-letter queues, unacked deliveries | publish, deliver, ack, retry, dead-letter, drop, reconnect | re-publish and ack are two frames; drops return unacked copies | nothing lost, bounded retries |
| idempotency ledger (`shared/src/idempotency.ts`) | one row per project and key | claim, complete, release, poll, TTL | calls with one key in several processes; crash or failed write while owning | one owner, at most once, equal answers |
| auto-sale of a won deal (`orders/src/orders/deal-won.consumer.ts`) | the event's copies, the sale | handle, skip, rethrow | redelivery against a ledger that may be pending | one sale per win, none lost |
| search projection (`search/src/search`) | index document with version, dedup ledger, rebuild lock; the records as their own service writes them | project, tombstone, purge, reindex, sweep | events out of order, requests that check a record and write it later, rebuild concurrent with events, lock expiry | index follows the newest event, and the source where that event tells of it; no event before a purge undoes the erasure |
| audit chain (`audit/src/chain`, `audit/src/audit`) | head, records, claims | append, ingest, verify | read, compare-and-set and insert are three calls; compensation | one linked history, no loss, no duplicate |
| final-action saga (`orders` and `automation`) | order status, payload and send generations; journal of attempts | move, answer, cancel, resend, edit, watchdog; claim, execute, finish, answer | three asynchronous writers of one status; redelivery under a running action | one execution per attempt, one success per key, SENDING ends |
| automation dead-letter retry (`automation/src/automation/dlq-retry.*`) | dead letters with a status, a lease, attempts and a generation | sweep, reclaim, RetryDlq, settle, dismiss, freeze, resume | leases that expire under a running dispatch; writes conditional on the status alone | one runner, attempts within the budget, a success dropped only with its own runner or after a release |
| automation rules and triggers (`automation/src/automation`) | rules, executions | trigger, evaluate, dispatch, CRUD | graphs of many kinds of action | - |
| pipe (`pipe/src/pipe`) | pipelines, deals, bulk jobs | move, close, reopen, trash, bulk | versions in event keys computed from a stale read | each win has a key of its own |
| consumer connection (`*/messaging/rabbitmq.consumer.ts`) | connection, channel, subscriptions | getChannel, handleDrop, reconnectLoop | drops during a rebind, concurrent connects | every subscription is consumed again |
| contact, company, product, activity, documents | records, versions, trash | CRUD, merge, import, drift | merges across services; keys without versions | references are re-stitched in the end |
| reports | roll-up cells, claims, stage transitions | increment, aggregate | claim before increment | each event counted once |
| notification | notifications, scheduled reminders | fan-out, sweep, claim | crash between claim and delivery | one notification per event and recipient |
| billing | subscriptions, usage, processed messages | subscribe, increment usage | transaction per message | usage counted once |
| control | organisations, roles, projects, modules, access epoch | grants, lifecycle, purge, provisioning | purge against restore; invalidation of caches | a purged project stays purged; revoked access ends |
| auth | sessions, refresh tokens, attempts, API keys | sign in, rotate, deny, validate | counters written back after a read | - |
| key validation cache (a copy per service) | cached decisions with a stale grace | validate | entry read before a call, used after it | no stale positive after a negative |
| gateway | permission cache | authorise, aggregate | cache and epoch | no decision older than the epoch allows |
| chat, platform | rooms, messages; settings | CRUD | - | - |
| shared pure algorithms (`rbac.ts`, `abac/`, `module-lifecycle.ts`, ...) | none | decide, compile, transition | many inputs | agreement with a reference definition |

`PROJECT.json` lists every component with its source files, and under
`hazards` each place where this code can go wrong in a way a test would hardly
reach, with the properties that watch it or the module of the plan that will.


## 2. What is modelled

The modules keep the control of the code: each call to the broker or to a
database is an action of its own wherever another process can get in between,
each failing call has both outcomes (applied or not), and a crash is possible
between any two steps. Data is abstracted to what the properties compare.
Names follow the code. Short definitions introduced by "A slip:" are plausible
bugs (a dropped guard, a forgotten reset); no behaviour uses them. They
document which bug each property excludes, and each property was seen to fail
with one of them in place.

### Outbox, Delivery

`Outbox` is `withOutbox` and `OutboxRelay.tick`. On a cluster with transactions
the record and its row commit in one step (`CommitTransaction`); the standalone
fallback writes the record, then the row, and may lose the row (`WriteRecord`,
`WriteRow`, `LoseRow`). A relay per replica fetches the oldest pending rows
(`FetchPending`) and handles them one by one: `Publish`/`PublishFails`,
`MarkPublished`/`MarkPublishedFails`, and after a failure `ReadAttempts` and
`WriteAttempts`, the two unguarded calls of `markAttemptFailed`. `AbandonTick`
is a crash or a throw that ends the tick. `RequeueStaleFailed` exists where the
constant `Requeue` is TRUE: only the activity service has it. The stores of the
other services are copies of the same code (control's and billing's over
PostgreSQL).

`Delivery` is the abstract promise: only messages of stored mutations are
delivered, and a delivery is for good. `ImplementsDelivery` maps the outbox to
it: `committed <- record`, `delivered <- accepted`.

### RetryLadder

Queues are bags of copies <<message, x-retry-count>>, per consumer. `Deliver`,
the three outcomes of a handler (`HandlerSucceeds`, `HandlerFailsRetry`,
`HandlerFailsDeadLetter`, which follow `dlqDecision`), `Ack` as a frame of its
own, `Expire` of a retry delay and `Drop`, which returns the unacked copies of
a channel, whatever their handlers have done by then. The dead-letter exchange
is a fanout, as in the code. The reconnection of the consumer class is
abstracted to its effect: somebody consumes the queue again.

### Idempotency, DealWon

`Idempotency` is `withIdempotency` for one {projectId, key}: `Claim` (the
unique index), the executor, `Complete`, `Release`, and for the calls that lost
the race `Replay`, `PollAgain`, `GiveUp` (`awaitExistingResult`). The faults are
a constant: executors that throw after they applied the mutation, ledger writes
that fail either way, crashes and the TTL index. `mishaps` records which have
happened, and each property says which it survives.

`DealWon` extends it with the consumer of `crm.deal.won`, its most demanding
caller: each delivery of the event is a call, `waiting` counts the copies still
on the bus, and the consumer's treatment of each outcome (`Returned`) decides
whether the copy goes back to the ladder or is acked.

### SearchIndex

One index document per CRM record. In the record's own service `Create` is one
step; every other mutation is two, as in `companies.service.ts`: a request reads
its record and checks where it is (`Read`: findOne, :550, :654, loadGatedAnyState,
:723, and restore's own read, :786), and later writes it by `_id` alone and emits
its event (`Commit`, through `Update`, `Remove`, `Restore` and `Purge`: :594, :661,
:741, :856), whatever has become of the record since. So the last event need not
tell where a record is, and an event can follow a purge. Write and event are one
step, since `withOutbox` puts them in a transaction (without one, on a standalone
server, they are what module Outbox models). The TTL index deletes records in the
trash and emits nothing (`Expire`).

A position in the log is the event's time and version. The code compares the
milliseconds of the envelopes with a strict `<`, so of two events of one
millisecond the one handled second is ignored, and replicas whose clocks differ
can order two events the wrong way round; the model has one clock that never shows
a time twice, and says nothing of either.

Handling an event is `Claim` (the dedup ledger, keyed as the domain services
build the key), `ReadFields` and `CheckExists` for partial events, and `Write`
with the guards of `projectUpsert`, `indexDelete` and `indexPurge`; a failure
releases the claim, a crash leaves it. A write of the watermark that fails after
the event is applied leaves it as well (`recordProcessed` stands outside the try,
`search-projection.service.ts:196`): that is a failure of the kind "ledger". The
rebuild takes the lock, reads rows with a cursor (`ReadRow`), writes them in bulks
(`FlushRow`, which maximises the version and sets everything else), renews the lock
and sweeps. `MCSearch` adds the symmetry of rebuilds and users for TLC: the module
treats the members of `Runs` alike, and those of `Users`, and its runs check no
liveness, so the permutation is sound.

### AuditChain

One hash chain. A record's hash stands for its content and everything before
it, so the model takes it to be that history: the sequence of items up to the
record, its length the `seq`. `Claim`, `SkipDone`, `FindPending`, `LookUp` and
`Confirm` are the two-phase dedup of `ingestEvent`; `ReadHead`, `AdvanceHead`,
`InsertRecord`, `InsertCollides` and `RollBack` are `append` with its
compare-and-set, its unique index and its compensation. Calls of the RPC
`appendEvent` race with the events. An insert that is applied although it
rejects is a fault of its own (`InsertAnswerLost`), because the chain's promise
depends on it.

### FinalActionExecutor, FinalAction

`FinalActionExecutor` is automation's half of the saga
(`final-action.consumer.ts`). A delivery <<key, x-retry-count>> finds the
journal's row, inserts it or claims its attempt (`FindTerminal`, `FindOpen`,
`Insert`, `ClaimAttempt`, `AttemptIsTaken`), carries the action out (`Execute`),
and either notes the attempt and goes one step down the ladder
(`RecordAttempt`) or closes the row and answers (`Finish`, `PublishAnswer`).
Faults: the journal rejects, applied or not; an answer is lost, with or without
an error; a channel closes under a running handler, whose copy is redelivered
with the same count; a crash; a further copy of a request. The ladder is the bag
`queue`, with `RetryLadder`'s steps; the message that leaves its end is gone.

`FinalAction` extends it with the sale in orders. The requests of the API are
two steps, what they read and check (`Read`, guards in `Admits`) and what they
write later (`Move`, `Cancel`, `Retry`, `Edit`), because the code reads, calls
other services and then writes: by `_id` alone for a move and a cancellation,
under SEND_ERROR for a resend. `ApplyAnswer` is `applyFinalActionResult` with its
exact-key filter; the answers stay on the bus, so each can come late and twice.
`Scan` and `Expire` are the watchdog. The request and the update are one
transaction (see Outbox), so `Send` does both. A sale with several sends in
flight is the interesting case, so a key is the pair <<payloadGen, sendGen>>.
`MCFinalAction` gives TLC the set of keys.

`Sale` is the abstract promise of the two halves together: a status, the key of
the last send, the keys ever sent, the keys carried out, and the moves and
cancellations that were admitted. `ImplementsSale` maps the saga to it
(`lastKey <- sentKey`, `carried` the keys in `worked`, `plan` the pending requests
that can leave DONE): every step of the bus, the journal, the handlers and the
watchdog is one of its eight kinds of step, or does not show. It implies that an
action is carried out only under a key that was sent, that DONE is reached only
by the success of the last send, and that only a move or a cancellation that
read the sale earlier leaves it (`DoneIsFinal`).

### DlqRetry

One row of automation's dead letters and everything that writes it. A runner is
a sweep of a replica or a call of `RetryDlq`: `ScanDue`, `ScanStuck` and `Ask`
read the row, `Claim` writes where the status is still the one read (and, of a
reclaim, where the lease is still expired), `Wanted`, `Gone` and `Unknown` are
the gate that reads the rule between claim and dispatch, `Dispatch` sends under
the claimed generation, and `Settle`, `Miss` and `WriteThrough`, `Park` and
`Abandon` write the outcome back. Against them: `Freeze` and `PauseRow` (rules
first, rows later), `Unfreeze`, `Resume`, `Toggle`, and `ReadToDismiss` with
`Dismiss`. A lease runs out on a dead runner (`ExpireLease`) and, as a mishap,
on a living one that is held up (`Outlive`). The bookkeeping variables
`history` are no part of the code; the properties are stated with them: `sent`
(generations dispatched), `grants` (what entitles to a dispatch beyond the
budget), `evicted` (runners whose claim was taken), `released` (the row became
claimable under a runner), `lost` (the generations whose success was written
nowhere). A runner that crashes, or whose store throws, after the dispatch counts
as losing a success: for certain between the two writes of `settle` when the
outcome in hand is one (`Crash` at "missed"), and possibly before the first.


## 3. Runs

Every configuration sets `CHECK_DEADLOCK FALSE`: with bounded inputs each of
these systems comes to rest when everything has been handled.

| run | module | checks | result |
|---|---|---|---|
| `outbox` | Outbox | TypeOK, PublishedWasAccepted, RecordsMatchEvents, ImplementsDelivery | hold |
| `outbox_live` | Outbox | EveryRowIsDelivered | holds, with requeueStaleFailed |
| `retry_ladder` | RetryLadder | TypeOK, NeverDropped, EventuallySettled | hold |
| `deal_won` | DealWon | DTypeOK, OneOwner, AtMostOnce, AnswersAgree, SaleIsNotLost, ClaimIsSettled | hold |
| `search` | MCSearch | TypeOK, AgreesAtRest, PurgedStaysErased | hold |
| `search_rebuilds` | MCSearch | OneSweeper, ReindexRepairs, VersionsGrow | hold |
| `search_trash` | SearchIndex | DeletedIsNotFindable | violated by one user, no fault needed |
| `audit_chain` | AuditChain | TypeOK, PrevHashIsNeverStale, ChainIsComplete, NoEventIsLost, NoDuplicateRecord, EventIsRecorded | hold |
| `audit_wedged` | AuditChain | EventIsRecordedAnyway | violated by a lost answer |
| `final_action` | MCFinalAction | TypeOK, OncePerAttempt, OnePerKey, DoneWasCarriedOut, NoRequestIsLost, ImplementsSale, SendingEnds | hold |
| `final_action_false` | MCFinalAction | NoFalseSending | violated by a cancelled sale, no fault needed |
| `dlq_retry` | DlqRetry | TypeOK, OneRunner, BudgetIsKept, RetryIsNew, ClosedIsFinal, SuccessIsKept, RetryingResolves | hold |

### Bounds, and why they are enough

* Outbox: three rows, so that a tick has a next row and an order and leaves a row
  to the next tick (a batch has two); two relays for
  the races (they are symmetric in the code); two attempts, so that a row fails
  once and goes on, and fails for good. The attempts counter is unbounded with
  requeueing and overlapping relays together, therefore the liveness run has one
  relay and two rows, and the safety run has no requeue.
* RetryLadder: one message published twice (the relay may), two retry levels (the
  code has three), so that there is a first, a middle and a last rung, and one
  drop. Consumers share nothing but the fanout.
* DealWon: four deliveries of three copies, so that an owner, a poller and a
  later retry coexist; two polls, so that a poll is followed by another one.
* SearchIndex: four mutations of one record (a request is taken in while the log
  has room for its event) by two users, handled three at a time in every order:
  create, update or delete, delete or purge, and a request that was read before
  one of them and commits after it, so that every kind of event overtakes, is
  overtaken and comes from a stale read. With two users the run reaches a record in
  the trash whose applied events leave it findable, and an erased document that is
  filled again, which is what the premise of AgreesAtRest and the exception of
  PurgedStaysErased speak of. No rebuild is started there: both properties are
  about documents that no rebuild has written. Two records, two runs and one user
  for the rebuilds, where the lock and the sweep matter, and fewer mutations; one
  user and four mutations for the second deletion.
* AuditChain: an event and two RPC calls, two handlers, one fault of each of four
  kinds: enough for a lost race, a rollback under a competitor, a takeover of a
  pending claim and a second copy. The wedge needs two events and one handler.
  The retry ladder is not composed in: its three retries are used up only after an
  insert was applied though it rejected (every later append then collides), which
  EventIsRecorded excepts; such an event ends in the dead-letter queue, which the
  model counts as still on the bus. A crash uses no retry, and one rejected call
  uses one.
* FinalAction: two handlers and two users for the races, one step of the ladder
  and two deliveries, so that an attempt is retried and the second is the last;
  two generations each of payload and send, so that a late answer meets a newer
  send; two requests of the API (a send and what interferes with it) and two
  faults of any kind, so that a fault meets the recovery from another. Two resends
  at a time need three requests; with one fault that instance (2,146,528 distinct
  states) passes as well, in five minutes, and the theorems cover it. The
  violation run needs three requests (send, cancel, send), one user and no fault.
* DlqRetry: two runners, which the code treats alike; a budget of three and a
  narrower one of two for doubtful effects, so that a row has a first, a middle
  and a last attempt under either; generations up to three, beyond which no due
  retry is picked (manual retries and reclaims go on); three interventions, enough
  for a freeze, a lifting and a resumption; one mishap (a crash, a rule that
  cannot be read, an outlived lease).

Distinct states: outbox 1,500,598; outbox_live 721; retry_ladder 161,930; deal_won
123,253; search 1,384,063; search_rebuilds 2,810,715; audit_chain 707,280;
final_action 1,296,926; dlq_retry 1,910,812. On two cores the last two take about
two minutes each, for their liveness properties; the others take less.

The theorems of section 4 hold without these bounds.

### Fairness

* Outbox: the relay's timer repeats its calls, so each relay action that is
  enabled again and again is taken (SF), which says that broker and store do
  not refuse for ever. Nothing is assumed of `AbandonTick` or of the failures.
  requeueStaleFailed is called on every tick (WF).
* RetryLadder: the broker delivers what it holds and expires delays, and a
  handler returns one way or the other (WF each); not that it succeeds, and
  nothing of drops, which are bounded.
* DealWon: a delivery whose process lives goes on with its next call (WF); which
  outcome it has is free.
* AuditChain: a handler makes its next call (WF on `Work`), and the broker does
  not pass over a queued event for ever (SF on `Receive`, as handlers are busy
  and free in turn). The appends' unbounded retry loop is fair only together
  with the fact that a lost race means that another append won.
* FinalAction: only the watchdog's timer (WF on `Watchdog`). SendingEnds must hold
  when users, bus and automation are silent for ever; it is the watchdog's promise.
* DlqRetry: each runner's sweep or work goes on (WF per runner: a timer, and a
  process that does not die), and time passes (WF on `ExpireLease`). Nothing is
  assumed of operators. RetryingResolves excepts a suspended module, whose gate
  skips the row by design until it is lifted.
* Outbox (safety), SearchIndex and the violation runs assume no fairness, except
  audit_wedged, whose property is temporal.


## 4. Theorems

`tlapm` proves all of them, for every value of the constants under the named
assumption of each module (sizes are naturals or positive, fault sets are
subsets of the known kinds, sentinels differ from values).

| module | theorems | argument |
|---|---|---|
| OutboxProofs | TypeCorrect, MarkFollowsConfirm, RecordsAndEvents, OutboxImplementsDelivery | A relay's row in hand must be unique, so storage times differ (`TimesDiffer`); a batch holds stored rows only; a row between publish and mark is accepted (`MarkedIsAccepted`); a row whose insert is outstanding is new. The refinement is a step simulation from the same invariant. |
| LadderProofs | TypeCorrect, NothingIsDropped | NeverDropped is inductive with TypeOK: a failed copy is in the next queue before its ack goes out, and a drop moves what is in hand to the work queue. |
| IdempotencyProofs | TypeCorrect, OneOwnerAtATime, AppliedAtMostOnce, OkAnswersAgree | `OwnerHasRow`: only the TTL index takes a row from under its owner, so a successful claim finds no owner. `NothingBeforeTheOwner`: without faults but crashes, who may still run the executor finds nothing applied. `ResultsAreReal` under every fault. |
| DealWonProofs | DTypeCorrect, OneSale, WinIsNotForgotten | A consumer step is a ledger step or an early return, so the ledger's invariant is reused. `WinIsSomewhere`: the win is in a copy still to come, in the owner of the claim, in a sale or in a refusal, for a pending row has a living owner when no claim was orphaned. |
| SearchProofs | TypeCorrect, VersionsNeverDecrease, OneSweeperAtATime, ErasedStaysErased, SerialErasureIsFinal, AppliedEventsAgree, SerialRequestsAgree, RebuildRepairs, StampedDeletionsAreApplied | `EraseInv`: an erased document has the version of a purge or a newer one, so no event before the purge passes the guard. `SweeperInv`: a run that is about to sweep holds a fresh lock. `SourceInv`: a record that was created has an event, and no field of a living one is unset. `SerialInv`, where requests do not overlap: a record is where its request has read it and where its last event left it, or gone, and nothing follows a purge. `FollowsVersion`: before a rebuild, the version of a document is an event of the record as new as any that was applied, and the kind of that event alone decides whether it is findable or erased. `CalmInv`: in a pass that has the system to itself, each living row is ahead of the cursor, in hand as it is, or written and stamped (`RowInPlace`). `DeletionInv`: without faults a deletion with a key of its own is free to be claimed whenever it is queued. TypeOK includes that an event in hand owns its claim. |
| AuditProofs | Invariant, TypeCorrect, PrevHashes, ChainComplete, NothingLost, NoDuplicates, OnlyALossWedges | `OneHistory`: what is stored and what is about to be stored are prefixes of the head, each at a place of its own; so any two records continue one another, and no insert is refused, until an answer is lost. `NoGaps`: without failures every place is taken or in hand. `DoneIsRecorded`, `UnclaimedIsUntouched` and `OneCopy` carry the claim protocol. |
| FinalActionProofs | TypeCorrect, AttemptsRunOnce, SuccessIsUnique, DoneIsEarned, DoneStaysDone, NothingIsSwallowed, SagaImplementsSale, ResendsAreNew | `ExecInv`: what was carried out or is in hand was claimed, and a claim is given once; this holds under every fault. `KeyInv`: while the journal answers, the attempts of a key are claimed in order, the row has one owner, and nothing runs after a success or a terminal row. `DoneInv`: a success on record took place. `LossInv`: without losses, a request that is unanswered is a copy whose attempt is unclaimed, or its owner; the count never passes the end of the ladder unanswered because the budget fits in it (`MaxDeliveries \in 1..(Levels + 1)`). The refinement is a step simulation: `CopiesWereSent` (what is queued, in hand or carried out was sent) makes each execution a CarryOut, and `DoneInv` makes the answer that is applied a Succeed. `KnownWasSent` (automation knows only keys that were sent) and `ReadIsCurrent` (with one user, a request finds the sale as it read it) give ResendsAreNew. |
| DlqProofs | TypeCorrect, RunnersAreAlone, RetriesAreNew, ClosedStaysClosed, SuccessesAreKept, BudgetsAreKept | `ClaimInv`: the generations of those who drive the row differ and are undispatched until they dispatch, a stale row has no owner left, and a picked row was open. `StaysParked`: until the row is released, who lost it finds it parked or closed. `BudgetInv`: dispatches and claims still to be dispatched are covered by the row's attempts and by budget and grants, since a park gives back exactly the attempt that its own claim took. |

Four theorems have a hypothesis on a constant, because they say what causes a
finding or an exception: SerialRequestsAgree and SerialErasureIsFinal (`Serial`: one
user, that is, no request is read while another is under way), which hold of the
code only as long as requests do not race; StampedDeletionsAreApplied (`Serial` and
`"deleted" \in Stamped`: the keys of deletions carry a time, which in the code they
do not); and ResendsAreNew (one user: the requests of the API do not race).
RebuildRepairs needs that a record has a field (`Fields # {}`), by which a row in
hand is told from none.

Only model-checked: the liveness properties (`EveryRowIsDelivered`,
`EventuallySettled`, `ClaimIsSettled`, `EventIsRecorded`, `SendingEnds`,
`RetryingResolves`), which are out of the prover's reach. Every other property of
a passing run is a theorem.


## 5. Findings, and what was observed without a run

Three violation runs show disagreements between the code and its own comments;
`PROJECT.json` quotes them.

1. `search_trash`: delete, restore, delete within a week: the second deletion
   has the first one's key, and the record in the trash stays findable, though
   one request follows the other. The key is one of two causes; the other is a
   request that read the record before its deletion (below). Where nothing fails
   and no rebuild was started there is no third (theorem StampedDeletionsAreApplied).
2. `audit_wedged`: an insert that is applied though it rejects has the head
   rolled back behind the stored record; every later append collides, unless it
   overlaps another one, and then it continues a record that was never stored.
   Nothing else makes an append collide (theorem OnlyALossWedges).
3. `final_action_false`: a sale that was sent, failed and was cancelled is moved
   to a terminal stage again under its old key; automation acks it as a duplicate
   and the sale sits in SENDING until the watchdog expires it. While requests do not
   race, this is the only way (theorem ResendsAreNew); two moves that have both read
   an active sale send it twice under one key as well.

Observed while modelling, without a run of their own:

* `markAttemptFailed` writes by messageId alone, so it can set a row that another
  relay has marked published back to pending (a redelivery, which consumers
  absorb). The model has the interleaving.
* `shared/src/bus-topology.ts:24` speaks of a terminal DLQ per consumer; the
  exchange is a fanout (:305), so each dead letter is in every DLQ.
* `shared/src/idempotency.ts:3` says the mutation is never applied twice; if the
  update of the ledger fails after the executor, the claim is released (:146) and
  a retry runs it again. `AtMostOnce` names the condition.
* The mutations of a company check it in a read of their own and write it later
  by its id, without a condition and without looking at what the write matched
  (`companies.service.ts:550` and :594, :654 and :661, :723 and :741, :786 and :856;
  contacts alike; of deals the update, while their deletion is conditional and
  emits only what it changed). An update that read a record before its deletion emits
  the newer event, and the record in the trash is findable with nothing failing and
  every event applied; one that read it before a purge updates nothing, emits its
  event all the same, and the upsert gives the erased marker its title and tokens
  back; a purge can hit a record that was restored since. To see it, give
  MCSearchTrash.cfg two users and put all five kinds into `Stamped`: the property
  fails again, of a race this time. With one user it then holds.
* The TTL index on purgeAt deletes a company or contact in the trash and emits
  nothing (`src/company/src/mongo/mongo.service.ts:166`), so the tombstone in the
  index keeps title, subtitle and tokens, which `companies.service.ts:735` calls the
  thing that must not stay there for ever.
* `indexPurge` unsets `abacFields`, which no document has; the flat attributes
  stay. The model keeps them (`Flat`), and the erasure properties exclude them.
* Two partial events of one record can lose a field (read, merge, write back);
  the sweep tombstones a record created after the cursor had passed.
* `audit/src/audit/audit.service.ts:128`: two copies of an event handled at the
  same time, the second finding a pending claim and no record yet, give two
  records; `NoDuplicateRecord` excepts exactly that.
* A row that fails eight ticks is parked for ever, in every service but activity,
  while comments promise that an outage only delays it (set `Requeue` to FALSE in
  `outbox_live` to see it).
* A crash between the claim of a won deal and createOrder leaves the claim
  pending; the redelivery is told "busy", which the consumer takes for a business
  rejection, and the sale is never made. `SaleIsNotLost` names the condition.
* A rebuild writes a row it read before a purge over the purge's marker;
  `PurgedStaysErased` speaks of events and excepts rebuilds.
* `bus-topology.ts:305`: a replay from one consumer's DLQ is a replay of a message
  that all DLQs hold. `audit/src/messaging/rabbitmq.service.ts:255`: on a closed
  channel ack and publish throw from within the handler's own error path.
* Parallel calls of `getChannel` (`orders/src/messaging/rabbitmq.consumer.ts:54`)
  can open two connections; bulk jobs of the pipe are not taken up again after a
  crash; a validation that was read before a revocation can be cached after it.

Of the dead-letter retry (`automation/src/automation`), all of them in the model:

* Two replicas with the same list of due rows can dispatch a row again that the
  first has settled as a configuration error: the claim looks at the status
  'failed' only (`dlq-retry.service.ts:227`), the comment at `dlq-retry.policy.ts:78`
  says that such a row waits for a person. Nor does that claim look at the cap, so
  a row resumed at its cap is sent once more. `grants` counts both.
* A success that finds its row parked is on no row if the second write of `settle`
  throws or the process dies before it (`dlq-retry.service.ts:440`): the row stays
  parked, and its resumption sends the effect again under a new key. A crash before
  the first write loses it as well, and there the lease brings the row back. Both
  are the exception for the own runner in SuccessIsKept.
* A success is dropped when the row was frozen and resumed with 'deliver', or its
  lease outlived, under the dispatch (`released` in SuccessIsKept).
* A runner whose claim was taken parks the row with attempts counted from its own
  stale copy, which can set the budget back (`released` in BudgetIsKept;
  `dlq-retry.service.ts:167` says that a lease expiry mints no attempts).
* A failure that finds the row parked does not persist the narrower cap.
* Rows parked as paused_project_archived can neither be retried nor resumed, while
  the comment of unfreezeRules (`automation.service.ts:2566`) leaves them to a
  manual retry.
* `dismissDlq` writes without a condition: it can overwrite a resolution
  (the exception in ClosedIsFinal). `setRuleEnabled` reads and writes later: it can
  lift a freeze (`Toggle`).


## 6. Not modelled

* Of the modelled components: the reconnection state machine of the consumer,
  merges of records and the direct index RPC and project purge in search, the
  throttle of its lazy backfill, the read side of audit (lists, exports, verify
  pages), the TTL of its `processed_messages`, events without any key.
* Of the final action: moves to other stages and types without a final action,
  creation and batches, gates that refuse for access or drift, requests that are
  malformed, the journal's retention. What an action does is its result alone.
* Of the dead-letter retry: batches (one row shows every race; rows share nothing
  but the sweep's limit), the length of backoffs (a due time comes when it
  pleases), emitDlqExhausted and the metrics. A deleted rule is a disabled one. The
  module's gate shuts together with the freeze; it is cached and fails open in
  the code, so a shut gate may, but need not, stop a claim.
* The rest of section 1, with the reason in `PROJECT.json`: most services are
  CRUD on single documents or transactions over PostgreSQL, with the protocols
  above around them; the gateway aggregates; infrastructure has no logic.
* Of the outbox: the attempts counter has no property of its own. Overlapping
  relays can count a failure twice or overwrite a count (`markAttemptFailed` writes
  what it computed from its own read); the model has it, and the properties of
  `outbox`, which are about marks and deliveries, do not notice.
* Of search: ties of the versions, and clocks of replicas that differ (section 2).
* Wording, formats, metrics, logging, tracing; the content of hashes.


## 7. Plan

Done: the outbox and its ladder, the idempotency ledger with the auto-sale, the
search projection, the audit chain, the final-action saga, the dead-letter retry.

What is left, in order of weight. The whole project is meant to be run in one
go beside the code, so a new component's run displaces a weaker one rather than
lengthening the list without end.

1. **DealLifecycle**, composed with DealWon: close, reopen and the wonVersion
   (`pipe.service.ts:2039`, :2123); every win has a key of its own; one sale per win.
2. **ConsumerConnection**: getChannel, handleDrop, reconnectLoop; every
   subscription is consumed again. Then the composition of Outbox, RetryLadder
   and a ledger into an end-to-end "each mutation takes effect once".
3. **Roll-up, ModuleLifecycle, ProjectPurge, AccessCache, KeyCache, Reminder**:
   small modules of the remaining hazards.
4. **Rbac**: the pure algorithms against reference definitions, as functions.
5. Proofs: a common abstraction of the claims with a lease (Idempotency, DlqRetry,
   the claim of AuditChain), refined by each; what a rebuild leaves when events
   run beside it.
