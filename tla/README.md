# Verification of the notification platform

TLA+ models of the notification platform - its event-driven services, the
gateway in front of them and the two playground programs that drive them - the
TLC runs that check them on small instances, and theorems about them proved with
TLAPS for every value of the constants.

Paths below are relative to the repository. `shared/` stands for
`shared/notification_shared/`.

## 1. The system

A client submits a notification to notification-service (through the gateway).
The services then cooperate only through Redis streams; no one orchestrates:

    notification-service --notification.created--> routing-service
    routing-service      --notification.routed---> email-service, telegram-service, notification-service
    routing-service      --delivery.failed-------> notification-service      (RoutingFailed)
    delivery services    --delivery.completed / delivery.failed--> notification-service, routing-service
    routing-service      --GET /channels/{name}--> configuration-service     (HTTP)

Every service has its own Postgres database, its own outbox, its own ledger,
and is one process whose asyncio tasks interleave at every `await`.

### 1.1 Inventory

| Component | State | Operations | Hard parts |
|---|---|---|---|
| Idempotency ledger (`shared/idempotency.py`) | a `processed_events` row per (event, group): status, fail_count | is_processed, mark_processed, increment_fail_count, mark_failed_permanent | terminal rows must never reopen; two of the upserts are unconditional |
| Stream consumer and `PendingRecoverer` (`shared/streams.py`, `shared/recovery.py`) | Redis group: last-delivered id, pending list with idle times; each loop's batch | read, ack, get_pending, claim, retry, give up | recoverer and consumer work on the same entry; batches stranded by exceptions; garbage; calls whose fate is unknown; crashes |
| Outbox publisher (`shared/publisher.py`, `shared/outbox.py`) | outbox rows, `published` flags, streams | save, publish_once | no transaction spans Redis and Postgres; rows become visible out of order |
| email-service | `email_delivery` rows, outbox, ledger; emails sent | handle, give_up | sending cannot be undone and is outside any transaction; timeouts after acceptance |
| telegram-service | the same with `telegram_delivery` | the same | the same |
| routing-service, decisions | `routes`, outbox, ledger | handle, give_up | the channel's state changes while it is being used; outages |
| routing-service, results | `routes.status`, `fail_reason`, ledger | handle, give_up, the recoverer over its group | the same result closes a notification in another database; routing's own failure comes back |
| configuration-service | `channels.enabled` | GET/PUT | none of its own: read by routing at arbitrary times |
| notification-service | `notifications` (status, reason, updated_at), outbox, ledger | create, two consumers, recoverer, watchdog | four writers of one row, events of different streams in any order |
| gateway | none; requests in flight | forward | four parties give up independently; 502/504 after the notification was created |
| load test (`tools/playground/loadtest.py`) | an outcome per planned notification | submit, settle, report | abandoned submissions that are still served; stale answers; a semaphore and a deadline |
| console (`tools/playground/app.py`) | the tracked notification | submit, set_channel, timeline | changes a channel that routing reads asynchronously; one step of several failing |

### 1.2 What makes each correct

* Ledger: a terminal row is final; retries are counted exactly as often as they
  are committed, and giving up needs `PENDING_MAX_RETRIES` of them.
* Stream group: no event is lost (nothing leaves the pending list unsettled)
  and no entry stays pending for ever.
* Outbox: at least once and never after the mark - the abstract `AtLeastOnce` -
  with bounded duplication; everything is eventually published.
* Delivery and routing: exactly one recorded outcome per event, announced
  exactly once, whatever is redelivered - the abstract `ExactlyOnce`; nothing
  reported delivered that was not sent; no decision without an answer;
  duplicates to the recipient bounded.
* notification-service: monotonic status, no handled result ignored, closed only
  for a cause, never stuck in PROCESSING.
* The services together: route, delivery and notification do not contradict each
  other, no result is dropped on its way to either row, and everything that was created is closed in the end.
* Gateway and notification-service: a 202 is never taken back.
* Load test: its verdict is true of the platform, and it always ends.

## 2. Modules

| Module | Models | Composes |
|---|---|---|
| `Ledger` | the statements of `IdempotencyRepository` as functions on a row | - |
| `GroupWorker` | one consumer group and its two loops, without handle() | `Ledger` |
| `ExactlyOnce` | abstract: one decided, once announced effect per event | - |
| `AtLeastOnce` | abstract: entries of committed events only, each until it is settled for good | - |
| `Lifecycle` | abstract: what the rows of the services show of a notification | - |
| `DeliveryWorker` | email-service | `GroupWorker`; implements `ExactlyOnce` |
| `TelegramWorker` | telegram-service | `DeliveryWorker`, which it extends and implements |
| `RoutingWorker` | routing-service's decisions, configuration-service's table | `GroupWorker`; implements `ExactlyOnce` |
| `RouteResults` | routing-service's results consumer and the recoverer over its group | `Ledger` |
| `Platform` | all services together | `NotificationService`, `RouteResults`, `ExactlyOnce` twice; implements `NotificationService` and `Lifecycle` |
| `Gateway` | the proxy, its client's calls and the handlers of notification-service | - |
| `LoadTest` | the load test as a client | `Gateway` |
| `Console` | the playground console, with its channel and the platform behind it | - |
| `OutboxPublisher` | one service's outbox and publisher | implements `AtLeastOnce` |
| `NotificationService` | notification-service, with the other services as publishers | `Ledger` |
| `MC*` | instances for TLC | |
| `*Proofs` | theorems about the module they are named after | |

### 2.1 State and actions against the code

**GroupWorker.** The position of an entry is its id. `delivered` is the group's
last-delivered id, `pel` its pending list, `idle` the pending entries that would
pass the IDLE filter of XPENDING/XCLAIM. A task is at `"loop"` between entries,
and otherwise at the await it is suspended at: `"handle"` (the ledger read),
`"deliver"`/`"decide"` (the external call), `"record"` (the transaction),
`"count"` (the recoverer's increment), `"giveup"`, `"ack"`, `"claim"`. Code
between two awaits is part of one action.

| Action | Code |
|---|---|
| `Read` | `streams.py` read(): the batch becomes pending; an unparseable entry or a lost reply strands it |
| `Begin`, `NextMessage`, `Abandon` | the `for` loops of consume_once()/recover_once(), and what run_forever() swallows |
| `Ack` | XACK |
| `GetPending`, `Claim` | the sweep's XPENDING and XCLAIM |
| `Raise`, `NotHandled` | handle() raising or returning False under either caller |
| `Count` | increment_fail_count(), and the three ways on from it |
| `Elapse`, `Crash` | PENDING_TIMEOUT_MS passing; the process restarting |

A failed call that may nonetheless have taken effect has both outcomes: a
`Fault` disjunct with and without the effect. Its cost is one of `MaxFaults`.

**DeliveryWorker** adds handle() in its three awaits - `Check` (channel filter
and ledger), `_deliver` (sender), `RecordOutcome` (row, outbox and ledger in one
transaction) - and `GiveUp`. A transaction is one atomic step: under READ
COMMITTED the insert of a second row for the same notification waits for the
first transaction and then raises, which is `UniqueViolation`. `sent` is
history: emails that left the sender. The recipient rules are abstracted to the
four kinds of payload the code distinguishes.

**TelegramWorker** is the same consumer with the Bot API as its sender.
`DeliverMessage` takes the place of `_deliver`: an answer (a status and an ok
flag) goes through `classify_response`, and a timeout may follow acceptance.
`BotApi` says which answers tell whether the message was sent. `responses` is
history: what was answered about an event. `ImplementsDelivery` is DeliveryWorker's
own `Spec`, with `Rejected` standing for "telegram_rejected", so everything the
email runs and theorems show holds here too.

**RoutingWorker** has the same shape with `_decide` in place of the sender: an
answer, an outage (`Unavailable`, handle() returns False) or an answer it cannot
use (`Unusable`, handle() raises).
`set_enabled` may happen at any time. `answers` is history: what
configuration-service said about an event.

**OutboxPublisher.** Rows are numbered by `created_at`, the time their
transaction began; `Save` makes them visible in any order. `batch` and `done`
are the local variables of publish_once(), `copies` the entries a row has in its
stream. A consumer sees `AtLeastOnce`: a step adds an entry of a saved and
unsettled event, or settles events that have one. What the implementation owes is
that a batch read before the mark contains no row that is marked meanwhile, and
that a mark whose commit failed, or succeeded unseen, never covers a row whose
XADD did not happen.

**NotificationService** writes the four statuses through `advance_status` and
`fail_stale_processing` as the guarded UPDATEs they are. The other services are
`XAdd`: they publish a routed event or a RoutingFailed for a notification, not
both, and one of the two results of what was routed (`MayPublish`; that is what
`ExactlyOnce` says of them) in any order across the streams and up to `Copies`
times. The group is a set here: any unread entry may be read next, any pending
entry may be claimed at any time, which allows more than the real streams do.

**RouteResults** has the shape of NotificationService: `Read`, `Check`, `Update`,
`Ack` are the awaits of consume_once() and handle(); `Count` and `GiveUp` the
recoverer's. `set_status` is the guarded UPDATE, `insert_route` the row the
decision's transaction inserts. `Check` skips what is not in `HANDLED`.

**Platform** puts the services together. `decided` and `outcome` are the effects
of two instances of `ExactlyOnce`, the contract that `RoutingWorker`,
`DeliveryWorker` and `TelegramWorker` are shown to implement; `Decide` also
inserts the route, in the same transaction as the code does. `Publish` adds an
entry for what a committed transaction announced, once or more: what
`OutboxPublisher` guarantees. A `DeliveryFailed` or `RoutingFailed` reaches both
groups of its stream. `ImplementsNotification` is NotificationService's own
`Spec`: what that module assumes (`MayPublish`) is a consequence here.
`ImplementsLifecycle` forgets everything but the rows: `Lifecycle` has neither
streams nor ledgers nor faults, and six steps - a notification is created, decided
about, delivered; then notification-service shows that it is under way, and each of
the two rows shows its end, or the watchdog's.

**Gateway** follows one call per client through three places: what the client
waits for (`request`), what the gateway's handler does (`forward`), what the
handler in notification-service does (`service`, `response`). `GiveUp` is the
client's timeout, `ConnectError`, `TimedOut` and `Disconnected` the branches of
_forward(), `GatewayCrash` and `ServiceCrash` the processes. A submission goes on
after whoever waited for it is gone (`Abandon`): uvicorn does not stop a handler
whose peer disconnects. An abandoned read is dropped, as nobody can see its end.
`Advance` is what NotificationService does to a row, which its own theorem
`StatusIsMonotonic` bounds.

**LoadTest** has one task per planned notification: `"ready"` before the permit
of the semaphore or at the head of the polling loop, `"queued"` past the
deadline's check, `"calling"` while it holds a permit, `"done"`. `Submitted` and
`Polled` take the reply; `matched`, `unsettled`, `wrong_state` and `verdict_ok`
are the report's. Index, channel and recipient are abstracted to membership in
`Failing`; latencies and progress change nothing.

**Console** has one step per HTTP call of a script (`at`), since routing reads the
channel between any two of them; a poll has two, as timeline() reads its clock
before the call and the status is the one of the answer. `set_channel` has the three ways a PUT can end;
the caller looks at an exception and at nothing else.

## 3. Runs

| Run | Question | Instance |
|---|---|---|
| `delivery_safety` | one outcome, nothing lost, retry and send limits, refinement of ExactlyOnce | 2 events (one malformed) + garbage, 2 entries, batch 2, 2 retries, 1 fault |
| `delivery_liveness` | is every entry acknowledged in the end | 4 streams of up to 3 entries (`MCStreams`): an ordinary, malformed, failing and reserved event, another channel's, a copy, garbage; batch 2, 2 retries, 1 fault |
| `delivery_single_attempt` | is there one delivery attempt (ADR 0006)? **violated** | 1 event, 1 entry, no fault |
| `telegram` | does an outcome reflect the Bot API's answers; refinement of DeliveryWorker, with fairness | 2 events (one to the Bot API, one to a reserved chat), 2 entries, batch 2, 1 retry; 200, 400, 429, 500 |
| `outbox` | refinement of AtLeastOnce; bounded duplication of one row and of all together; is everything published in the end | 4 rows, batch 2, 3 faults |
| `routing` | one decision, really answered, deliverable; refinement; is everything decided in the end | 2 events (one incomplete), 2 entries, 1 retry, 1 fault; the channel is toggled, configuration-service may stay away |
| `notification` | monotonic status, no result ignored, closed for a cause; never stuck in PROCESSING; results close | 1 notification, 2 copies of each event, 1 retry, 1 fault |
| `notification_given_up` | does the watchdog close what was given up? **violated** | 1 notification, 1 retry, 2 faults |
| `platform` | do the databases agree; are the rows those of `Lifecycle`; is no result dropped; is what notification-service assumes true; is everything closed in the end | 1 notification, 1 retry, 1 fault in either service |
| `loadtest` | is a 202 kept, a settled reading final, the verdict true; does the run end | 2 planned notifications, one failing, 1 permit, 2 faults |
| `gateway_unreachable` | does a 502 mean that nothing was created? **violated** | 1 planned notification, 1 fault |
| `console_reenable` | is the channel enabled again only after the notification settled? **violated** | 2 sends, 1 channel, 1 fault |

The bounds. An event interferes with others only through the batch and the
sweep (who is stranded or aborted with whom), so two entries and a batch of two
show every such case, and one event with several entries shows every race
between copies. Two retries separate "failed", "failed again" and "given up".
One fault at every possible place, in every interleaving of the two tasks, is
what the recovery code is written for; where faults accumulate into a bound
(`RetriesBounded`, `DuplicatesBounded`, `RepeatsBounded`, `SendsBounded`) the
proofs cover every number of them. `delivery_liveness` needs three entries for
two that keep failing to fill the listing while another one waits behind them; it
follows four streams instead of all of that length: that one, with an email SMTP
may never take, a malformed event and garbage behind them; garbage that strands
the ordinary event read with it; a skipped and a simulated event; and one event
published twice. How many of the entries arrive, and when, is free. Other
streams are not checked, and no theorem covers liveness. In `telegram` there is no fault: retries
come from the Bot API's own answers, the faults are DeliveryWorker's, and the
theorems cover any number of them. One notification is enough for `notification`
and `platform`: a statement touches the row it names, the sweep's one UPDATE each
row by its own condition, and what two notifications share is the order in which
a task takes their entries, which the sets of entries leave open for one as well;
the theorems hold for any number. `routing` has a configured channel only: the
unconfigured one and the event without a channel are left to the theorems, which
make no assumption about `ChannelOf`. Two clients and one permit make one task of
the load test wait for the other past the deadline; two faults let a submission
lose both of the parties that wait for it. `CHECK_DEADLOCK FALSE` is set where the bounded
stream simply ends with nothing left to do; NotificationService never stops
because time always passes, and neither does Platform.

### 3.1 Fairness

`run_forever()` of every task loops for ever and swallows every exception but
cancellation, every external call has a timeout, and asyncio's event loop runs
every ready task: weak fairness of each task's step. Time passes: weak fairness
of `Elapse`. Nothing is assumed of publishers, of SMTP, of
configuration-service (they may fail every time) or of crashes and faults, which
`MaxFaults` bounds - without a bound no recovery is possible for any code.

`Platform` uses as fairness what the other modules show as liveness: decisions
are taken (`EventuallyDecided`), outcomes recorded (`EntryResolved`), events
published (`EventuallyPublished`); its tasks are fair as above, and nothing is
asked of the watchdog. `LoadTest` asks only for the load test's own tasks, for
time, and that every call of its client ends, which httpx's 10 second timeout
sees to; the gateway, the services and the databases may do nothing at all.

### 3.2 Disagreements with the documentation

* `AtMostOneAttempt`. ADR 0006 says the unique constraints enforce one delivery
  attempt per channel. They enforce one recorded outcome. The counterexample
  needs no crash and no timeout of the server: the consumer is sending, the
  entry becomes idle (an entry also ages while it waits in the consumer's batch
  behind others), the recoverer claims it, finds the ledger open and sends too.
  What does hold is `OneOutcome` and the bound `SendsBounded`.
* `WatchdogClosesGivenUp`. The slice 2 design (2.6) says that when the results
  consumer gives up, the notification stays PROCESSING and the watchdog closes
  it. A RoutingFailed is a result of a notification that is still CREATED, and
  the watchdog only matches PROCESSING; the notification stays CREATED for ever.

* `BadGatewayMeansUnreached`. The API reference and the docstring of
  BadGatewayError say that 502 means the service could not be reached at all.
  `_forward` answers it for every TransportError, a connection that breaks after
  the request was sent included; the notification may then exist. What does hold
  is `AcceptedIsReadable`.
* `ReenabledOnlyOnceSettled`. A comment in submit() and the playground's guide say
  that the channel is enabled again once the notification settled, because routing
  reads it asynchronously. timeline() also does so after 30 seconds, when the
  notification may be CREATED: a stranded event is recovered after 30 seconds at
  the earliest, finds the channel enabled, and is routed.

## 4. Proofs

Assumed: the named `ASSUME`s of the modules (bounds are naturals, batch size and
retry limit are positive, the data constants have their types). No bound is
given a value: the theorems hold for any number of events, entries, retries and
faults.

**GroupWorkerProofs** proves, for the parts every worker shares, that each
loop and environment step preserves the group's type and `GroupInv`, given what
the worker's own handle() steps keep. `DeliveryWorkerProofs` and
`RoutingWorkerProofs` cite these lemmas and add one lemma per step of handle();
`TelegramWorkerProofs` shows that each of its steps is one of DeliveryWorker's and
adds only what concerns `responses`.

The argument. `NothingLost` is not inductive: an XACK is only right if the task
about to make it holds a settled entry (`AcksSettled`), which depends on handle()
getting to `"ack"` only from a terminal ledger row, and on terminal rows staying
terminal. `GiveUpAfterMaxRetries` needs that whoever is at `"giveup"` holds an
event whose count reached the limit (`GivesUpExhausted`), and `RetriesBounded`
that an open event below `"giveup"` has an attempt left (`AttemptsLeft`): a
failed give-up returns the entry with the count at the limit, but costs a fault,
or finds the unique violation, in which case the ledger row is terminal by
`OneOutcome`. `OneOutcome` itself ties the three writes of the recording
transaction together; it is what makes the unconditional upserts of
mark_processed() and mark_failed_permanent() safe. `RecordsResult`, `RecordsAnswer` and `RecordsResponse` carry what a task was told
across the await between the external call and the transaction.

`SendsBounded` needs an account of every email (`SendInv`): it was sent for an
entry the consumer has tried (`Tried`, the entries it was handed less those still
in its batch or in its hands before the send), for an attempt the recoverer counted,
at a fault, or by the one attempt of the recoverer that is not counted yet
(`Uncounted`). That last one is paid back by the increment, by a fault that keeps
it from happening, or never: then the event is finished, and a finished event is
not sent for again by who reads the ledger. Each entry pays for one email only
because a batch is handled in order and an entry of it once (`HandlesOnce`). The lemmas
about `Untried` and `Tried` say how the steps of GroupWorker move entries
between them, so that each step of the worker is one credit or one debit.

**OutboxPublisherProofs** rests on a set of rows whose entry is accounted for,
`Counted`: those done in the batch in flight and those marked. Outside it every
entry was paid for by a fault (`FaultsPay`); a fault voids the batch in flight,
which is at most `BatchSize` rows together with what is left of it (`BatchFits`),
and that is the bound of `RepeatsBounded`. Entries are counted as the set
`Entries` of pairs, so that the sum is a cardinality. `ImplementsAtLeastOnce` maps each
step to `Save`, `Add`, `Settle` or a stutter; that only a row in its stream is
settled is `NeverLost`, and that a settled one is not added is that `batch` holds
unmarked rows only (`TypeOK`), which no one but the publisher itself can change.

**NotificationServiceProofs** has two invariants. `IInv` is about the rows: it
needs `ConsistentEvents` (two results of one notification never contradict each
other, from `MayPublish`) for `ResultApplied`: a second result that the guard
refuses has nothing to say that the first did not; `ProcessingWasRouted` supports
`ClosedForCause` for the watchdog. `GroupInv`, relative to it, is about the
groups: an acknowledgement needs a terminal ledger row (`AcksHandled`), a give-up
an exhausted count (`GivesUpExhausted`), and both must survive what the other two
tasks write to the same row meanwhile, which is `LedgerOnlyGrows`. The row may
still change between PROCESSED and FAILED_PERMANENT, as the upserts of
mark_processed() and mark_failed_permanent() are unconditional; give_up() has no
row of its own here that could conflict.

**PlatformProofs** shows first that each step of the composition is a step of
NotificationService or leaves its variables alone: `Publish` meets `MayPublish`
because the two contracts give a notification one decision and one outcome
(`Causality`: an event is in a stream only after its owner announced it, which it
did only after the event that caused it). `Agreement` then follows from
`ResultApplied` and `ClosedForCause` on one side and `RouteFollows` on the other:
the route is what was decided, then what became of it. `RouteShowsResult` says
that the guard of set_status() never refuses a delivery result that says
something new: there is a route, because a result is only published for what was
routed, and if it is closed, the same result closed it (`RouteIsMonotonic` is the
same fact about steps). With that, `PlatformIsLifecycle` is one lemma per kind of
step: a commit that its guard lets through is `ShowUnderWay`, `ShowEnd` or
`CloseRoute`, because the event it commits was announced (`Causality`), and all
other steps of the workers stutter. `NoResultDropped` joins the group invariants of both
services with these: an entry that left a group has a terminal ledger row, which
is PROCESSED, so the row it closes shows it, or FAILED_PERMANENT with an exhausted
count; routing's own failure is skipped by its results consumer without any
ledger row, but then the decision that announced it had inserted a closed route
(`Causality`, `RouteFollows`).

**LoadTestProofs** summarises each step of the gateway by what it does to one call
(`CallStep`: where the row comes from, where a request goes, where an answer comes
from), proves that once per action, and preserves the invariant from the summary
alone. `SubmittedOnce` is needed because an abandoned submission lives on: whoever
still holds it has not stored it, so a row that was read is never inserted
again. `ReadsAreTrue` says that a terminal status anywhere on its way to the
client is the row's, which holds as terminal rows do not change. `VerdictSound`
needs the cardinalities too: `matched` and `unsettled` are disjoint parts of
`accepted`.

| Theorem | Of |
|---|---|
| `DeliveryWorkerProofs`: `TypeCorrect`, `OutcomeOnce`, `NoLoss`, `GivesUpLate`, `RetryLimit`, `SendLimit`, `ReportedWasSent` | the invariants of `delivery_safety` |
| `OutcomeIsFinal` | the action property `OutcomeFinal` |
| `ImplementsExactlyOnce` (both workers) | refinement: initial states map to initial states, every step to `Settle`, `Release` or a stutter |
| `TelegramWorkerProofs`: `ImplementsEmail`, `OutcomeOnceToo`, `ImplementsExactlyOnceToo`, `AnswersSupportOutcomes` | refinement of `DeliveryWorker` step by step, the invariants and the contract it transfers, and `OutcomeWasAnswered` |
| `RoutingWorkerProofs`: `TypeCorrect`, `DecidedOnce`, `NoGuesses`, `ForwardsDeliverable` | the invariants of `routing` |
| `NoLoss`, `GivesUpOnTime`, `DecisionIsFinal` (routing) | what `delivery_safety` checks of the group, for routing's handle(): a decision before the acknowledgement, a give-up neither early nor late, no rewriting of a decision |
| `OutboxPublisherProofs`: `TypeCorrect`, `FewDuplicates`, `FewRepeats`, `ImplementsAtLeastOnce` | the safety properties of `outbox`; refinement of `AtLeastOnce` |
| `NotificationServiceProofs`: `TypeCorrect`, `NoResultIgnored`, `ClosedWithCause`, `StatusIsMonotonic` | the safety properties of `notification`, and its type invariant, which the run `platform` checks as part of `PlatformTypeOK` |
| `NoLoss`, `GivesUpOnTime`, `LedgerOnlyGrows` (notification) | its two groups: no entry leaves unhandled, no early give-up, no ledger row reopens or forgets a failure |
| `PlatformProofs`: `PlatformTypeCorrect`, `PlatformImplements`, `PlatformIsLifecycle`, `DatabasesAgree`, `ResultsReachTheirRows` | the safety properties of `platform`; refinement of `NotificationService` and of `Lifecycle` |
| `RouteShows`, `RouteIsMonotonic` | what the results consumer handled is on the route; a route is written by its decision and closed once |
| `LoadTestProofs`: `LoadTestTypeCorrect`, `AcceptedStays`, `SettledStays`, `VerdictTrue` | the invariants of `loadtest` |

Only model-checked: the liveness properties (`EntryResolved`,
`EventuallyPublished`, `EventuallyDecided`, `ProcessingEnds`, `ResultCloses`,
`EventuallySettled`, `RunEnds`, and the fair refinement of `telegram`), which are
beyond the prover. Every safety property of a passing run is a theorem. The four
violated properties are refuted by their runs and have no proof.

## 5. Not modelled

* Loss of Redis data: with `appendfsync everysec` the last second of stream and
  group state can be lost in a Redis crash. Redis and Postgres keep their state
  here.
* Several replicas of one service. The deployment runs one of each.
* The gateway's list and channel routes, which are forwarded like the two that are
  modelled, and the list endpoints behind them: they change nothing.
* What only displays: the console's health, modes and table, the load test's page,
  latencies and percentiles.
* Correlation ids, logging, settings, migrations, the wording of error bodies.

## 6. Plan

1. Proofs: one module for what the two set-based groups (`NotificationService`,
   `RouteResults`) have in common, as `GroupWorkerProofs` is for the other two; what
   `Lifecycle` alone implies, `Agreement` first.
2. `DeliveryRules`: the recipient rules (`delivery.py`) as pure operators against
   a reference definition, in place of the payload kinds.
3. The console's other promises, if the code comes to make them: a channel that
   was disabled for a scenario is enabled again although a call failed or another
   notification was sent.
