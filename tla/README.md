# Verification of the distributed payment system

TLA+ models of the payment platform, the TLC runs that check them on small
instances, and theorems about them checked by TLAPS for every instance. Paths
in this document are relative to the repository.

## 1. The system

| Component | State it keeps | Operations | Talks to |
|---|---|---|---|
| Payment gateway (`payment-gateway`, Express, 2 pods) | per process: transactions, webhooks, tokens in `Map`s; shared: idempotency keys in Redis | create, get, capture, cancel, refund a transaction; register, list, delete webhooks; create and read tokens; API-key check, validators, rate limit, idempotency | RabbitMQ queue `transactions`, Redis, merchants' webhook URLs |
| Transaction processor (`transaction-processor`, Node.js, 3 pods) | per process: AMQP channel, throttle counter, circuit breaker; shared: `txn:<id>` and `fraud:<id>` in Redis, the four queues and their DLQs | four consumers: validation, fraud check, processing, settlement; reconnection, health check, shutdown | RabbitMQ, Redis, fraud detection, notification, reconciliation |
| Saga orchestrator (`transaction-processor/src/saga`) | map of running sagas | execute four steps, compensate; nothing in the repository calls it | Redis |
| Notification service (`notification-service`, 2 pods) | per process: history, rate-limit windows, circuit breakers per URL | consume events, send by e-mail, SMS, webhook with retries | RabbitMQ, SMTP, merchants |
| Fraud detection (`fraud-detection`, FastAPI, 2 pods) | counters and blacklists in Redis, history in PostgreSQL, the ML model | analyze a transaction, report a fraud | Redis, PostgreSQL |
| Reconciliation (`reconciliation-service`, Spring, 2 pods) | transactions, bank statements, results, settlements in PostgreSQL | import statements, reconcile (daily job and `GET /status`), approve a discrepancy, settle, split | PostgreSQL |
| Frontend (`frontend`, Next.js) | page-local mock data | render | gateway |
| Deployment (`kubernetes`, `docker-compose.yml`, `.github`, `k6`, `scripts`) | - | replicas, probes, load tests | - |

### How a payment moves

A message on `payment.validation` carries the transaction. The validation
worker runs four validators; a valid payment is stored as `FRAUD_CHECK` and
published to `payment.fraud_check`; an invalid one is stored as `FAILED`,
republished up to three times and then published to the dead-letter queue.
The fraud-check worker uses the decision cached in Redis, or asks the fraud
service (or a local fallback) and caches the answer; it stores `PROCESSING` and
publishes, or stores `DECLINED`. The processing worker is throttled, asks the
acquirer, stores `APPROVED` and publishes, or stores `DECLINED`. The settlement
worker settles and stores `SETTLED`. All four run in every replica, on one
channel, with manual acknowledgement; an exception requeues the delivery.

Nothing in the repository publishes to `payment.validation`: the gateway sends
to the queue `transactions`, which nothing consumes. The pipeline model starts
with one message per payment on `payment.validation`, from an external producer.

### What is hard here

* Handlers interleave at every `await`, within a replica and across replicas.
* Delivery is at least once; there is no deduplication, and workers decide from
  the status *inside the message*, never from the stored one.
* A process may die, or its channel close, between an outside effect, the Redis
  write, the publish and the acknowledgement.
* A Redis command may take effect although its caller sees an error, or be sent
  twice, or be issued and not awaited (`ValidationWorker.ts:161`).
* A reconnection of the processor restores the connection but not the channel
  (`queue/connection.ts:19`); in the notification service several reconnecting
  calls may run at once over the same module variables
  (`notification-service/src/queue/connection.ts:9`).
* Idempotency in the gateway is check-then-act over an asynchronous cache, and
  transactions live in the memory of one of its replicas.
* The notification service's dead-letter routing key matches its own queue.
* Two replicas of the reconciliation job share tables without a lock.

What each component must guarantee: the pipeline must touch the outside world
in order (valid, cleared, charged, settled), never record a step not taken,
lose no payment and bring each to an end; the gateway must answer a repeated
request with the first answer, must not confirm a transaction that was not
queued, and must keep final states final; the notification service must try
each channel of each event and let no event circulate for ever; reconciliation
must pair each transaction once and explain each leftover.

## 2. Modules

| Module | Models | Extends |
|---|---|---|
| `PaymentLifecycle` | abstract: what the transaction processor promises about a payment | - |
| `PaymentPipeline` | the four workers, RabbitMQ, Redis, replicas and their faults | - |
| `PaymentPipelineInv` | the inductive invariant | `PaymentPipeline` |
| `PaymentPipeline_proofs`, `PaymentPipelineDelivery_proofs` | theorems: invariant and refinement; delivery | `PaymentPipelineInv` |
| `Gateway` | transactions and idempotency in the gateway | - |
| `Gateway_proofs` | theorems: confirmation, lifecycle, retries | `Gateway` |
| `WebhookDelivery` | registration and delivery of the gateway's webhooks | - |
| `CircuitBreaker` | the gateway's breaker under overlapping calls | - |
| `NotificationService` | consumer, channels, rate limit, breaker | - |
| `NotificationService_proofs` | theorems: records, delivery, bound on calls | `NotificationService` |
| `ReconciliationLedger` | abstract: what reconciliation promises | - |
| `Reconciliation`, `Reconciliation_proofs` | imports, `reconcile()` on several threads, approvals | - |
| `BankStatementParser` | edit distance, fuzzy match, statement files | - |
| `BankStatementParser_proofs` | theorems: what both algorithms compute, on every input | `BankStatementParser` |
| `FraudDetection` | `POST /analyze` of the fraud service over Redis | - |
| `FraudDetection_proofs` | theorems: expiry of counters, approvals, the ban | `FraudDetection` |
| `SagaOrchestrator` | `executeSaga` and its compensation | - |
| `NotificationConnection` | `connect()` and `main()` of the notification service | - |
| `ProcessorStart` | start of processor pods, the queue topology, their connection | - |
| `MCPaymentPipeline`, `MCGateway`, `MCNotificationService`, `MCReconciliation`, `MCServices` | constants of the small instances | the modules they instantiate |
| `Services_proofs` | theorems: breaker, saga, webhooks, connection, start, and what they are side by side | `MCServices`, `FraudDetection_proofs` |

The components meet in these places: the pipeline asks the fraud service, the
acquirer and the settlement, whose verdicts its model leaves open; the result of
the parser is what `MCReconciliation` gives `Reconciliation` to import and to
match (`LikenessIsFuzzyMatch` is evaluated by TLC); the webhooks follow the
transactions of one gateway replica, whose operations `WebhookDelivery` repeats
with their guards. `PaymentPipeline` and
`NotificationService` begin where `ProcessorStart` and `NotificationConnection`
end, with replicas that consume; a lost connection is in both. The others share
nothing: `MCServices` puts the webhooks, the breaker, the fraud analysis, the
saga, the two connections and the parser side by side, each behaviour about one
of them (`part`) while the others rest.

Definitions whose comment begins with "Mutant:" or "A slip" are plausible bugs.
No action uses them; replacing the definition named after them by one must make
TLC find the property violated, which is how each property is known to depend on
the code.

### PaymentPipeline

| State | In the code |
|---|---|
| `ready`, `dead` | the queues `payment.*` as a bag of messages, and `payment.validation.dlq` |
| `pc`, `msg`, `verdict` of a slot | a running handler: the await it is at, its delivery, its branch. A slot is one delivery credit of `prefetch` |
| `held` | the broker still counts the delivery as unacknowledged |
| `conn` | per replica, the commands of its one ioredis client without a reply, in order |
| `store`, `fraudCache` | `txn:<id>` and `fraud:<id>` in Redis |
| `link` | a replica consumes (`open`), has lost its channel (`deaf`), or is dead (`down`) |
| `used` | `requestCount` of the processing worker's throttle |
| `cleared`, `charges`, `settled`, `closed` | history: what the fraud check, the acquirer and the settlement were asked for, and payments acknowledged at the end |

A handler step runs from one `await` to the next. `Deliver*` are the beginnings
of the four handlers, `RedisReply`, `FraudServiceAnswers`, `AcquirerAnswers` and
`SettlementAnswers` resume them, `Forward` is the publish with everything the
code does behind it without waiting (the validation worker's last FAILED write
included), `Notify`, `Ack` and `Nack` end them. `Crash`, `Restart`,
`Disconnect`, `RedisRefuses`, `RedisRejects`, `RedisResends` and
`FraudResultExpires` are the environment. A command that was sent reaches Redis
whatever becomes of its client: a death keeps any number of the first commands
outstanding, which nobody waits for any more (`Orphaned`); a client that gives
up fails all it has outstanding, applied or not; and one whose connection breaks
sends all of it again.

Abstractions: a status stands for the stored transaction; the snapshot a message
carries is the status its queue implies; "review" and "decline" of the fraud
check take the same branch and are one verdict; whether a payment is valid does
not change between retries; the 24-hour TTL of `txn:` keys is longer than a
payment's life; the throttle counter stops one above its limit; the credits of
`prefetch` are shared by the workers of a replica (each consumer has its own
in the code, which only allows more deliveries at once).

### Gateway

| State | In the code |
|---|---|
| `phase`, `at`, `wrapped`, `answer` of a request | the handler's await, its replica, whether `res.json` is wrapped, the response |
| `transactions` | each replica's `Map` in `TransactionService` |
| `queue` | the RabbitMQ queue `transactions` |
| `cache`, `conn` | `idempotency:<key>` in Redis, and each replica's outstanding commands |
| `ran`, `heard` | history: executed requests; answers of the same key that were out before a request came |

`Arrive` is a request up to its lookup (or, unkeyed, up to its first await or
its answer), `LookupReply` the rest of the middleware and of a synchronous
route, `Connected`, `BrokerAccepts`, `Closed`, `BrokerFails` are
`createTransaction`. The response is sent and its `setex` issued in one step;
`CacheReply` applies it later, also for a replica that has died meanwhile.

Abstractions: a refusal by the authenticator or a validator is one 400; the rate
limiter is left out; a key is used by a client for one operation and its
retries; a client learns a transaction's id from the 201 only; a broker that has
read the message keeps it.

### WebhookDelivery

| State | In the code |
|---|---|
| `txnStatus` | status of the transaction object, which the payload refers to and does not copy |
| `registry` | the `Map` of webhooks, in insertion order |
| `queue`, `attempt`, `body` per event | a running `sendWebhookNotification`: the webhooks still to serve, the attempt at the first, and what the request under way says |
| `owed` | history: webhooks found for an event that have neither got it nor failed `MAX_RETRIES` times |

`Operate` is create, capture, cancel or refund with the start of its
notification, which nobody awaits; `Attempt`, `Delivered` and `Failed` are the
two loops. `Restart` loses everything, which is all in memory. One transaction,
each event once: a second cancellation of a cancelled transaction, which the
code allows, would be another notification of the same kind.

### CircuitBreaker

`breaker`, `failureCount`, `successCount` are the fields, `cooled` says that the
timeout has passed since `lastFailureTime`, `running` are the calls that await
the guarded function. `BreakerSuccess` and `BreakerFailure` count in whatever
state the breaker is by then. `failureCount` stays at the threshold once there,
since it is only compared with it.

### NotificationService

`ready`, `held`, `link` as above; `pos` and `attempt` are a handler's place in
the two loops; `used`, `failures`, `cooled` are the rate-limit counters, the
breakers' failure counts, and which reset timeouts have passed; the first send
of a window is let pass without a look at the limit (`Allowed`); `recorded` is
the history, `tries` counts calls to the outside. One step handles one channel
up to its first await, where the code may handle several synchronous channels
in one; the model's behaviours include the code's. The URL of a user's webhook
is the user; a message whose handling throws is an element of `Broken` (the
service catches everything that depends on its channels); failures beyond the
threshold are not counted further.

### Reconciliation

| State | In the code |
|---|---|
| `arrived`, `reconciled` | rows of `transactions`, and their flag |
| `stmtStatus` | column `status` of `bank_statements` |
| `results` | rows of `reconciliation_results` |
| `phase`, `seenTxn`, `seenStmt` of a runner | a thread in `reconcile()`: the Quartz job of a replica, or a request to `GET /status`, and the two lists it has selected |
| `overlapped` | history: two runs have been under way at once |

`reconcile()` is one database transaction at READ COMMITTED (PostgreSQL's
default): `SelectTransactions`, `SelectStatements`, then matching in memory and
every write in `Commit`. The statements come in any order, the same for the
whole run; each transaction takes the first match, taken or not; the last loop
marks what no transaction took. `Rollback` is a failed database transaction,
`ApproveDiscrepancy` changes the row only, as in the code. `Arrive` stands for
the acquirer's feed, which is outside the repository. Rows that successive runs
write for one lone transaction or statement are one element of `results`; a row
for a pair carries its writer, so the same pair found twice is two rows.

### BankStatementParser

`LevenshteinTable` is the `dp` array as a recursive function of a cell, and
`Collected` what the OFX loop holds after each number of lines, a recursive
function too, so that both can be proved about; `LevenshteinDistance`,
`Similarity`, `FuzzyMatch`, `ParseOFX` and `ParseLines` (CSV and CNAB) are
operators on top. A text is a sequence of characters and a line its tag with a
value; cutting lines into fields, number and date formats are left out. The
comparison with 0.8 is exact here, with doubles in the code. The reference
definitions stand at the end of the module: the distance is the least number of
`Edits` over all ways to lay one word over the other without crossing
(`Overlays`), and a file of complete entries (`FileOfEntries`) gives one
statement per entry (`EntriesKeepTogether`), whose memo is told by `MemoOf`.

### FraudDetection

| State | In the code |
|---|---|
| `redis` | the keys of one customer, card and address: two counters with their expiry, location, average, ban |
| `client`, `pinger` | `_redis` of `redis_client.py`, and the command whose `get_redis()` awaits the ping |
| `pending` of a request | the Redis commands it has under way: one, or those of the five rules that `gather` started |
| `found`, `verdict`, `unknown`, `answer` | rules reported, the decision, whether no average was read, the response |
| `counted`, `excused`, `refused`, `barred` | history for the properties |

Every command on Redis is a step, so concurrent requests interleave at each;
`FraudRaise` is a command that raises, applied or not: `gather` then raises, the
request is answered 500 and the other rules go on. `FraudFallOpen` is the failing
ping: `get_redis()` returns no client and the rule reports nothing.

Abstractions: one process; the score is abstracted to `ModelMayReject`. Below a
rule of severity high the scores are 20 (location), 15 to 24 (unusual amount)
and 10 (hour); with the model's share the risk passes 60 only from a sum of 35
on, so with location and unusual amount together, and the hour never decides.
Any key may expire at any time, also while a request is under way. A ban that
does ends what it was to keep out (`refused`, `barred`), and a rejection that
relied on it and is not answered yet is excused. The database calls swallow
their errors and no analysis reads what they wrote.

### SagaOrchestrator

`mode`, `step` and `carried` are the locals of a call of `executeSaga`, `entry`
the map of running sagas, `stored` the key `txn:<id>`. A step ends in a SET of
what the execution carries; a SET may raise, applied or not (`StoreRaises`), and
the process may die. `StepFails` starts the compensation at the failed step,
`Compensate` goes down to the first and swallows its errors.

### NotificationConnection

| State | In the code |
|---|---|
| `at` of a call | the await of `connect()` it is at: `amqp.connect`, `createChannel`, one of the four set-up commands, the pause; or `armed`: it is the call that a close handler will make |
| `own`, `on` | the connection the call has opened in this attempt, or is armed on, and the one whose channel its command went out on |
| `open`, `broken` | the connections that are open, and those whose channel the broker has closed |
| `connection`, `channel`, `tries` | the module variables `connection`, `channel` and `retryCount`, which all calls share. `Stale` is a connection that has closed and is still held |
| `splits`, `strays`, `spent` | history: attempts that failed, or lost their connection, midway; handlers put on another attempt's connection; whether `retryCount` has reached its maximum |

The calls of `connect()` are `main()`'s and those of the close handlers. A step
runs from one await to the next; each set-up command reads `channel` again, and
the handlers go on whatever `connection` holds when `createChannel` answers
(`LinkOpens`): the call's own connection, or another call's, which then has two
handlers and the call's own none, or a closed one, which will never call them,
or null, which throws and leaves the attempt's connection bare. `LinkCloses` is
a connection's close with every handler on it; each clears the variables even
when they are another connection's by then, and calls `connect()`. A failure
behind `amqp.connect` leaves the connection open, with its handlers if it has
got them. So calls and connections add up: by one for each attempt that fails
midway, and for each handler that strays one connection is left that nobody
would miss. Since all calls share the counter, the success of one resets it for
all; once the retries have been used up the service may rest on an unwatched
connection with the counter at zero, which is why `NotGivenUpEarly` asks whether
they were used up at any time since the start.

### ProcessorStart

| State | In the code |
|---|---|
| `pod`, `done` | the await of `main()`: the connection, the channel, or which of its commands |
| `calls`, `conns`, `attempts` | calls of `connect()` under way, open connections, `reconnectAttempts` |
| `consuming` | queues the broker delivers to the pod |
| `declared` | exchanges, queues and bindings the broker has, shared by all pods |

`Main` is the sequence of commands `main()` awaits: `setupQueueTopology`, then
the four consumers. `BrokerReplaced` is a broker pod that is replaced by an empty
one (its deployment has no volume): every connection is lost and nothing is
declared; a pod that is past its start reconnects and declares nothing, one
within it exits. A connection's failure before the end of `main()` ends the
process, behind it the close handler reconnects.

## 3. Order of the work

Done, in this order: the pipeline with its lifecycle; the gateway's
transactions; notifications; reconciliation with its ledger and the parser;
fraud analysis, webhooks, circuit breaker, saga; then the invariants as
theorems, component by component; the connections and the start of the processor
and the notification service. What could follow: the gateway and its
webhooks composed over several replicas.

## 4. What is checked

| Run | Instance | Shows |
|---|---|---|
| `pipeline_faults` | 1 payment, 2 replicas with 3 credits in all, 1 fault | `InductiveInv` (types included), `MilestonesInOrder`, `StoreTellsNoLie`, `NoPaymentLost`, `ChargesBounded`, and refinement of `PaymentLifecycle` |
| `pipeline_concurrent` | a valid and an invalid payment, 1 replica with 2 credits, no fault | `QuietStoreIsOutcome`, `PaymentsFinish` |
| `pipeline_live` | 1 payment, 2 replicas, 1 fault, fair | `PaymentsFinish`, `PipelineDrains` |
| `gateway` | a creation and its retry, a capture, a cancellation, a refund, 2 replicas, 1 fault, fair | `InductiveInv` (types included), `ConfirmedIsQueued`, `AnswersFollowLifecycle`, `RetryNotExecuted`, `RequestsAnswered` |
| `notify_faults` | 1 event, 2 replicas, 2 faults | `TypeOK`, `NoEventLost`, `TriesBounded` |
| `notify_concurrent` | 2 events of one user and a broken one, 1 replica with 2 credits, fair | `AckedIsRecorded`, `EventsHandled` |
| `reconciliation` | 2 transactions, 2 statements, 2 runners, 1 failure or approval, fair | `TypeOK`, `FlagsAgree`, `OneVerdict`, `StatementsResolved`, `PresentPairIsFound`, refinement of `ReconciliationLedger` |
| `services` | see below, fair | `ServicesTypeOK`, `CountersExpire`, `ApprovalsBounded`, `NoApprovalAfterRejection`, `ReceiversAreTold`, `TransitionsEarned`, `SagaOutcome`, `ConnectionsBounded`, `NotGivenUpEarly`, `ConsumersRouted`, `OneLink`, `LevenshteinIsEditDistance`, `OFXEntriesKeepTogether`, `ServicesEnd` |
| `settled_final` | 1 payment, 2 replicas, no fault | **violated**: a stored SETTLED may be overwritten by FAILED |
| `deaf_replica` | 1 payment, 1 replica, 1 fault | **violated**: after a lost connection the payment is never finished |
| `gateway_race` | a creation and its retry, 1 replica, no fault | **violated**: one idempotency key, two transactions |
| `notify_broken` | an event and a broken one, 1 replica | **violated**: an exhausted message returns to the service's own queue |

Bounds. `MaxFaults` limits faults over a whole run. One of them with three
credits is the least at which a payment is in the hands of three handlers at
once, two of a redelivery's descendants among them; what any number of faults
can do is proved (section 5). Liveness uses one, because its question is whether
recovery ends. Without faults payments of one pipeline meet only in the
credits, the throttle and the order of a replica's Redis commands, so two
payments and two credits exhibit their interaction. `MaxRate = 1` makes the
second delivery of a window meet the limit. `MaxRetry = 3` is the code's
constant. `MaxAttempts = 2`, `Threshold = 1` and a limit of one per window are
the least values at which there is a retry, an open breaker and a refusal.

In `reconciliation`, transaction t1 fits both statements and t2 only the second,
which is the least for a statement taken twice, a discrepancy and a choice that
depends on the list's order; two runners overlap; `MaxEvents = 1` leaves one
failure or approval to hit either. One of the two files imported has a bad
record, and nothing of it is imported.

In `services`: two requests, one at home for 15 and one from abroad for 60, with
an average of 5 before them, which the second exceeds extremely; it exceeds only
unusually the average the first has set, which with its location lets the model
decide; a card limit of one; and one Redis fault, which may hit any command or ping; two
webhooks registered for different events, two attempts, one deletion or restart;
three calls and thresholds of two in the breaker, so that late calls meet every
state; two sagas of one transaction, two lost writes or crashes; five calls of
`connect()`, armed ones included, of which no behaviour of the instance needs
more, two connections, two attempts and two lost connections or refused
commands, so that a close handler runs while another call is within its set-up,
handlers stray to another connection and the attempts may be used up by others; two pods with two attempts and two
faults, so that a pod serves, reconnects and gives up, or starts, while the
broker is replaced under it; words of up to three letters over two, and every
order of the four OFX tags in each of two entries. Two larger instances pass too
and are not in the configuration for their length: an average of 2 before the
two requests, both of them extreme, and three connections with six calls.

`CHECK_DEADLOCK FALSE`: these systems come to rest when all payments, requests
or events are done.

### Fairness

* `WF(HandlerStep)`, `WF(RedisReply)`: the event loop runs every continuation,
  and Redis, the services and the acquirer answer or time out. The gateway's
  `Serve` is the same for its broker calls, and `HookFairness` and
  `SagaFairness` are for the parts of `services`.
* `FraudFairness`: what is awaited comes back, because Redis answers or because
  the connection to it breaks. The client of the fraud service sets no timeout
  (`redis_client.py:16`), so this is an assumption about Redis.
* `WF(Restart)`: Kubernetes restarts a dead pod. The gateway needs no restart:
  its liveness property ends with the replica.
* `WF(WindowElapses)`: time passes.
* `SF` on the delivery of each payment or event: a RabbitMQ queue is first in,
  first out, and the model's queue is a bag; a message that is consumable again
  and again is delivered. Weak fairness would let one payment be throttled, or
  one broken message be served, for ever in front of another.
* `WF` of the three steps of each reconciliation runner: the trigger fires every
  day and the database answers.
* Nothing is assumed of faults, of clients, of approvals, or of the verdicts of
  the fraud service and the acquirer.

### Where code and documents disagree

Shown by a run:

* `ValidationWorker.ts:161-165` stores FAILED behind a passed validation,
  without waiting. On one replica the later writes of the pipeline are behind
  it on the same connection, and at rest Redis is right
  (`QuietStoreIsOutcome`); between replicas it may land last (`settled_final`).
* `queue/connection.ts:19-23` announces a reconnection that restores no channel
  (`deaf_replica`); `/health` goes on answering "connected", since it looks at
  the old channel object (`index.ts:22`).
* The idempotency key is written behind the response and not reserved before
  the work (`gateway_race`). What the cache does guarantee is
  `RetryNotExecuted`: a retry sent to the same replica after the answer, by the
  order of one Redis connection.
* The notification service's dead-letter key `notification.dlq` matches the
  binding `notification.*` of its own queue (`notify_broken`). Other events are
  still handled (`EventsHandled`).

Seen while modelling, and visible in the models without a run of their own:

* `README.md:631` closes the breaker when "probe succeeds"; the class closes it
  after `successThreshold` successes, which may be of calls let through before
  it opened.
* `README.md:649-656` has compensations mark `validation_failed` and so on. The
  code goes down to the first step, so the last write is CANCELLED whatever
  failed (`Compensated`), and a saga started on a transaction that is not
  PENDING is refused and then writes CANCELLED over what was stored.
* The fraud rules and scores of `README.md:334-342` are not those of
  `rules_engine.py`, which the model follows.
* `README.md:411` runs the daily reconciliation at 2 AM, `QuartzConfig.java:25`
  at midnight.
* A transaction that arrives between the two SELECTs of a run may lose its
  statement to the report of unmatched ones, which no later run reads; and
  overlapping runs may pair a transaction twice or report a paired statement as
  unmatched (hence the premises of `PresentPairIsFound` and `OneVerdict`).
* The probes of the processor's deployment ask port 8081 for
  `/actuator/health/readiness` and `/actuator/health/liveness`; its health server
  answers 404 to both (`transaction-processor/src/index.ts:29-38`).
* `connect()` of the notification service returns without an error when other
  calls have used up the retry counter during its pause; `main()` then starts its
  consumers on whatever channel there is, and exits if there is none. That
  channel may be of an attempt that has not set its prefetch yet.
* An OFX memo that is the last field of its entry goes to the next statement.
* If Redis is down when the fraud service starts, the first command falls open;
  if it goes down later, the rules raise and the request is answered 500.

## 5. What is proved

For all values of the constants that satisfy the assumption of the module.

**Pipeline** (`PaymentPipeline_proofs`): `Invariance` (`[]InductiveInv`),
`TypeCorrect`, `Causality` (`MilestonesInOrder`), `StoreSound`
(`StoreTellsNoLie`), and `Refinement` (`Spec => Lifecycle!Spec`): each step
charges, clears, settles or stores as the abstract specification allows, or
leaves its variables alone.

`MilestonesInOrder` is not inductive: a worker acts on a message, so messages
must have *earned* their queue (`QueueInv`); a handler publishes what it decided
before its write, so its decision must be *supported* after any wait
(`SlotInv`); a write takes effect when its reply comes, perhaps after its
process died or twice, so each outstanding command must be *justified* when
issued, and belong to a handler that waits for just it (`ConnInv`); and a
decision may come from the cache (`CacheInv`). All of these are stable because
`cleared`, `charges` and `settled` only grow. There is one lemma per action.

`PaymentPipelineDelivery_proofs` adds `NothingIsLost` (`NoPaymentLost`). Its
invariant says that the broker counts deliveries of consuming replicas only
(`HeldOpen`); then a handler that takes a message holds it, one that ends has
published a successor or closed the payment, and a death or a lost channel
returns what was held. `ChargesAreBounded` (`ChargesBounded`): with f faults so
far a payment has been authorised at most (f+1)(f+2)(f+3)/6 times. A fault may
return a delivery whose successor is published already, and so add a copy of the
payment at each stage; but it adds to what is still to pass a stage no more than
the copies there are of that stage's message. So the deliveries still to be
validated are 1 at most, those still to pass the fraud check f+1, those still to
be charged, with the charges made, a sum of such sums (`Within`).

`OutcomesAreStored` (`QuietStoreIsOutcome`) is about one replica without
faults, with any number of payments and credits. Its invariant (`OutcomeInv`)
says that nothing has gone wrong (`Unharmed`), that a payment which is not over
is one message or one handler's (`InOnePlace`), and what the last command for
its key will be in the replica's one Redis pipeline (`LastWords`): what the
handler decided, and when the payment is over, its outcome. The FAILED that
trails a validation is issued together with the publish, so it is ahead of every
command of the handlers that follow. For the same reason `SettledStaysSettled`:
under these hypotheses nothing but SETTLED is written behind SETTLED
(`SettledIsFinal`, which run `settled_final` shows broken by a second replica).

`HandlersDoNotHang`: under any fault a handler that awaits Redis has its command
outstanding on its replica's connection, since every reply, rejection or lost
connection that takes a command away also moves the handler that issued it. This
is the safety half of `PaymentsFinish`; fairness adds only that replies come.

**Gateway** (`Gateway_proofs`): `Invariance`, `TypeCorrect` and `Confirmation`
(`ConfirmedIsQueued`). The invariant strengthens the property from answers to
everything that may become one: the cached answers and the `setex` commands
under way (`BackedCmd`), which an answer reaches before it reaches Redis.

`AnswersAreConsistent` (`AnswersFollowLifecycle`): the invariant links each
lookup to the request that waits for it and each cached answer to one that was
given (`Linked`, `LifecycleInv`), and says of each transaction that it is in one
replica's Map at most, whose status is what its clients were told (`MapInv`). `RetriesAreReplayed` (`RetryNotExecuted`): as long
as there is no fault, whatever a replica has answered to a key is in the cache or
on its way there on that replica's connection (`AnswerSafe`), ahead of any
lookup that came later (`ConnSafe`), so such a lookup cannot miss.
`RequestsDoNotHang` is the safety half of `RequestsAnswered`: a request that is
neither answered nor dead is with a running replica, and its lookup, while it
waits for one, is outstanding there.

**Circuit breaker** (`Services_proofs`): `BreakerInvariant` (`BreakerInv`:
while closed the counter is the streak of failures, while half open the number of
probes) and `TransitionsAreEarned` from it.

**Saga** (`Services_proofs`): `SagasEndRight` (`SagaOutcome`). `SagaInv` ties
what an execution has written to the step it is at (`Progress`): going forward
it has authorised exactly when only the notification is left, going backward from
an authorisation it has not passed the refund or has done it. What other
executions write meanwhile changes only whether it was the last writer.

**Webhooks** (`Services_proofs`): `ReceiversAreAlwaysTold` (`ReceiversAreTold`).
`HookInv` adds that what is owed has happened, and that a notification which
still has webhooks to serve finds the transaction in a status its event allows:
the status only moves forward, so a payload that is read late may be ahead of its
event but not behind it.

**Connections** (`Services_proofs`): `ConnectionsAreBounded`
(`ConnectionsBounded`) and `NeverGivenUpEarly` (`NotGivenUpEarly`) from
`LinkInvariant`. The invariant has three parts. `LinkShape` says what a call has
at each await, that no two running calls have one connection, and that a
connection the variable holds is open or known to be closed. `LinkHope` says
that while retries are left somebody looks after the connection: if the variable
holds a closed one, a call is after the next, and if it holds an open one, a
handler is on it, a call is about to put one on, or a call is after the next.
The variable holds a closed connection only if that had no handler when it
closed; then the call that was to put one on has failed with it and tries again,
or another is after the next connection anyway.
`LinkBounds` counts the handlers and calls with one still to put on
(`Reconnecting`), those and the calls whose connection is gone (`Homeless`), and
the connections without a handler or a call about to arm one (`Unwatched`):
putting a handler on swaps a call for it, and leaves one connection unwatched,
which counts in `strays`, if it is another's; on a closed connection the call is
traded for the unwatched one; an attempt that fails adds one call and counts in
`splits`. The connections nobody works on
are unwatched or have a handler of their own (`LinkInvBounds`).
`PodInvariant`:
what a starting pod has been answered for is declared, and while any pod gets
deliveries the whole topology is (`PodDeclared`): the broker cannot be replaced
without ending both. Hence `ConsumersAreRouted`; and `PodHas`, the connections
and calls at each stage of `main()`, gives `PodsHaveOneLink`.

**Fraud analysis** (`FraudDetection_proofs`): `CountersAlwaysExpire`,
`ApprovalsAreBounded` and `NoneApprovedAfterRejection`, from one invariant
(`FraudInv`) that says which commands of a request may be under way together,
what each request still has to be answered, and what its rules have counted. The
bound on approvals rests on INCR: a window has no more requests than Redis has
counted (`WindowInv`), so one that could make the approvable ones too many got a
count above the limit and is reported (`Spoiled`). The ban needs the pairs in
`excused`: a rejection whose `sadd` found no client does not ban, and a later
request whose own look-up found none is not refused, even if the client that
failed its ping was made for another request.

**Side by side** (`Services_proofs`): `ServicesTypesHold`, from the invariants of
the components; the lemma `PartsAreTheirOwn` takes a behaviour of `MCServices`
apart into one of each.

**Reconciliation** (`Reconciliation_proofs`): `TypeCorrect`; `Refinement`
(`Spec => Ledger!Spec`): a commit is a `Reconcile` of the pairs and leftovers it
writes, and everything else, approvals included, stutters; `FlagsAlwaysAgree`, an
invariant of the ledger carried over by the refinement; and `OneVerdictHolds`.
For the last, while runs have not overlapped at most one is under way
(`OneAtATime`), what it has selected is still open (`SelectionFresh`), and the
rows agree with the flags (`RowsAgree`), so a commit writes verdicts only about
transactions and statements without one. `PresentPairIsNotMissed`: from a moment
on at which a pair alike is present and no run is under way, either the
transaction is reconciled or both are open and in whatever the runs under way
have selected so far (`FoundOrSeen`), so no commit can take the statement
otherwise and the first one pairs the transaction. Fairness adds only that some run commits.

**Notifications** (`NotificationService_proofs`): `Invariance`, `TypeCorrect`,
`AcknowledgedAreRecorded` (`AckedIsRecorded`) and `NothingIsLost`
(`NoEventLost`), from `HandlersInv`: a handler has settled every channel it has
passed; and `CallsAreBounded` (`TriesBounded`). There is
one copy of an event to handle (`OneCopy`), and the calls made, those its handlers
may still make and those of the handler to come fit a budget (`Budget`) that
each fault raises by one round. `BrokenNeverLeave` follows from `NothingIsLost`: no
handler ever holds or acknowledges a broken event, so it is in the queue at every
moment, and what run `notify_broken` refutes on one instance is false of every
such event in every behaviour.

**Parser** (`BankStatementParser_proofs`): `DistanceIsEditDistance` and
`EntriesAreKeptTogether`, for texts and files of any length. Both are inductions
over a recursive function, and the library's induction theorems cannot be
instantiated here; `Induction` does without: a set of numbers that is not all of
`Nat` has a least number outside it (`LeastNumber`, from the well-foundedness of
strict inclusion among finite sets). With it, a function that satisfies the
recursive equation exists (`TableUpTo`, one diagonal of the table after
another), so the equation may be used; and each cell holds the least number of
edits of the two prefixes, because an overlay either leaves out the last
character of one text or of the other, or pairs the two (`TableHoldsLeastEdits`).
The parser has nothing open after an entry except, perhaps, the memo that came
last, and the induction goes from entry to entry. `SimilarityIsAFraction` and
`FuzzyMatchTakesBoth` follow from bounds on the distance. `Services_proofs`
carries the first two over to the runs' properties (`DistancesAreLeastEdits`,
`EntriesStayTogether`).

Only model-checked: the liveness properties `PaymentsFinish`, `PipelineDrains`,
`RequestsAnswered`, `EventsHandled`, `StatementsResolved`, `PresentPairIsFound`
and `ServicesEnd` (the prover has no rule for fairness). Of `PaymentsFinish`,
`RequestsAnswered` and `PresentPairIsFound` the safety halves above are proved.
Every other property of a passing run is stated by a theorem.

## 6. Not modelled

* Settlement and split payments: each operation inserts rows or turns them
  SETTLED in one database transaction, unconditionally, and nothing relates one
  call to another.
* Tokens (an insert and a lookup), templates and frontend (text, mock data), the
  numeric fraud model, the fraud database, reports (they only read).
* `POST /report-fraud`, which stores what no analysis reads.
* The failure branch of the settlement worker, which nothing reaches
  (`processSettlement` reports "settled" from its catch block too), and the fraud
  worker's circuit breaker, which never sees a failure since the guarded function
  catches its own.
* Traffic of the priority and delayed queues, to which nothing publishes; the
  health endpoints; the gateway's authentication, whose refusal is that of a
  validator here, and its rate limiter, a library.
* Loss of data inside RabbitMQ, Redis or PostgreSQL.
