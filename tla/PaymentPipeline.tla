--------------------------- MODULE PaymentPipeline ---------------------------
(***************************************************************************)
(* The transaction processor: replicas of one Node.js process, each        *)
(* running the validation, fraud-check, processing and settlement workers  *)
(* on one AMQP channel, over a shared RabbitMQ broker and a shared Redis.  *)
(*                                                                         *)
(* A handler runs from one await to the next in one step.  Between two     *)
(* awaits of one handler the handlers of all other deliveries may run, on  *)
(* the same replica or on another one.                                     *)
(***************************************************************************)
EXTENDS Integers, Sequences, FiniteSets

CONSTANTS Txn,        \* the payments submitted to payment.validation
          ValidTxn,   \* those whose data pass the four validators
          Replica,    \* transaction-processor pods
          Slot,       \* delivery credits (prefetch): concurrently running
                      \* handlers, of whichever worker
          Home,       \* the replica each slot belongs to
          MaxRate,    \* config.throttling.maxRequestsPerSecond
          MaxFaults,  \* bound on environment faults (crashes, disconnects, ...)
          None        \* no message, no verdict, no waiting handler

MaxRetry == 3

Worker  == {"validation", "fraud_check", "processing", "settlement"}
Verdict == {"accept", "reject"}

\* QueueMessage: which queue it is in, whose payment it carries, retryCount.
Msg == [queue : {"validation"}, txn : Txn, retry : 0 .. MaxRetry]
         \cup [queue : Worker \ {"validation"}, txn : Txn, retry : {0}]

ASSUME PipelineAssumption ==
    /\ ValidTxn \subseteq Txn
    /\ IsFiniteSet(Slot)
    /\ Home \in [Slot -> Replica]
    /\ MaxRate \in Nat \ {0}
    /\ MaxFaults \in Nat
    /\ None \notin Msg \cup Slot \cup Verdict

Status == {"PENDING", "VALIDATING", "FRAUD_CHECK", "PROCESSING", "APPROVED",
           "DECLINED", "CAPTURED", "SETTLED", "CANCELLED", "REFUNDED", "FAILED"}

-----------------------------------------------------------------------------
(* The transaction state machine *)

Transitions ==
    ({"PENDING"} \X {"VALIDATING", "CANCELLED", "FAILED"})
    \cup ({"VALIDATING"} \X {"FRAUD_CHECK", "FAILED"})
    \cup ({"FRAUD_CHECK"} \X {"PROCESSING", "DECLINED", "FAILED"})
    \cup ({"PROCESSING"} \X {"APPROVED", "DECLINED", "FAILED"})
    \cup ({"APPROVED"} \X {"CAPTURED", "FAILED", "REFUNDED"})
    \cup ({"CAPTURED"} \X {"SETTLED", "FAILED", "REFUNDED"})
    \cup ({"SETTLED", "FAILED", "DECLINED"} \X {"REFUNDED"})
    \cup {<<"FAILED", "FAILED">>}

CanMove(from, to) == from = to \/ <<from, to>> \in Transitions

-----------------------------------------------------------------------------
(* What each worker checks, stores and publishes *)

\* Mutant: the validation worker forwards message.data, not updatedTransaction.
SnapshotStale(q) ==
    CASE q \in {"validation", "fraud_check"} -> "PENDING"
      [] q = "processing"  -> "PROCESSING"
      [] q = "settlement"  -> "APPROVED"

\* message.data.status in the messages of each queue.
Snapshot(q) ==
    CASE q = "validation"  -> "PENDING"
      [] q = "fraud_check" -> "FRAUD_CHECK"
      [] q = "processing"  -> "PROCESSING"
      [] q = "settlement"  -> "APPROVED"

\* Mutant: settlement asks for SETTLED, which APPROVED does not lead to.
GuardedSettled(q) ==
    CASE q = "validation"  -> "VALIDATING"
      [] q = "fraud_check" -> "FRAUD_CHECK"
      [] q = "processing"  -> "PROCESSING"
      [] q = "settlement"  -> "SETTLED"

\* The target each worker asks the state machine for before an accept branch.
Guarded(q) ==
    CASE q = "validation"  -> "VALIDATING"
      [] q = "fraud_check" -> "FRAUD_CHECK"
      [] q = "processing"  -> "PROCESSING"
      [] q = "settlement"  -> "CAPTURED"

\* Mutant: settlement stores the status it asked the state machine for.
WrittenCaptured(q, v) ==
    CASE q = "validation"  -> IF v = "accept" THEN "FRAUD_CHECK" ELSE "FAILED"
      [] q = "fraud_check" -> IF v = "accept" THEN "PROCESSING" ELSE "DECLINED"
      [] q = "processing"  -> IF v = "accept" THEN "APPROVED" ELSE "DECLINED"
      [] q = "settlement"  -> "CAPTURED"

\* Mutant: the processing worker stores APPROVED whatever the acquirer said.
WrittenApproved(q, v) ==
    CASE q = "validation"  -> IF v = "accept" THEN "FRAUD_CHECK" ELSE "FAILED"
      [] q = "fraud_check" -> IF v = "accept" THEN "PROCESSING" ELSE "DECLINED"
      [] q = "processing"  -> "APPROVED"
      [] q = "settlement"  -> "SETTLED"

\* The status each worker writes to Redis.
Written(q, v) ==
    CASE q = "validation"  -> IF v = "accept" THEN "FRAUD_CHECK" ELSE "FAILED"
      [] q = "fraud_check" -> IF v = "accept" THEN "PROCESSING" ELSE "DECLINED"
      [] q = "processing"  -> IF v = "accept" THEN "APPROVED" ELSE "DECLINED"
      [] q = "settlement"  -> "SETTLED"

\* The exhausted validation retries that go to payment.validation.dlq.
Buries(m, v) ==
    m.queue = "validation" /\ v = "reject" /\ m.retry >= MaxRetry

\* The message a worker publishes to the next (or the same) queue.
Successor(m, v) ==
    CASE m.queue = "validation" /\ v = "reject" -> [m EXCEPT !.retry = @ + 1]
      [] m.queue = "validation" /\ v = "accept" ->
             [queue |-> "fraud_check", txn |-> m.txn, retry |-> 0]
      [] m.queue = "fraud_check" -> [queue |-> "processing", txn |-> m.txn, retry |-> 0]
      [] m.queue = "processing"  -> [queue |-> "settlement", txn |-> m.txn, retry |-> 0]

\* Branches that end a payment: nothing is published.
Terminal(q, v) ==
    q = "settlement" \/ (q \in {"fraud_check", "processing"} /\ v = "reject")

\* Mutant: the refused branches fall through to the publish.
AfterStoreFallsThrough(q, v) == IF q = "settlement" THEN "notify" ELSE "publish"

\* Mutant: the fraud-check worker acknowledges before it publishes.
AfterStoreAcks(q, v) ==
    CASE q = "fraud_check" -> "ack"
      [] q # "fraud_check" /\ ~Terminal(q, v) -> "publish"
      [] OTHER             -> "notify"

\* Where a handler goes on after its setTransaction was answered.
AfterStore(q, v) ==
    IF ~Terminal(q, v) THEN "publish"
    ELSE IF q = "fraud_check" THEN "ack" ELSE "notify"

-----------------------------------------------------------------------------

VARIABLES
    ready,       \* messages in the queues, as a bag
    dead,        \* payments in payment.validation.dlq
    pc,          \* where the handler in a slot waits
    msg,         \* the delivery it handles
    verdict,     \* the branch it took
    held,        \* the broker counts the delivery as unacknowledged
    conn,        \* commands each replica's Redis client has outstanding
    store,       \* the status under txn:<id>
    fraudCache,  \* the decision under fraud:<id>
    link,        \* a replica: "open" consuming, "deaf" channel lost, "down"
    used,        \* requestCount of the current throttling window
    cleared, charges, settled,  \* what the outside world was asked for
    closed,      \* payments acknowledged at the end of the pipeline
    faults       \* environment faults so far

handlers == <<pc, msg, verdict, held>>
redis    == <<conn, store, fraudCache>>
ledger   == <<cleared, charges, settled>>
vars     == <<ready, dead, handlers, redis, link, used, ledger, closed, faults>>

PC == {"idle", "fraudGet", "fraudCall", "fraudCache", "acquirer", "settle",
       "store", "publish", "notify", "ack", "nack"}

\* A Redis command, with the handler that awaits its reply, if any still does.
Cmd == [op : {"set"}, txn : Txn, val : Status, by : Slot \cup {None}]
         \cup [op : {"get"}, txn : Txn, val : {None}, by : Slot \cup {None}]
         \cup [op : {"cache"}, txn : Txn, val : Verdict, by : Slot \cup {None}]

\* Mutant: every decision is cached as an approval.
CacheApproval(t, v, s) == [op |-> "cache", txn |-> t, val |-> "accept", by |-> s]

Set(t, st, s)  == [op |-> "set", txn |-> t, val |-> st, by |-> s]
Get(t, s)      == [op |-> "get", txn |-> t, val |-> None, by |-> s]
Cache(t, v, s) == [op |-> "cache", txn |-> t, val |-> v, by |-> s]

Init ==
    /\ ready = [m \in Msg |-> IF m.queue = "validation" /\ m.retry = 0 THEN 1 ELSE 0]
    /\ dead = {}
    /\ pc = [s \in Slot |-> "idle"]
    /\ msg = [s \in Slot |-> None]
    /\ verdict = [s \in Slot |-> None]
    /\ held = [s \in Slot |-> FALSE]
    /\ conn = [r \in Replica |-> <<>>]
    /\ store = [t \in Txn |-> "NONE"]
    /\ fraudCache = [t \in Txn |-> None]
    /\ link = [r \in Replica |-> "open"]
    /\ used = [r \in Replica |-> 0]
    /\ cleared = {}
    /\ charges = [t \in Txn |-> 0]
    /\ settled = {}
    /\ closed = {}
    /\ faults = 0

-----------------------------------------------------------------------------
(* Steps the handlers are made of *)

\* The broker delivers m to the idle credit s of a consuming replica.
Take(s, m) ==
    /\ pc[s] = "idle"
    /\ link[Home[s]] = "open"
    /\ ready[m] > 0
    /\ ready' = [ready EXCEPT ![m] = @ - 1]
    /\ msg' = [msg EXCEPT ![s] = m]
    /\ held' = [held EXCEPT ![s] = TRUE]

\* The handler in s learns verdict v on m: it throws when the state machine
\* refuses the move, else it issues its setTransaction behind the commands q.
Decide(s, m, v, q) ==
    /\ verdict' = [verdict EXCEPT ![s] = v]
    /\ IF v = "accept" /\ ~CanMove(Snapshot(m.queue), Guarded(m.queue))
       THEN /\ pc' = [pc EXCEPT ![s] = "nack"]
            /\ conn' = [conn EXCEPT ![Home[s]] = q]
       ELSE /\ pc' = [pc EXCEPT ![s] = "store"]
            /\ conn' = [conn EXCEPT ![Home[s]] =
                            Append(q, Set(m.txn, Written(m.queue, v), s))]

\* The handler in s is over.
Release(s) ==
    /\ pc' = [pc EXCEPT ![s] = "idle"]
    /\ msg' = [msg EXCEPT ![s] = None]
    /\ verdict' = [verdict EXCEPT ![s] = None]
    /\ held' = [held EXCEPT ![s] = FALSE]

-----------------------------------------------------------------------------
(* Deliveries *)

Validated(t) == IF t \in ValidTxn THEN "accept" ELSE "reject"

DeliverValidation(s, m) ==
    /\ m.queue = "validation"
    /\ Take(s, m)
    /\ Decide(s, m, Validated(m.txn), conn[Home[s]])
    /\ UNCHANGED <<dead, store, fraudCache, link, used, ledger, closed, faults>>

DeliverFraudCheck(s, m) ==
    /\ m.queue = "fraud_check"
    /\ Take(s, m)
    /\ pc' = [pc EXCEPT ![s] = "fraudGet"]
    /\ conn' = [conn EXCEPT ![Home[s]] = Append(@, Get(m.txn, s))]
    /\ UNCHANGED <<dead, verdict, store, fraudCache, link, used, ledger, closed, faults>>

\* checkThrottle admits the first MaxRate deliveries of a window.
Admits(r) == used[r] < MaxRate

DeliverProcessing(s, m) ==
    /\ m.queue = "processing"
    /\ Admits(Home[s])
    /\ used' = [used EXCEPT ![Home[s]] = @ + 1]
    /\ Take(s, m)
    /\ pc' = [pc EXCEPT ![s] = "acquirer"]
    /\ UNCHANGED <<dead, verdict, redis, link, ledger, closed, faults>>

\* A delivery over the limit is put back in the same callback.
Throttle(s, m) ==
    /\ m.queue = "processing"
    /\ pc[s] = "idle"
    /\ link[Home[s]] = "open"
    /\ ready[m] > 0
    /\ ~Admits(Home[s])
    /\ used' = [used EXCEPT ![Home[s]] = MaxRate + 1]
    /\ UNCHANGED <<ready, dead, handlers, redis, link, ledger, closed, faults>>

DeliverSettlement(s, m) ==
    /\ m.queue = "settlement"
    /\ Take(s, m)
    /\ pc' = [pc EXCEPT ![s] = "settle"]
    /\ UNCHANGED <<dead, verdict, redis, link, used, ledger, closed, faults>>

Deliver(s, m) ==
    \/ DeliverValidation(s, m)
    \/ DeliverFraudCheck(s, m)
    \/ DeliverProcessing(s, m)
    \/ DeliverSettlement(s, m)

-----------------------------------------------------------------------------
(* Redis answers the commands of one client in the order they were issued *)

Outstanding(r, op) == conn[r] # <<>> /\ Head(conn[r]).op = op

StoreReply(r) ==
    /\ Outstanding(r, "set")
    /\ LET c == Head(conn[r]) IN
         /\ store' = [store EXCEPT ![c.txn] = c.val]
         /\ pc' = IF c.by = None THEN pc
                  ELSE [pc EXCEPT ![c.by] = AfterStore(msg[c.by].queue, verdict[c.by])]
    /\ conn' = [conn EXCEPT ![r] = Tail(@)]
    /\ UNCHANGED <<ready, dead, msg, verdict, held, fraudCache, link, used,
                   ledger, closed, faults>>

\* getFraudResult: a cached decision is used as it is.
FraudLookupReply(r) ==
    /\ Outstanding(r, "get")
    /\ LET c == Head(conn[r]) IN
       \/ /\ c.by = None
          /\ conn' = [conn EXCEPT ![r] = Tail(@)]
          /\ UNCHANGED <<pc, verdict>>
       \/ /\ c.by # None /\ fraudCache[c.txn] = None
          /\ pc' = [pc EXCEPT ![c.by] = "fraudCall"]
          /\ conn' = [conn EXCEPT ![r] = Tail(@)]
          /\ UNCHANGED verdict
       \/ /\ c.by # None /\ fraudCache[c.txn] # None
          /\ Decide(c.by, msg[c.by], fraudCache[c.txn], Tail(conn[r]))
    /\ UNCHANGED <<ready, dead, msg, held, store, fraudCache, link, used,
                   ledger, closed, faults>>

FraudCacheReply(r) ==
    /\ Outstanding(r, "cache")
    /\ LET c == Head(conn[r]) IN
         /\ fraudCache' = [fraudCache EXCEPT ![c.txn] = c.val]
         /\ IF c.by # None THEN Decide(c.by, msg[c.by], c.val, Tail(conn[r]))
            ELSE conn' = [conn EXCEPT ![r] = Tail(@)] /\ UNCHANGED <<pc, verdict>>
    /\ UNCHANGED <<ready, dead, msg, held, store, link, used, ledger, closed, faults>>

RedisReply(r) == StoreReply(r) \/ FraudLookupReply(r) \/ FraudCacheReply(r)

-----------------------------------------------------------------------------
(* The outside world answers *)

FraudServiceAnswers(s, v) ==
    /\ pc[s] = "fraudCall"
    /\ cleared' = IF v = "accept" THEN cleared \cup {msg[s].txn} ELSE cleared
    /\ pc' = [pc EXCEPT ![s] = "fraudCache"]
    /\ conn' = [conn EXCEPT ![Home[s]] = Append(@, Cache(msg[s].txn, v, s))]
    /\ UNCHANGED <<ready, dead, msg, verdict, held, store, fraudCache, link, used,
                   charges, settled, closed, faults>>

AcquirerAnswers(s, v) ==
    /\ pc[s] = "acquirer"
    /\ charges' = IF v = "accept" THEN [charges EXCEPT ![msg[s].txn] = @ + 1]
                  ELSE charges
    /\ Decide(s, msg[s], v, conn[Home[s]])
    /\ UNCHANGED <<ready, dead, msg, held, store, fraudCache, link, used,
                   cleared, settled, closed, faults>>

\* processSettlement reports settled whether the service answered or not.
SettlementAnswers(s) ==
    /\ pc[s] = "settle"
    /\ settled' = settled \cup {msg[s].txn}
    /\ Decide(s, msg[s], "accept", conn[Home[s]])
    /\ UNCHANGED <<ready, dead, msg, held, store, fraudCache, link, used,
                   cleared, charges, closed, faults>>

-----------------------------------------------------------------------------
(* The end of a handler *)

\* publish: the broker takes the message only from a channel it still knows.
Publish(s) ==
    IF ~held[s] THEN UNCHANGED <<ready, dead>>
    ELSE IF Buries(msg[s], verdict[s])
         THEN dead' = dead \cup {msg[s].txn} /\ UNCHANGED ready
         ELSE /\ ready' = [ready EXCEPT ![Successor(msg[s], verdict[s])] = @ + 1]
              /\ UNCHANGED dead

\* The validation worker's last statement stores FAILED whatever the branch
\* was, and awaits nothing.
Trailing(m, q) ==
    IF m.queue = "validation" THEN Append(q, Set(m.txn, "FAILED", None)) ELSE q

\* Mutant: the processing worker requeues what it has passed on.
AfterPublishNack(q) == IF q = "processing" THEN "nack" ELSE "ack"

AfterPublish(q) == IF q = "processing" THEN "notify" ELSE "ack"

Forward(s) ==
    /\ pc[s] = "publish"
    /\ Publish(s)
    /\ conn' = [conn EXCEPT ![Home[s]] = Trailing(msg[s], @)]
    /\ pc' = [pc EXCEPT ![s] = AfterPublish(msg[s].queue)]
    /\ UNCHANGED <<msg, verdict, held, store, fraudCache, link, used, ledger, closed, faults>>

\* On a closed channel publish throws, and so does the nack in the catch block.
ForwardThrows(s) ==
    /\ pc[s] = "publish"
    /\ link[Home[s]] # "open"
    /\ Release(s)
    /\ UNCHANGED <<ready, dead, redis, link, used, ledger, closed, faults>>

\* The notification's failure is logged and swallowed.
Notify(s) ==
    /\ pc[s] = "notify"
    /\ pc' = [pc EXCEPT ![s] = "ack"]
    /\ UNCHANGED <<ready, dead, msg, verdict, held, redis, link, used, ledger, closed, faults>>

Ack(s) ==
    /\ pc[s] = "ack"
    /\ closed' = IF held[s] /\ Terminal(msg[s].queue, verdict[s])
                 THEN closed \cup {msg[s].txn} ELSE closed
    /\ Release(s)
    /\ UNCHANGED <<ready, dead, redis, link, used, ledger, faults>>

\* nack(msg, false, true): the message returns to its queue, uncounted.
Nack(s) ==
    /\ pc[s] = "nack"
    /\ ready' = IF held[s] THEN [ready EXCEPT ![msg[s]] = @ + 1] ELSE ready
    /\ Release(s)
    /\ UNCHANGED <<dead, redis, link, used, ledger, closed, faults>>

-----------------------------------------------------------------------------
(* Faults of the environment; together at most MaxFaults *)

Fault == faults < MaxFaults /\ faults' = faults + 1

\* The slots of r whose delivery the broker has not seen acknowledged.
Unacked(r, m) == {s \in Slot : Home[s] = r /\ held[s] /\ msg[s] = m}

\* The broker puts back what a lost channel had not acknowledged.
Requeued(r) == [m \in Msg |-> ready[m] + Cardinality(Unacked(r, m))]

OnReplica(r, f, x) == [s \in Slot |-> IF Home[s] = r THEN x ELSE f[s]]

\* The first n commands outstanding on r have reached Redis, which carries them
\* out, although nobody waits for the replies any more.
Orphaned(r, n) == [i \in 1 .. n |-> [conn[r][i] EXCEPT !.by = None]]

\* The process dies (also: the end of shutdown()).
Crash(r) ==
    /\ link[r] # "down"
    /\ Fault
    /\ ready' = Requeued(r)
    /\ pc' = OnReplica(r, pc, "idle")
    /\ msg' = OnReplica(r, msg, None)
    /\ verdict' = OnReplica(r, verdict, None)
    /\ held' = OnReplica(r, held, FALSE)
    /\ \E n \in 0 .. Len(conn[r]) : conn' = [conn EXCEPT ![r] = Orphaned(r, n)]
    /\ used' = [used EXCEPT ![r] = 0]
    /\ link' = [link EXCEPT ![r] = "down"]
    /\ UNCHANGED <<dead, store, fraudCache, ledger, closed>>

\* main() runs again: it connects, creates the channel, starts the consumers.
Restart(r) ==
    /\ link[r] = "down"
    /\ link' = [link EXCEPT ![r] = "open"]
    /\ UNCHANGED <<ready, dead, handlers, redis, used, ledger, closed, faults>>

\* The AMQP connection closes.  The close handler reconnects, but neither the
\* channel nor its consumers come back; handlers under way keep running.
Disconnect(r) ==
    /\ link[r] = "open"
    /\ Fault
    /\ ready' = Requeued(r)
    /\ held' = OnReplica(r, held, FALSE)
    /\ link' = [link EXCEPT ![r] = "deaf"]
    /\ UNCHANGED <<dead, pc, msg, verdict, redis, used, ledger, closed>>

\* Redis answers a command with an error: its await throws.
RedisRefuses(r) ==
    /\ conn[r] # <<>>
    /\ Fault
    /\ LET c == Head(conn[r]) IN
         pc' = IF c.by = None THEN pc ELSE [pc EXCEPT ![c.by] = "nack"]
    /\ conn' = [conn EXCEPT ![r] = Tail(@)]
    /\ UNCHANGED <<ready, dead, msg, verdict, held, store, fraudCache, link, used, ledger, closed>>

\* The handlers that await a reply from the client of r.
Awaiters(r) == {conn[r][i].by : i \in DOMAIN conn[r]} \ {None}

\* The client gives up (maxRetriesPerRequest): all it has outstanding throws.
RedisRejects(r) ==
    /\ conn[r] # <<>>
    /\ Fault
    /\ pc' = [s \in Slot |-> IF s \in Awaiters(r) THEN "nack" ELSE pc[s]]
    /\ \E n \in 0 .. Len(conn[r]) : conn' = [conn EXCEPT ![r] = Orphaned(r, n)]
    /\ UNCHANGED <<ready, dead, msg, verdict, held, store, fraudCache, link, used, ledger, closed>>

\* The replies are lost with the connection; the client sends everything again.
RedisResends(r) ==
    /\ conn[r] # <<>>
    /\ Fault
    /\ \E n \in 1 .. Len(conn[r]) : conn' = [conn EXCEPT ![r] = Orphaned(r, n) \o @]
    /\ UNCHANGED <<ready, dead, handlers, store, fraudCache, link, used, ledger, closed>>

\* The hour of cacheFraudResult's TTL passes.
FraudResultExpires(t) ==
    /\ fraudCache[t] # None
    /\ Fault
    /\ fraudCache' = [fraudCache EXCEPT ![t] = None]
    /\ UNCHANGED <<ready, dead, handlers, conn, store, link, used, ledger, closed>>

\* The second of the throttling window passes.
WindowElapses(r) ==
    /\ used[r] > 0
    /\ used' = [used EXCEPT ![r] = 0]
    /\ UNCHANGED <<ready, dead, handlers, redis, link, ledger, closed, faults>>

-----------------------------------------------------------------------------

HandlerStep(s) ==
    \/ \E v \in Verdict : FraudServiceAnswers(s, v) \/ AcquirerAnswers(s, v)
    \/ SettlementAnswers(s)
    \/ Forward(s)
    \/ ForwardThrows(s)
    \/ Notify(s)
    \/ Ack(s)
    \/ Nack(s)

Next ==
    \/ \E s \in Slot, m \in Msg : Deliver(s, m) \/ Throttle(s, m)
    \/ \E s \in Slot : HandlerStep(s)
    \/ \E r \in Replica : RedisReply(r) \/ Restart(r) \/ WindowElapses(r)
    \/ \E r \in Replica : Crash(r) \/ Disconnect(r)
    \/ \E r \in Replica : RedisRefuses(r) \/ RedisRejects(r) \/ RedisResends(r)
    \/ \E t \in Txn : FraudResultExpires(t)

Spec == Init /\ [][Next]_vars

\* The event loop runs every continuation, Redis and the services answer, the
\* orchestrator restarts a dead pod, time passes, and a queue serves its
\* messages in order: one that is ready whenever a credit is free is delivered.
Fairness ==
    /\ \A s \in Slot : WF_vars(HandlerStep(s))
    /\ \A r \in Replica : /\ WF_vars(RedisReply(r))
                          /\ WF_vars(Restart(r))
                          /\ WF_vars(WindowElapses(r))
    /\ \A t \in Txn : SF_vars(\E s \in Slot, m \in Msg : m.txn = t /\ Deliver(s, m))

FairSpec == Spec /\ Fairness

-----------------------------------------------------------------------------
(* Properties *)

\* Every variable keeps its type: in particular a throttling window never
\* counts beyond one rejected request and no queue holds an unknown message.
TypeOK ==
    /\ ready \in [Msg -> Nat]
    /\ dead \in SUBSET Txn
    /\ pc \in [Slot -> PC]
    /\ msg \in [Slot -> Msg \cup {None}]
    /\ verdict \in [Slot -> Verdict \cup {None}]
    /\ held \in [Slot -> BOOLEAN]
    /\ conn \in [Replica -> Seq(Cmd)]
    /\ store \in [Txn -> Status \cup {"NONE"}]
    /\ fraudCache \in [Txn -> Verdict \cup {None}]
    /\ link \in [Replica -> {"open", "deaf", "down"}]
    /\ used \in [Replica -> 0 .. MaxRate + 1]
    /\ cleared \in SUBSET Txn
    /\ charges \in [Txn -> Nat]
    /\ settled \in SUBSET Txn
    /\ closed \in SUBSET Txn
    /\ faults \in 0 .. MaxFaults

\* The pipeline implements the abstract lifecycle: charges, settlements and
\* stored statuses only ever appear after the steps that justify them, with
\* any interleaving, redelivery, stale handler, lost reply or repeated command.
Lifecycle == INSTANCE PaymentLifecycle
ImplementsLifecycle == Lifecycle!Spec
MilestonesInOrder == Lifecycle!MilestonesInOrder
StoreTellsNoLie == Lifecycle!StoreTellsNoLie

\* A handler still answers for its message until it has passed it on.
Answers(s) ==
    held[s] /\ (pc[s] \in {"notify", "ack"} => Terminal(msg[s].queue, verdict[s]))

\* At-least-once: a payment that is neither closed nor in the dead-letter
\* queue is in a queue, or in the hands of a handler whose death puts it back.
NoPaymentLost ==
    \A t \in Txn \ (dead \cup closed) :
        \/ \E m \in Msg : m.txn = t /\ ready[m] > 0
        \/ \E s \in Slot : msg[s] # None /\ msg[s].txn = t /\ Answers(s)

\* The workers have no idempotency guard, so a fault may have each stage redo
\* what it had passed on but not acknowledged, but nothing else may: without a
\* fault the acquirer grants at most one authorisation, and after f faults at
\* most (f + 1)(f + 2)(f + 3) / 6, one factor for each stage up to the charge.
ChargesBounded ==
    \A t \in Txn : 6 * charges[t] <= (faults + 1) * (faults + 2) * (faults + 3)

Quiet ==
    /\ \A m \in Msg : ready[m] = 0
    /\ \A s \in Slot : pc[s] = "idle"
    /\ \A r \in Replica : conn[r] = <<>>

\* Once everything has come to rest, Redis holds the outcome of each payment.
QuietStoreIsOutcome ==
    Quiet => \A t \in Txn :
        store[t] = IF t \in dead THEN "FAILED"
                   ELSE IF t \in settled THEN "SETTLED" ELSE "DECLINED"

\* The state diagram's final state: a payment stored as SETTLED stays SETTLED,
\* until it is refunded.
SettledIsFinal ==
    [][\A t \in Txn :
           store[t] = "SETTLED" => store'[t] \in {"SETTLED", "REFUNDED"}]_store

\* Every payment reaches its end: settled, declined or dead-lettered.
PaymentsFinish == \A t \in Txn : <>(t \in dead \cup closed)

\* Finitely many faults are recovered from: no message circulates for ever.
PipelineDrains == <>[]Quiet
=============================================================================
