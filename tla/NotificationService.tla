------------------------- MODULE NotificationService -------------------------
(***************************************************************************)
(* The notification service: replicas of one Node.js process consuming the *)
(* queue "notification_queue" and sending each event over the channels its *)
(* user prefers, with a rate limit per user and channel, retries, and a    *)
(* circuit breaker per webhook URL, all three in the process's memory.     *)
(*                                                                         *)
(* A handler takes one channel of its event per step; the code may take    *)
(* several between two awaits, so other handlers interleave more here.     *)
(***************************************************************************)
EXTENDS Integers, Sequences, FiniteSets

CONSTANTS Event,        \* the events published to the exchange
          Broken,       \* those whose handling throws: no JSON, no payload
          Wants,        \* the preferred channels an event has an address for
          User,         \* the user it is for, and so the webhook URL
          Limit,        \* config.rateLimit, per channel
          MaxAttempts,  \* config.retry.maxAttempts
          Threshold,    \* config.circuitBreaker.failureThreshold
          Replica,      \* notification-service pods
          Slot,         \* delivery credits (prefetch)
          Home,         \* the replica each slot belongs to
          MaxFaults,    \* bound on environment faults
          None          \* no message

Channel == {"email", "sms", "webhook"}
Users   == {User[e] : e \in Event}

\* A message with its x-retry-count.
Msg == [event : Event, retry : 0 .. MaxAttempts]

ASSUME NotificationAssumption ==
    /\ Broken \subseteq Event
    /\ Wants \in [Event -> Seq(Channel)]
    /\ \A e \in Event : \A i, j \in 1 .. Len(Wants[e]) : Wants[e][i] = Wants[e][j] => i = j
    /\ Limit \in [Channel -> Nat]
    /\ MaxAttempts \in Nat \ {0}
    /\ Threshold \in Nat \ {0}
    /\ IsFiniteSet(Slot)
    /\ Home \in [Slot -> Replica]
    /\ MaxFaults \in Nat
    /\ None \notin Msg

VARIABLES
    ready,     \* messages in notification_queue, as a bag
    pc,        \* where the handler in a slot waits
    msg,       \* the delivery it handles
    pos,       \* the channel it is at: position in Wants
    attempt,   \* the attempt it is at on that channel
    held,      \* the broker counts the delivery as unacknowledged
    link,      \* a replica: "open" consuming, "deaf" consumers lost, "down"
    used,      \* rateLimitMap: count in the current window
    failures,  \* circuitBreakers: failures per URL
    cooled,    \* the breakers whose reset timeout has passed
    acked,     \* events acknowledged after their channels were tried
    recorded,  \* notificationHistory of all replicas
    tries,     \* history: calls made to the provider of an event's channel
    faults     \* environment faults so far

handlers == <<pc, msg, pos, attempt, held>>
memory   == <<used, failures, cooled>>
vars     == <<ready, handlers, link, memory, acked, recorded, tries, faults>>

Init ==
    /\ ready = [m \in Msg |-> IF m.retry = 0 THEN 1 ELSE 0]
    /\ pc = [s \in Slot |-> "idle"]
    /\ msg = [s \in Slot |-> None]
    /\ pos = [s \in Slot |-> 1]
    /\ attempt = [s \in Slot |-> 1]
    /\ held = [s \in Slot |-> FALSE]
    /\ link = [r \in Replica |-> "open"]
    /\ used = [r \in Replica |-> [u \in Users |-> [c \in Channel |-> 0]]]
    /\ failures = [r \in Replica |-> [u \in Users |-> 0]]
    /\ cooled = {}
    /\ acked = {}
    /\ recorded = {}
    /\ tries = [e \in Event |-> [c \in Channel |-> 0]]
    /\ faults = 0

-----------------------------------------------------------------------------
(* Deliveries *)

Consumable(s, m) ==
    /\ pc[s] = "idle"
    /\ link[Home[s]] = "open"
    /\ ready[m] > 0

\* Mutant: the queue is consumed with noAck.
DeliverNoAck(s, m) ==
    /\ Consumable(s, m)
    /\ m.event \notin Broken
    /\ ready' = [ready EXCEPT ![m] = @ - 1]
    /\ pc' = [pc EXCEPT ![s] = "next"]
    /\ msg' = [msg EXCEPT ![s] = m]
    /\ UNCHANGED <<pos, attempt, held, link, memory, acked, recorded, tries, faults>>

Deliver(s, m) ==
    /\ Consumable(s, m)
    /\ m.event \notin Broken
    /\ ready' = [ready EXCEPT ![m] = @ - 1]
    /\ pc' = [pc EXCEPT ![s] = "next"]
    /\ msg' = [msg EXCEPT ![s] = m]
    /\ held' = [held EXCEPT ![s] = TRUE]
    /\ UNCHANGED <<pos, attempt, link, memory, acked, recorded, tries, faults>>

\* What the catch block publishes: the message with a greater retry count, or
\* to notification.dlq without headers, which the binding notification.* of
\* the service's own queue matches.
Republished(m) == [m EXCEPT !.retry = IF @ < MaxAttempts THEN @ + 1 ELSE 0]

\* A broken message is published again and acknowledged in the same callback.
DeliverBroken(s, m) ==
    /\ Consumable(s, m)
    /\ m.event \in Broken
    /\ ready' = [ready EXCEPT ![m] = @ - 1, ![Republished(m)] = @ + 1]
    /\ UNCHANGED <<handlers, link, memory, acked, recorded, tries, faults>>

-----------------------------------------------------------------------------
(* processNotification *)

Here(s) == Wants[msg[s].event][pos[s]]

\* Mutant: a notification that failed is not stored.
RecordSent(s, status) ==
    recorded' = IF status = "failed" THEN recorded
                ELSE recorded \cup {<<msg[s].event, Here(s), status>>}

\* storeSentNotification, storeFailedNotification.
Record(s, status) == recorded' = recorded \cup {<<msg[s].event, Here(s), status>>}

\* The loop goes on with the next channel.
Advance(s) ==
    /\ pc' = [pc EXCEPT ![s] = "next"]
    /\ pos' = [pos EXCEPT ![s] = @ + 1]
    /\ attempt' = [attempt EXCEPT ![s] = 1]

Try(s) == tries' = [tries EXCEPT ![msg[s].event][Here(s)] = @ + 1]

\* isCircuitOpen, without the reset.
Blocked(r, u) == failures[r][u] >= Threshold /\ <<r, u>> \notin cooled

\* The reset of a breaker whose timeout has passed.
Reset(r, u) ==
    IF <<r, u>> \in cooled
    THEN /\ failures' = [failures EXCEPT ![r][u] = 0]
         /\ cooled' = cooled \ {<<r, u>>}
    ELSE UNCHANGED <<failures, cooled>>

AtChannel(s) == pc[s] = "next" /\ pos[s] <= Len(Wants[msg[s].event])

\* The first send of a window is not held against the limit.
Allowed(s) ==
    LET count == used[Home[s]][User[msg[s].event]][Here(s)]
    IN count = 0 \/ count < Limit[Here(s)]

\* Mutant: the loop asks again instead of skipping the channel.
RateLimitedAgain(s) ==
    /\ AtChannel(s)
    /\ ~Allowed(s)
    /\ Record(s, "failed")
    /\ UNCHANGED <<ready, handlers, link, memory, acked, tries, faults>>

\* checkRateLimit refuses: the channel is skipped and recorded as failed.
RateLimited(s) ==
    /\ AtChannel(s)
    /\ ~Allowed(s)
    /\ Record(s, "failed")
    /\ Advance(s)
    /\ UNCHANGED <<ready, msg, held, link, memory, acked, tries, faults>>

\* A placeholder: the message is logged, which cannot fail.
SendSMS(s) == Record(s, "sent") /\ Try(s) /\ Advance(s)

\* checkRateLimit counts the send, and sendWithRetry starts.  A webhook may be
\* blocked by its breaker.
StartSend(s) ==
    LET r == Home[s] u == User[msg[s].event] IN
    /\ AtChannel(s)
    /\ Allowed(s)
    /\ used' = [used EXCEPT ![r][u][Here(s)] = @ + 1]
    /\ \/ /\ Here(s) = "sms"
          /\ SendSMS(s)
          /\ UNCHANGED <<failures, cooled>>
       \/ /\ Here(s) = "webhook"
          /\ Blocked(r, u)
          /\ Record(s, "failed")
          /\ Advance(s)
          /\ UNCHANGED <<failures, cooled, tries>>
       \/ /\ Here(s) = "email" \/ (Here(s) = "webhook" /\ ~Blocked(r, u))
          /\ pc' = [pc EXCEPT ![s] = "send"]
          /\ IF Here(s) = "webhook" THEN Reset(r, u) ELSE UNCHANGED <<failures, cooled>>
          /\ UNCHANGED <<pos, attempt, recorded, tries>>
    /\ UNCHANGED <<ready, msg, held, link, acked, faults>>

\* The mail server or the merchant's endpoint accepts the notification.
SendSucceeds(s) ==
    LET r == Home[s] u == User[msg[s].event] IN
    /\ pc[s] = "send"
    /\ Try(s)
    /\ Record(s, "sent")
    /\ Advance(s)
    /\ IF Here(s) = "webhook"
       THEN /\ failures' = [failures EXCEPT ![r][u] = 0]
            /\ cooled' = cooled \ {<<r, u>>}
       ELSE UNCHANGED <<failures, cooled>>
    /\ UNCHANGED <<ready, msg, held, link, used, acked, faults>>

\* recordFailure; beyond the threshold the count no longer matters.
RecordFailure(r, u) ==
    /\ failures' = [failures EXCEPT ![r][u] = IF @ < Threshold THEN @ + 1 ELSE @]
    /\ cooled' = cooled \ {<<r, u>>}

\* Mutant: one attempt too many.
RetriesOnceMore(n) == n <= MaxAttempts

Retries(n) == n < MaxAttempts

\* An attempt fails: after a delay there is another, or the channel is given up.
SendFails(s) ==
    /\ pc[s] = "send"
    /\ Try(s)
    /\ IF Retries(attempt[s])
       THEN /\ attempt' = [attempt EXCEPT ![s] = @ + 1]
            /\ UNCHANGED <<pc, pos, recorded, failures, cooled>>
       ELSE /\ Record(s, "failed")
            /\ Advance(s)
            /\ IF Here(s) = "webhook" THEN RecordFailure(Home[s], User[msg[s].event])
               ELSE UNCHANGED <<failures, cooled>>
    /\ UNCHANGED <<ready, msg, held, link, used, acked, faults>>

\* The handler in s is over.
Release(s) ==
    /\ pc' = [pc EXCEPT ![s] = "idle"]
    /\ msg' = [msg EXCEPT ![s] = None]
    /\ pos' = [pos EXCEPT ![s] = 1]
    /\ held' = [held EXCEPT ![s] = FALSE]

\* channel.ack.  On a closed channel it throws, and so does the publish in the
\* catch block: the handler ends without effect.
Ack(s) ==
    /\ pc[s] = "next"
    /\ pos[s] > Len(Wants[msg[s].event])
    /\ acked' = IF held[s] THEN acked \cup {msg[s].event} ELSE acked
    /\ Release(s)
    /\ UNCHANGED <<ready, attempt, link, memory, recorded, tries, faults>>

-----------------------------------------------------------------------------
(* Time *)

WindowElapses(r, u, c) ==
    /\ used[r][u][c] > 0
    /\ used' = [used EXCEPT ![r][u][c] = 0]
    /\ UNCHANGED <<ready, handlers, link, failures, cooled, acked, recorded, tries, faults>>

BreakerCools(r, u) ==
    /\ failures[r][u] >= Threshold
    /\ <<r, u>> \notin cooled
    /\ cooled' = cooled \cup {<<r, u>>}
    /\ UNCHANGED <<ready, handlers, link, used, failures, acked, recorded, tries, faults>>

-----------------------------------------------------------------------------
(* Faults of the environment; together at most MaxFaults *)

Fault == faults < MaxFaults /\ faults' = faults + 1

Unacked(r, m) == {s \in Slot : Home[s] = r /\ held[s] /\ msg[s] = m}

Requeued(r) == [m \in Msg |-> ready[m] + Cardinality(Unacked(r, m))]

OnReplica(r, f, x) == [s \in Slot |-> IF Home[s] = r THEN x ELSE f[s]]

\* The process dies (also: the end of shutdown()).
Crash(r) ==
    /\ link[r] # "down"
    /\ Fault
    /\ ready' = Requeued(r)
    /\ pc' = OnReplica(r, pc, "idle")
    /\ msg' = OnReplica(r, msg, None)
    /\ pos' = OnReplica(r, pos, 1)
    /\ attempt' = OnReplica(r, attempt, 1)
    /\ held' = OnReplica(r, held, FALSE)
    /\ used' = [used EXCEPT ![r] = [u \in Users |-> [c \in Channel |-> 0]]]
    /\ failures' = [failures EXCEPT ![r] = [u \in Users |-> 0]]
    /\ cooled' = {b \in cooled : b[1] # r}
    /\ link' = [link EXCEPT ![r] = "down"]
    /\ UNCHANGED <<acked, recorded, tries>>

Restart(r) ==
    /\ link[r] = "down"
    /\ link' = [link EXCEPT ![r] = "open"]
    /\ UNCHANGED <<ready, handlers, memory, acked, recorded, tries, faults>>

\* The AMQP connection closes.  connect() makes a new channel, but nothing
\* starts the consumers on it; handlers under way keep the old channel.
Disconnect(r) ==
    /\ link[r] = "open"
    /\ Fault
    /\ ready' = Requeued(r)
    /\ held' = OnReplica(r, held, FALSE)
    /\ link' = [link EXCEPT ![r] = "deaf"]
    /\ UNCHANGED <<pc, msg, pos, attempt, memory, acked, recorded, tries>>

-----------------------------------------------------------------------------

HandlerStep(s) ==
    RateLimited(s) \/ StartSend(s) \/ SendSucceeds(s) \/ SendFails(s) \/ Ack(s)

Consume(e) == \E s \in Slot, m \in Msg :
                  m.event = e /\ (Deliver(s, m) \/ DeliverBroken(s, m))

Next ==
    \/ \E e \in Event : Consume(e)
    \/ \E s \in Slot : HandlerStep(s)
    \/ \E r \in Replica :
           \/ Crash(r) \/ Restart(r) \/ Disconnect(r)
           \/ \E u \in Users :
                  BreakerCools(r, u) \/ \E c \in Channel : WindowElapses(r, u, c)

Spec == Init /\ [][Next]_vars

\* Every handler runs on: its calls answer, time out or fail.  A dead pod is
\* restarted, and the queue serves its messages in order.
Fairness ==
    /\ \A s \in Slot : WF_vars(HandlerStep(s))
    /\ \A r \in Replica : WF_vars(Restart(r))
    /\ \A e \in Event : SF_vars(Consume(e))

FairSpec == Spec /\ Fairness

-----------------------------------------------------------------------------
(* Properties *)

\* What a limit lets pass in one window.
Most(c) == IF Limit[c] = 0 THEN 1 ELSE Limit[c]

\* Every variable keeps its type, and no window lets more pass than it may.
TypeOK ==
    /\ ready \in [Msg -> Nat]
    /\ pc \in [Slot -> {"idle", "next", "send"}]
    /\ msg \in [Slot -> Msg \cup {None}]
    /\ pos \in [Slot -> Nat \ {0}]
    /\ attempt \in [Slot -> 1 .. MaxAttempts]
    /\ held \in [Slot -> BOOLEAN]
    /\ link \in [Replica -> {"open", "deaf", "down"}]
    /\ used \in [Replica -> [Users -> [Channel -> Nat]]]
    /\ \A r \in Replica, u \in Users, c \in Channel : used[r][u][c] <= Most(c)
    /\ failures \in [Replica -> [Users -> 0 .. Threshold]]
    /\ cooled \subseteq Replica \X Users
    /\ acked \subseteq Event \ Broken
    /\ recorded \subseteq Event \X Channel \X {"sent", "failed"}
    /\ tries \in [Event -> [Channel -> Nat]]
    /\ faults \in 0 .. MaxFaults

\* An acknowledged event has been answered for on every channel its user
\* wants: sent or recorded as failed, although channels may be rate-limited,
\* blocked by a breaker or out of attempts.
AckedIsRecorded ==
    \A e \in acked : \A i \in 1 .. Len(Wants[e]) :
        \E status \in {"sent", "failed"} : <<e, Wants[e][i], status>> \in recorded

\* No event is lost: until it is acknowledged it is in the queue, or with a
\* handler whose death puts it back.
NoEventLost ==
    \A e \in Event \ acked :
        \/ \E m \in Msg : m.event = e /\ ready[m] > 0
        \/ \E s \in Slot : held[s] /\ msg[s].event = e

\* The provider of a channel is called at most MaxAttempts times for an event,
\* and as often again for each fault that makes the broker redeliver it.
TriesBounded ==
    \A e \in Event, c \in Channel : tries[e][c] <= MaxAttempts * (1 + faults)

\* Every event that can be handled is, next to broken ones that circulate.
EventsHandled == \A e \in Event \ Broken : <>(e \in acked)

\* Exhausted messages end in the dead-letter queue: none circulates for ever.
BrokenLeave == \A e \in Broken : <>[](\A m \in Msg : m.event = e => ready[m] = 0)
=============================================================================
