-------------------------- MODULE WebhookDelivery --------------------------
(***************************************************************************)
(* Webhook notifications of the payment gateway: one transaction of one    *)
(* replica, the registry of webhooks and the deliveries under way.  An     *)
(* operation starts its notification and does not wait for it; it goes     *)
(* through the webhooks it found one after another, each with its retries. *)
(* The payload holds the transaction object itself, so every attempt sends *)
(* what the transaction is by then.                                        *)
(*                                                                         *)
(* Operators carry the prefix Hook where the name alone might be taken.    *)
(***************************************************************************)
EXTENDS Naturals, Sequences, SequencesExt

CONSTANTS Hook,         \* webhooks that may be registered
          Subscribed,   \* the events each is registered for
          MaxRetries,   \* MAX_RETRIES
          MaxDeletes    \* bound: deletions and restarts together

Event == {"created", "captured", "cancelled", "refunded"}

ASSUME HookAssumption ==
    /\ Subscribed \in [Hook -> SUBSET Event]
    /\ MaxRetries \in Nat \ {0}
    /\ MaxDeletes \in Nat

VARIABLES
    txnStatus,    \* status of the transaction, "NONE" where it is not known
    registry,     \* the Map webhooks, in its order
    happened,     \* events so far
    queue,        \* webhooks each notification has still to serve
    attempt,      \* attempt of each notification at its first webhook
    body,         \* status in the request that awaits its answer, "none"
                  \* before the next attempt
    owed,         \* history: <<webhook, event>> found by a notification, until
                  \* the webhook has got it or failed MaxRetries times
    deletes       \* deletions and restarts so far

hookVars == <<txnStatus, registry, happened, queue, attempt, body, owed, deletes>>

HookInit ==
    /\ txnStatus = "NONE"
    /\ registry = <<>>
    /\ happened = {}
    /\ queue = [e \in Event |-> <<>>]
    /\ attempt = [e \in Event |-> 1]
    /\ body = [e \in Event |-> "none"]
    /\ owed = {}
    /\ deletes = 0

-----------------------------------------------------------------------------

RegisterWebhook(h) ==
    /\ ~Contains(registry, h)
    /\ registry' = Append(registry, h)
    /\ UNCHANGED <<txnStatus, happened, queue, attempt, body, owed, deletes>>

\* A notification under way keeps the webhooks it has found.
DeleteWebhook(h) ==
    /\ deletes < MaxDeletes
    /\ \E i \in DOMAIN registry : registry[i] = h /\ registry' = RemoveAt(registry, i)
    /\ deletes' = deletes + 1
    /\ UNCHANGED <<txnStatus, happened, queue, attempt, body, owed>>

\* The webhooks for an event, in the order of the registry.
Earlier(g, h) == \E i, j \in DOMAIN registry : i < j /\ registry[i] = g /\ registry[j] = h

RelevantWebhooks(e) ==
    {q \in BoundedSeq(ToSet(registry), Len(registry)) :
        /\ ToSet(q) = {h \in ToSet(registry) : e \in Subscribed[h]}
        /\ \A i, j \in DOMAIN q : i < j => Earlier(q[i], q[j])}

\* sendWebhookNotification up to its first await: the first request leaves at
\* once, with what the transaction is now.
SendWebhookNotification(e, now) ==
    \E relevant \in RelevantWebhooks(e) :
        /\ queue' = [queue EXCEPT ![e] = relevant]
        /\ attempt' = [attempt EXCEPT ![e] = 1]
        /\ body' = [body EXCEPT ![e] = IF relevant = <<>> THEN "none" ELSE now]
        /\ owed' = owed \cup {<<h, e>> : h \in ToSet(relevant)}
        /\ happened' = happened \cup {e}
        /\ UNCHANGED <<registry, deletes>>

\* The operations: the status they need, their event, what its first request
\* says and the status they leave.  The creation is authorised right after its
\* notification has started.
Operations ==
    {[from |-> "NONE", event |-> "created", says |-> "PENDING", to |-> "AUTHORIZED"],
     [from |-> "AUTHORIZED", event |-> "captured", says |-> "CAPTURED", to |-> "CAPTURED"],
     [from |-> "AUTHORIZED", event |-> "cancelled", says |-> "CANCELLED", to |-> "CANCELLED"],
     [from |-> "CAPTURED", event |-> "refunded", says |-> "REFUNDED", to |-> "REFUNDED"]}

\* A slip: notify before the status is set.
SaysOld(o) == o.from
Says(o) == o.says

\* Each once: a repeated cancellation of a cancelled transaction, which the code
\* allows, is left out.
Operate(o) ==
    /\ txnStatus = o.from
    /\ o.event \notin happened
    /\ txnStatus' = o.to
    /\ SendWebhookNotification(o.event, Says(o))

-----------------------------------------------------------------------------

\* The attempt at the first webhook fails for good: the next one's turn.
\* A slip: the error leaves the loop.
NextAfterLast(q) == <<>>
NextHook(q) == Tail(q)

\* A slip: a retry does not count.
SameAttempt(n) == n
NextAttempt(n) == n + 1

\* The next attempt, at the same webhook after its delay or at the next one.
Attempt(e) ==
    /\ queue[e] # <<>>
    /\ body[e] = "none"
    /\ body' = [body EXCEPT ![e] = txnStatus]
    /\ UNCHANGED <<txnStatus, registry, happened, queue, attempt, owed, deletes>>

Awaiting(e) == queue[e] # <<>> /\ body[e] # "none"

Delivered(e) ==
    /\ Awaiting(e)
    /\ owed' = owed \ {<<Head(queue[e]), e>>}
    /\ queue' = [queue EXCEPT ![e] = Tail(@)]
    /\ attempt' = [attempt EXCEPT ![e] = 1]
    /\ body' = [body EXCEPT ![e] = "none"]
    /\ UNCHANGED <<txnStatus, registry, happened, deletes>>

\* An error or no answer in 5 s; the webhook may have got it all the same.
Failed(e) ==
    /\ Awaiting(e)
    /\ body' = [body EXCEPT ![e] = "none"]
    /\ LET settled == owed \ {<<Head(queue[e]), e>>}
       IN IF attempt[e] < MaxRetries
          THEN /\ owed' \in {owed, settled}
               /\ attempt' = [attempt EXCEPT ![e] = NextAttempt(@)]
               /\ UNCHANGED queue
          ELSE /\ owed' = settled
               /\ attempt' = [attempt EXCEPT ![e] = 1]
               /\ queue' = [queue EXCEPT ![e] = NextHook(@)]
    /\ UNCHANGED <<txnStatus, registry, happened, deletes>>

\* Everything is in memory, the transaction too.
Restart ==
    /\ deletes < MaxDeletes
    /\ deletes' = deletes + 1
    /\ txnStatus' = "NONE"
    /\ registry' = <<>>
    /\ queue' = [e \in Event |-> <<>>]
    /\ attempt' = [e \in Event |-> 1]
    /\ body' = [e \in Event |-> "none"]
    /\ owed' = {}
    /\ UNCHANGED happened

HookStep(e) == Attempt(e) \/ Delivered(e) \/ Failed(e)

HookNext ==
    \/ \E h \in Hook : RegisterWebhook(h) \/ DeleteWebhook(h)
    \/ \E o \in Operations : Operate(o)
    \/ \E e \in Event : HookStep(e)
    \/ Restart

HookSpec == HookInit /\ [][HookNext]_hookVars

\* Timers fire, and a request ends with its timeout at the latest.
HookFairness == WF_hookVars(\E e \in Event : HookStep(e))

-----------------------------------------------------------------------------

Status == {"PENDING", "AUTHORIZED", "CAPTURED", "CANCELLED", "REFUNDED"}

HookTypeOK ==
    /\ txnStatus \in Status \cup {"NONE"}
    /\ registry \in Seq(Hook)
    /\ happened \subseteq Event
    /\ queue \in [Event -> Seq(Hook)]
    /\ attempt \in [Event -> 1 .. MaxRetries]
    /\ body \in [Event -> Status \cup {"none"}]
    /\ owed \subseteq Hook \X Event
    /\ deletes \in 0 .. MaxDeletes

\* What a request about an event may say of the transaction.
Later(e) ==
    CASE e = "created" -> Status
      [] e = "captured" -> {"CAPTURED", "REFUNDED"}
      [] e = "cancelled" -> {"CANCELLED"}
      [] OTHER -> {"REFUNDED"}

\* Until a restart every webhook that was registered for an event when it
\* happened, deleted since or not, gets it or fails MaxRetries times, and is in
\* line until then: no other webhook's failure takes its turn.  No request is
\* behind the event it is about, though it may be ahead of it.
ReceiversAreTold ==
    /\ \A w \in owed : Contains(queue[w[2]], w[1])
    /\ \A e \in Event : body[e] # "none" => body[e] \in Later(e)

\* Every notification has ended, however its webhooks answered.
NotificationsEnded == \A e \in Event : queue[e] = <<>>
=============================================================================
