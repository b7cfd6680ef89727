------------------------------- MODULE Gateway -------------------------------
(***************************************************************************)
(* The payment gateway: replicas of one Express process, each with its own *)
(* transactions in memory and its own Redis client, over the Redis cache   *)
(* of idempotency keys and the RabbitMQ queue "transactions".              *)
(*                                                                         *)
(* A request runs from one await to the next in one step.                  *)
(***************************************************************************)
EXTENDS Integers, Sequences

CONSTANTS Request,     \* the HTTP requests clients send
          Op,          \* the route each of them is for
          Key,         \* its idempotency-key header, or None
          Target,      \* the transaction it names, by the request creating it
          WellFormed,  \* the requests that authentication and validators pass
          Replica,     \* gateway pods
          MaxFaults,   \* bound on environment faults
          None         \* no key, no answer, no transaction, no replica

Creates == {q \in Request : Op[q] = "create"}

\* The status code of a response and the transaction in its body, if any.
Answer == [code : {200, 201}, txn : Creates]
              \cup [code : {400, 404, 409, 500}, txn : {None}]

ASSUME GatewayAssumption ==
    /\ Op \in [Request -> {"create", "capture", "cancel", "refund", "get"}]
    /\ Target \in [Request -> Creates]
    /\ \A q \in Creates : Target[q] = q
    /\ None \notin Request \cup Replica \cup Answer
    /\ MaxFaults \in Nat
    \* a client uses a key for one operation and its retries only
    /\ \A p, q \in Request :
           Key[p] = Key[q] /\ Key[p] # None =>
               /\ Op[p] = Op[q]
               /\ Op[p] # "create" => Target[p] = Target[q]

Keys   == {Key[q] : q \in Request} \ {None}
Status == {"PENDING", "AUTHORIZED", "CAPTURED", "CANCELLED", "REFUNDED", "FAILED"}

Ok(c, t) == [code |-> c, txn |-> t]
Error(c) == [code |-> c, txn |-> None]

\* GET requests pass the middleware by.
Keyed(q) == Key[q] # None /\ Op[q] # "get"

\* A Redis command: the middleware's lookup, or the answer it caches.
Cmd == [op : {"get"}, req : {q \in Request : Keyed(q)}]
           \cup [op : {"setex"}, key : Keys, val : Answer]

VARIABLES
    phase,        \* where the handler of a request waits
    at,           \* the replica that serves it
    wrapped,      \* its res.json also caches the answer
    answer,       \* the response
    transactions, \* each replica's Map: the status of each transaction
    queue,        \* the transactions in the queue "transactions"
    cache,        \* idempotency:<key> in Redis
    conn,         \* commands each replica's Redis client has outstanding
    up,           \* the replicas that run
    ran,          \* history: requests that got past the middleware
    heard,        \* history: requests of the same key answered before one came
    faults        \* environment faults so far

handlers == <<phase, at, wrapped, answer>>
vars == <<handlers, transactions, queue, cache, conn, up, ran, heard, faults>>

Phase == {"new", "lookup", "connect", "close", "done", "gone"}

Init ==
    /\ phase = [q \in Request |-> "new"]
    /\ at = [q \in Request |-> None]
    /\ wrapped = [q \in Request |-> FALSE]
    /\ answer = [q \in Request |-> None]
    /\ transactions = [r \in Replica |-> [t \in Creates |-> "NONE"]]
    /\ queue = {}
    /\ cache = [k \in Keys |-> None]
    /\ conn = [r \in Replica |-> <<>>]
    /\ up = Replica
    /\ ran = {}
    /\ heard = [q \in Request |-> {}]
    /\ faults = 0

-----------------------------------------------------------------------------
(* The middleware and the routes *)

\* Mutant: only successes are cached.
CachesSuccess(q, w, a) == w /\ Key[q] # None /\ a.code < 400

\* The wrapped res.json caches the answer, whatever it is.
Caches(q, w, a) == w

\* res.status(..).json(..): the setex is issued and not awaited.
Respond(q, r, a, cmds, w) ==
    /\ answer' = [answer EXCEPT ![q] = a]
    /\ phase' = [phase EXCEPT ![q] = "done"]
    /\ wrapped' = [wrapped EXCEPT ![q] = w]
    /\ conn' = [conn EXCEPT ![r] =
           IF Caches(q, w, a)
           THEN Append(cmds, [op |-> "setex", key |-> Key[q], val |-> a])
           ELSE cmds]

\* Mutant: a cancelled transaction may still be captured.
AllowsCapturedAnyway(op, st) ==
    CASE op = "capture" -> st \in {"AUTHORIZED", "CANCELLED"}
      [] op = "cancel"  -> st \notin {"CAPTURED", "REFUNDED"}
      [] op = "refund"  -> st = "CAPTURED"

\* The status checks of captureTransaction, cancelTransaction, refundTransaction.
Allows(op, st) ==
    CASE op = "capture" -> st = "AUTHORIZED"
      [] op = "cancel"  -> st \notin {"CAPTURED", "REFUNDED"}
      [] op = "refund"  -> st = "CAPTURED"

Becomes(op) ==
    CASE op = "capture" -> "CAPTURED"
      [] op = "cancel"  -> "CANCELLED"
      [] op = "refund"  -> "REFUNDED"

\* The routes on an existing transaction read this replica's Map only.
Operate(q, r, cmds, w) ==
    LET t == Target[q] st == transactions[r][t] IN
    IF st = "NONE"
    THEN Respond(q, r, Error(404), cmds, w) /\ UNCHANGED transactions
    ELSE IF Op[q] = "get"
    THEN Respond(q, r, Ok(200, t), cmds, w) /\ UNCHANGED transactions
    ELSE IF Allows(Op[q], st)
    THEN /\ Respond(q, r, Ok(200, t), cmds, w)
         /\ transactions' = [transactions EXCEPT ![r][t] = Becomes(Op[q])]
    ELSE Respond(q, r, Error(409), cmds, w) /\ UNCHANGED transactions

\* What validateTransaction says of a request depends on its body alone.
Passes(q) == q \in WellFormed

\* next(): authentication, validators and the route, up to its first await.
Proceed(q, r, cmds, w) ==
    /\ ran' = ran \cup {q}
    /\ CASE ~Passes(q) ->
                Respond(q, r, Error(400), cmds, w) /\ UNCHANGED transactions
         [] Passes(q) /\ Op[q] = "create" ->
                /\ phase' = [phase EXCEPT ![q] = "connect"]
                /\ wrapped' = [wrapped EXCEPT ![q] = w]
                /\ conn' = [conn EXCEPT ![r] = cmds]
                /\ UNCHANGED <<answer, transactions>>
         [] OTHER -> Operate(q, r, cmds, w)

\* A client learns a transaction's id from an answer to its creation.
Known(t) == \E q \in Creates : answer[q] = Ok(201, t)

Arrive(q, r) ==
    /\ phase[q] = "new"
    /\ r \in up
    /\ Op[q] # "create" => Known(Target[q])
    /\ at' = [at EXCEPT ![q] = r]
    /\ heard' = [heard EXCEPT ![q] =
           {p \in Request \ {q} : Keyed(q) /\ Key[p] = Key[q] /\ answer[p] # None}]
    /\ IF Keyed(q)
       THEN /\ phase' = [phase EXCEPT ![q] = "lookup"]
            /\ conn' = [conn EXCEPT ![r] = Append(@, [op |-> "get", req |-> q])]
            /\ UNCHANGED <<wrapped, answer, transactions, ran>>
       ELSE Proceed(q, r, conn[r], FALSE)
    /\ UNCHANGED <<queue, cache, up, faults>>

-----------------------------------------------------------------------------
(* Redis answers the commands of one client in the order they were issued *)

Outstanding(r, op) == conn[r] # <<>> /\ Head(conn[r]).op = op

\* A cached answer is replayed; a miss wraps res.json.  A lookup that a dead
\* process has left behind is answered to nobody.
LookupReply(r) ==
    /\ Outstanding(r, "get")
    /\ LET q == Head(conn[r]).req IN
       \/ /\ phase[q] = "lookup" /\ cache[Key[q]] = None
          /\ Proceed(q, r, Tail(conn[r]), TRUE)
       \/ /\ phase[q] = "lookup" /\ cache[Key[q]] # None
          /\ Respond(q, r, cache[Key[q]], Tail(conn[r]), FALSE)
          /\ UNCHANGED <<transactions, ran>>
       \/ /\ phase[q] = "gone"
          /\ conn' = [conn EXCEPT ![r] = Tail(@)]
          /\ UNCHANGED <<phase, wrapped, answer, transactions, ran>>
    /\ UNCHANGED <<at, queue, cache, up, heard, faults>>

CacheReply(r) ==
    /\ Outstanding(r, "setex")
    /\ cache' = [cache EXCEPT ![Head(conn[r]).key] = Head(conn[r]).val]
    /\ conn' = [conn EXCEPT ![r] = Tail(@)]
    /\ UNCHANGED <<handlers, transactions, queue, up, ran, heard, faults>>

RedisReply(r) == LookupReply(r) \/ CacheReply(r)

-----------------------------------------------------------------------------
(* createTransaction *)

\* Connection, channel and queue are there: sendToQueue, await channel.close().
Connected(q) ==
    /\ phase[q] = "connect"
    /\ phase' = [phase EXCEPT ![q] = "close"]
    /\ UNCHANGED <<at, wrapped, answer, transactions, queue, cache, conn, up,
                   ran, heard, faults>>

\* The broker reads the message off the socket.
BrokerAccepts(q) ==
    /\ phase[q] = "close"
    /\ q \notin queue
    /\ queue' = queue \cup {q}
    /\ UNCHANGED <<handlers, transactions, cache, conn, up, ran, heard, faults>>

Finish(q, st, a) ==
    /\ transactions' = [transactions EXCEPT ![at[q]][q] = st]
    /\ Respond(q, at[q], a, conn[at[q]], wrapped[q])
    /\ UNCHANGED <<at, queue, cache, up, ran, heard, faults>>

\* Mutant: the response does not wait for the channel to close.
ClosedSent(q) == TRUE

\* The broker confirms the close of a channel behind all it was sent.
ClosedBehind(q) == q \in queue

\* The transaction enters the Map and is authorized before the response.
Closed(q) ==
    /\ phase[q] = "close"
    /\ ClosedBehind(q)
    /\ Finish(q, "AUTHORIZED", Ok(201, q))

\* Some await of the connection throws, before or after the broker has the
\* message: the transaction enters the Map as FAILED.
BrokerFails(q) ==
    /\ phase[q] \in {"connect", "close"}
    /\ Finish(q, "FAILED", Error(500))

-----------------------------------------------------------------------------
(* Faults of the environment; together at most MaxFaults *)

Fault == faults < MaxFaults /\ faults' = faults + 1

\* Mutant: the middleware's catch block forgets next().
RejectsSilently(r) ==
    /\ conn[r] # <<>>
    /\ Fault
    /\ conn' = [conn EXCEPT ![r] = Tail(@)]
    /\ UNCHANGED <<handlers, transactions, queue, cache, up, ran, heard>>

\* The client gives up on a command: a lookup goes on without caching, a
\* setex is logged, and may have been applied all the same.
RedisRejects(r) ==
    /\ conn[r] # <<>>
    /\ Fault
    /\ LET c == Head(conn[r]) IN
       \/ /\ c.op = "get" /\ phase[c.req] = "lookup"
          /\ Proceed(c.req, r, Tail(conn[r]), FALSE)
          /\ UNCHANGED cache
       \/ /\ c.op = "setex"
          /\ cache' \in {cache, [cache EXCEPT ![c.key] = c.val]}
          /\ conn' = [conn EXCEPT ![r] = Tail(@)]
          /\ UNCHANGED <<phase, wrapped, answer, transactions, ran>>
    /\ UNCHANGED <<at, queue, up, heard>>

\* The day of a key passes, whatever its requests are doing.
KeyExpires(k) ==
    /\ cache[k] # None
    /\ Fault
    /\ cache' = [cache EXCEPT ![k] = None]
    /\ UNCHANGED <<handlers, transactions, queue, conn, up, ran, heard>>

\* The process dies with its Map (also: the end of gracefulShutdown).  Commands
\* that have reached Redis are still carried out.
Crash(r) ==
    /\ r \in up
    /\ Fault
    /\ up' = up \ {r}
    /\ phase' = [q \in Request |->
           IF at[q] = r /\ phase[q] # "done" THEN "gone" ELSE phase[q]]
    /\ transactions' = [transactions EXCEPT ![r] = [t \in Creates |-> "NONE"]]
    /\ \E n \in 0 .. Len(conn[r]) : conn' = [conn EXCEPT ![r] = SubSeq(@, 1, n)]
    /\ UNCHANGED <<at, wrapped, answer, queue, cache, ran, heard>>

Restart(r) ==
    /\ r \in Replica \ up
    /\ up' = up \cup {r}
    /\ UNCHANGED <<handlers, transactions, queue, cache, conn, ran, heard, faults>>

-----------------------------------------------------------------------------

Serve(q) == Connected(q) \/ BrokerAccepts(q) \/ Closed(q)

Next ==
    \/ \E q \in Request :
           \/ \E r \in Replica : Arrive(q, r)
           \/ Serve(q)
           \/ BrokerFails(q)
    \/ \E r \in Replica : RedisReply(r) \/ RedisRejects(r) \/ Crash(r) \/ Restart(r)
    \/ \E k \in Keys : KeyExpires(k)

Spec == Init /\ [][Next]_vars

\* The event loop runs every continuation; Redis and the broker answer.  No
\* client has to send anything, and no pod has to come back.
Fairness ==
    /\ \A q \in Request : WF_vars(Serve(q))
    /\ \A r \in Replica : WF_vars(RedisReply(r))

FairSpec == Spec /\ Fairness

-----------------------------------------------------------------------------
(* Properties *)

\* Every variable keeps its type.
TypeOK ==
    /\ phase \in [Request -> Phase]
    /\ at \in [Request -> Replica \cup {None}]
    /\ wrapped \in [Request -> BOOLEAN]
    /\ answer \in [Request -> Answer \cup {None}]
    /\ transactions \in [Replica -> [Creates -> Status \cup {"NONE"}]]
    /\ queue \in SUBSET Creates
    /\ cache \in [Keys -> Answer \cup {None}]
    /\ conn \in [Replica -> Seq(Cmd)]
    /\ up \in SUBSET Replica
    /\ ran \in SUBSET Request
    /\ heard \in [Request -> SUBSET Request]
    /\ faults \in 0 .. MaxFaults

\* A client told 201 can rely on its transaction being in the queue, although
\* the answer may be a replay from Redis, the replica that made it may be dead
\* and createTransaction uses no publisher confirms.
ConfirmedIsQueued ==
    \A q \in Creates, t \in Creates : answer[q] = Ok(201, t) => t \in queue

\* No answer on its way to a client or to the cache is ahead of the queue.
Backed(a) == a # None /\ a.code = 201 => a.txn \in queue

BackedCmd == {c \in Cmd : /\ c.op = "setex" => Backed(c.val)
                          /\ c.op = "get" => at[c.req] \in Replica}

\* What a request's handler has and waits for.
RequestInv(q) ==
    /\ Backed(answer[q])
    /\ wrapped[q] => Keyed(q)
    /\ phase[q] \in {"connect", "close"} => q \in Creates /\ at[q] \in Replica

\* The invariant of the proofs: what is answered, cached or about to be cached
\* is backed by the queue, and only keyed requests wait to cache an answer.
InductiveInv ==
    /\ TypeOK
    /\ \A q \in Request : RequestInv(q)
    /\ \A k \in Keys : Backed(cache[k])
    /\ conn \in [Replica -> Seq(BackedCmd)]

Succeeded(op, t) ==
    \E q \in Request : Op[q] = op /\ Target[q] = t /\ answer[q] = Ok(200, t)

\* Whatever replicas served them and whatever was replayed, the clients of one
\* transaction never see it both captured and cancelled, nor refunded uncaptured.
AnswersFollowLifecycle ==
    \A t \in Creates :
        /\ ~(Succeeded("capture", t) /\ Succeeded("cancel", t))
        /\ Succeeded("refund", t) => Succeeded("capture", t)

\* A retry sent to the replica that answered the key is never executed again:
\* its lookup is behind the setex on the same connection, whatever else runs.
RetryNotExecuted ==
    faults = 0 => \A q \in ran : \A p \in heard[q] : at[p] # at[q]

\* Every request a replica takes is answered, unless the replica dies: no
\* failure of Redis or of the broker leaves a client waiting.
RequestsAnswered ==
    \A q \in Request : phase[q] # "new" ~> phase[q] \in {"done", "gone"}

\* The idempotency key cache: a key creates at most one queued transaction.
OneTransactionPerKey ==
    \A p, q \in queue : Keyed(p) /\ Key[p] = Key[q] => p = q
=============================================================================
