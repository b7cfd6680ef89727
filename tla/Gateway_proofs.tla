--------------------------- MODULE Gateway_proofs ---------------------------
(***************************************************************************)
(* Proofs about Gateway for any requests, keys, replicas and faults: what  *)
(* is confirmed is queued, what the clients of one transaction are told    *)
(* follows its lifecycle, a retry that reaches its replica behind the      *)
(* answer is answered from the cache, and nobody waits for what cannot     *)
(* come.                                                                   *)
(***************************************************************************)
EXTENDS Gateway, SequenceTheorems, TLAPS

\* The parts of TypeOK that a response can touch.
HandlerInv ==
    /\ phase \in [Request -> Phase]
    /\ at \in [Request -> Replica \cup {None}]
    /\ wrapped \in [Request -> BOOLEAN]
    /\ answer \in [Request -> Answer \cup {None}]
    /\ \A q \in Request : RequestInv(q)
    /\ conn \in [Replica -> Seq(BackedCmd)]

-----------------------------------------------------------------------------
(* The answers *)

\* Successful answers name a transaction, errors do not.
LEMMA AnswerType ==
    /\ \A t \in Creates, c \in {200, 201} : Ok(c, t) \in Answer
    /\ \A c \in {400, 404, 409, 500} : Error(c) \in Answer
  BY DEF Answer, Ok, Error

\* Only a 201 needs the queue.
LEMMA BackedAnswers ==
    /\ \A t \in Creates : Backed(Ok(200, t))
    /\ \A c \in {400, 404, 409, 500} : Backed(Error(c))
    /\ \A t \in queue : Backed(Ok(201, t))
    /\ Backed(None)
  BY DEF Backed, Ok, Error

\* A replica's Map keeps its type when one transaction gets a new status.
LEMMA MapStep ==
    ASSUME transactions \in [Replica -> [Creates -> Status \cup {"NONE"}]],
           NEW r \in Replica, NEW t \in Creates, NEW st \in Status,
           transactions' = [transactions EXCEPT ![r][t] = st]
    PROVE  transactions' \in [Replica -> [Creates -> Status \cup {"NONE"}]]
  <1> DEFINE M == [Creates -> Status \cup {"NONE"}]
             new == [transactions[r] EXCEPT ![t] = st]
  <1>1. transactions[r] \in M
    OBVIOUS
  <1>2. new \in M
    BY <1>1
  <1>3. transactions' = [transactions EXCEPT ![r] = new]
    OBVIOUS
  <1> HIDE DEF M, new
  <1>4. transactions \in [Replica -> M]
    BY DEF M
  <1>5. transactions' \in [Replica -> M]
    BY <1>2, <1>3, <1>4
  <1> QED  BY <1>5 DEF M

\* A setex carries a backed answer, a lookup is for a placed, keyed request.
LEMMA CmdKinds ==
    ASSUME NEW c \in BackedCmd
    PROVE  /\ c.op = "setex" => c.key \in Keys /\ c.val \in Answer /\ Backed(c.val)
           /\ c.op = "get" => c.req \in Request /\ Keyed(c.req) /\ at[c.req] \in Replica
  <1>1. CASE c \in [op : {"get"}, req : {q \in Request : Keyed(q)}]
    BY <1>1 DEF BackedCmd
  <1>2. CASE c \in [op : {"setex"}, key : Keys, val : Answer]
    <2>1. c.op = "setex" /\ c.key \in Keys /\ c.val \in Answer
      BY <1>2
    <2>2. Backed(c.val)
      BY <2>1 DEF BackedCmd
    <2> QED  BY <2>1, <2>2
  <1> QED  BY <1>1, <1>2 DEF BackedCmd, Cmd

\* What was backed stays so while the queue grows and requests are placed.
LEMMA BackedGrows ==
    ASSUME queue \subseteq queue',
           \A p \in Request : at[p] \in Replica => at'[p] \in Replica,
           conn' \in [Replica -> Seq(BackedCmd)]
    PROVE  /\ BackedCmd \subseteq BackedCmd'
           /\ conn' \in [Replica -> Seq(BackedCmd')]
           /\ \A a \in Answer \cup {None} : Backed(a) => Backed(a)'
  <1>1. BackedCmd \subseteq BackedCmd'
    BY DEF BackedCmd, Backed, Cmd
  <1>2. Seq(BackedCmd) \subseteq Seq(BackedCmd')
    BY <1>1
  <1>3. \A a \in Answer \cup {None} : Backed(a) => Backed(a)'
    BY DEF Backed
  <1> QED  BY <1>1, <1>2, <1>3

\* A response is backed, and what it sends to the cache too.
LEMMA RespondInv ==
    ASSUME InductiveInv, NEW q \in Request, NEW r \in Replica, NEW a \in Answer,
           NEW cmds \in Seq(BackedCmd), NEW w \in BOOLEAN, w => Keyed(q),
           Backed(a), Respond(q, r, a, cmds, w),
           queue' = queue, at' \in [Request -> Replica \cup {None}], at'[q] \in Replica,
           \A p \in Request : p # q => at'[p] = at[p]
    PROVE  HandlerInv'
  <1> DEFINE c == [op |-> "setex", key |-> Key[q], val |-> a]
  <1>1. w => c \in BackedCmd
    <2>1. w => c \in [op : {"setex"}, key : Keys, val : Answer]
      BY DEF Keyed, Keys
    <2>2. c.op # "get" /\ Backed(c.val)
      OBVIOUS
    <2> QED  BY <2>1, <2>2 DEF BackedCmd, Cmd
  <1>2. conn' \in [Replica -> Seq(BackedCmd)]
    <2>1. CASE w
      BY <2>1, <1>1 DEF Respond, Caches, InductiveInv
    <2>2. CASE ~w
      BY <2>2 DEF Respond, Caches, InductiveInv
    <2> QED  BY <2>1, <2>2
  <1>3. conn' \in [Replica -> Seq(BackedCmd')]
    BY <1>2, BackedGrows
  <1>4. /\ phase' \in [Request -> Phase]
        /\ wrapped' \in [Request -> BOOLEAN]
        /\ answer' \in [Request -> Answer \cup {None}]
    BY DEF Respond, InductiveInv, TypeOK, Phase
  <1>5. ASSUME NEW p \in Request PROVE RequestInv(p)'
    <2>1. CASE p = q
      BY <2>1 DEF Respond, InductiveInv, TypeOK, RequestInv, Backed, Keyed
    <2>2. CASE p # q
      BY <2>2 DEF Respond, InductiveInv, TypeOK, RequestInv, Backed, Keyed
    <2> QED  BY <2>1, <2>2
  <1> QED  BY <1>3, <1>4, <1>5 DEF HandlerInv

\* So is whatever a request does once it has passed the middleware.
LEMMA ProceedInv ==
    ASSUME InductiveInv, GatewayAssumption, NEW q \in Request, NEW r \in Replica,
           NEW cmds \in Seq(BackedCmd), NEW w \in BOOLEAN, w => Keyed(q),
           Proceed(q, r, cmds, w),
           queue' = queue, at' \in [Request -> Replica \cup {None}], at'[q] \in Replica,
           \A p \in Request : p # q => at'[p] = at[p]
    PROVE  /\ HandlerInv'
           /\ transactions' \in [Replica -> [Creates -> Status \cup {"NONE"}]]
           /\ ran' \in SUBSET Request
  <1> USE AnswerType, BackedAnswers
  <1>1. ran' \in SUBSET Request
    BY DEF Proceed, InductiveInv, TypeOK
  <1>2. CASE ~Passes(q)
    <2>1. Respond(q, r, Error(400), cmds, w) /\ UNCHANGED transactions
      BY <1>2 DEF Proceed
    <2>2. Error(400) \in Answer /\ Backed(Error(400))
      OBVIOUS
    <2>3. HandlerInv'
      BY <2>1, <2>2, RespondInv
    <2> QED  BY <1>1, <2>1, <2>3 DEF InductiveInv, TypeOK
  <1>3. CASE Passes(q) /\ Op[q] = "create"
    <2>1. /\ phase' = [phase EXCEPT ![q] = "connect"]
          /\ wrapped' = [wrapped EXCEPT ![q] = w]
          /\ conn' = [conn EXCEPT ![r] = cmds]
          /\ UNCHANGED <<answer, transactions>>
      BY <1>3 DEF Proceed
    <2>2. conn' \in [Replica -> Seq(BackedCmd')]
      <3>1. conn' \in [Replica -> Seq(BackedCmd)]
        BY <2>1 DEF InductiveInv
      <3> QED  BY <3>1, BackedGrows, SMTT(30)
    <2>3. ASSUME NEW p \in Request PROVE RequestInv(p)'
      <3>1. CASE p = q
        BY <1>3, <2>1, <3>1 DEF InductiveInv, TypeOK, RequestInv, Backed, Keyed, Creates
      <3>2. CASE p # q
        BY <2>1, <3>2 DEF InductiveInv, TypeOK, RequestInv, Backed, Keyed
      <3> QED  BY <3>1, <3>2
    <2> QED  BY <1>1, <2>1, <2>2, <2>3 DEF HandlerInv, InductiveInv, TypeOK, Phase
  <1>4. CASE Passes(q) /\ Op[q] # "create"
    <2> DEFINE t == Target[q]
    <2>1. t \in Creates
      BY DEF GatewayAssumption
    <2>2. Operate(q, r, cmds, w)
      BY <1>4 DEF Proceed
    <2>3. PICK a \in {Error(404), Error(409), Ok(200, t)} : Respond(q, r, a, cmds, w)
      BY <2>2 DEF Operate
    <2>4. a \in Answer /\ Backed(a)
      BY <2>1
    <2>5. HandlerInv'
      BY <2>3, <2>4, RespondInv
    <2>6. Allows(Op[q], transactions[r][t]) /\ Op[q] # "get" => Becomes(Op[q]) \in Status
      BY <1>4 DEF Becomes, Status, GatewayAssumption
    <2>7. \/ UNCHANGED transactions
          \/ /\ transactions' = [transactions EXCEPT ![r][t] = Becomes(Op[q])]
             /\ Becomes(Op[q]) \in Status
      BY <2>2, <2>6 DEF Operate
    <2>8. transactions' \in [Replica -> [Creates -> Status \cup {"NONE"}]]
      <3>1. transactions \in [Replica -> [Creates -> Status \cup {"NONE"}]]
        BY DEF InductiveInv, TypeOK
      <3>2. CASE UNCHANGED transactions
        BY <3>1, <3>2
      <3>3. ASSUME transactions' = [transactions EXCEPT ![r][t] = Becomes(Op[q])],
                   Becomes(Op[q]) \in Status
            PROVE  transactions' \in [Replica -> [Creates -> Status \cup {"NONE"}]]
        <4> HIDE DEF t
        <4> QED  BY <2>1, <3>1, <3>3, MapStep
      <3> QED  BY <2>7, <3>2, <3>3
    <2> QED  BY <1>1, <2>5, <2>8
  <1> QED  BY <1>2, <1>3, <1>4

\* The parts of the invariant come back together.
LEMMA Assemble ==
    ASSUME HandlerInv',
           transactions' \in [Replica -> [Creates -> Status \cup {"NONE"}]],
           queue' \in SUBSET Creates, cache' \in [Keys -> Answer \cup {None}],
           \A k \in Keys : Backed(cache[k])',
           up' \in SUBSET Replica, ran' \in SUBSET Request,
           heard' \in [Request -> SUBSET Request], faults' \in 0 .. MaxFaults
    PROVE  InductiveInv'
  <1>1. conn' \in [Replica -> Seq(Cmd)]
    <2>1. Seq(BackedCmd') \subseteq Seq(Cmd)
      BY DEF BackedCmd
    <2> QED  BY <2>1 DEF HandlerInv
  <1> QED  BY <1>1 DEF HandlerInv, InductiveInv, TypeOK

-----------------------------------------------------------------------------
(* Each action keeps the invariant *)

\* The first command of a replica is one it may issue, and so are the others.
LEMMA HeadTail ==
    ASSUME InductiveInv, NEW r \in Replica, conn[r] # <<>>
    PROVE  /\ Head(conn[r]) \in BackedCmd
           /\ Tail(conn[r]) \in Seq(BackedCmd)
  BY DEF InductiveInv

\* The guards of the invariant on the variables that few actions change.
LEMMA RestInv ==
    ASSUME InductiveInv, queue' = queue, cache' = cache
    PROVE  /\ queue' \in SUBSET Creates
           /\ cache' \in [Keys -> Answer \cup {None}]
           /\ \A k \in Keys : Backed(cache[k])'
  BY DEF InductiveInv, TypeOK, Backed

\* A request arrives: its lookup is issued, or it proceeds at once.
LEMMA ArriveInv ==
    ASSUME InductiveInv, GatewayAssumption,
           NEW q \in Request, NEW r \in Replica, Arrive(q, r)
    PROVE  InductiveInv'
  <1>1. /\ up' \in SUBSET Replica
        /\ faults' \in 0 .. MaxFaults
        /\ heard' \in [Request -> SUBSET Request]
        /\ at' \in [Request -> Replica \cup {None}]
        /\ at'[q] \in Replica
        /\ \A p \in Request : p # q => at'[p] = at[p]
    BY DEF Arrive, InductiveInv, TypeOK
  <1>2. queue' = queue /\ cache' = cache
    BY DEF Arrive
  <1>3. CASE Keyed(q)
    <2> DEFINE c == [op |-> "get", req |-> q]
    <2>1. /\ phase' = [phase EXCEPT ![q] = "lookup"]
          /\ conn' = [conn EXCEPT ![r] = Append(@, c)]
          /\ UNCHANGED <<wrapped, answer, transactions, ran>>
      BY <1>3 DEF Arrive
    <2>2. BackedCmd \subseteq BackedCmd' /\ c \in BackedCmd'
      BY <1>1, <1>2, <1>3 DEF BackedCmd, Cmd, Backed
    <2>3. conn' \in [Replica -> Seq(BackedCmd')]
      <3>1. conn[r] \in Seq(BackedCmd') /\ conn \in [Replica -> Seq(BackedCmd')]
        BY <2>2 DEF InductiveInv
      <3> HIDE DEF c
      <3> QED  BY <2>1, <2>2, <3>1
    <2>4. ASSUME NEW p \in Request PROVE RequestInv(p)'
      BY <1>1, <1>2, <2>1 DEF InductiveInv, TypeOK, RequestInv, Backed, Keyed
    <2>5. HandlerInv'
      BY <1>1, <2>1, <2>3, <2>4 DEF HandlerInv, InductiveInv, TypeOK, Phase
    <2>6. /\ transactions' \in [Replica -> [Creates -> Status \cup {"NONE"}]]
          /\ ran' \in SUBSET Request
      BY <2>1 DEF InductiveInv, TypeOK
    <2> QED  BY <1>1, <1>2, <2>5, <2>6, RestInv, Assemble
  <1>4. CASE ~Keyed(q)
    <2>1. Proceed(q, r, conn[r], FALSE)
      BY <1>4 DEF Arrive
    <2>2. conn[r] \in Seq(BackedCmd)
      BY DEF InductiveInv
    <2>3. /\ HandlerInv'
          /\ transactions' \in [Replica -> [Creates -> Status \cup {"NONE"}]]
          /\ ran' \in SUBSET Request
      BY <1>1, <1>2, <2>1, <2>2, ProceedInv
    <2> QED  BY <1>1, <1>2, <2>3, RestInv, Assemble
  <1> QED  BY <1>3, <1>4

\* Requests that no step touches keep their part of the invariant while the
\* queue grows.
LEMMA SameRequests ==
    ASSUME InductiveInv, UNCHANGED <<at, wrapped, answer>>, queue \subseteq queue',
           phase' \in [Request -> Phase],
           \A q \in Request : phase'[q] \in {"connect", "close"} =>
                                 phase[q] \in {"connect", "close"},
           conn' \in [Replica -> Seq(BackedCmd)]
    PROVE  HandlerInv'
  <1>1. conn' \in [Replica -> Seq(BackedCmd')]
    BY BackedGrows
  <1>2. ASSUME NEW q \in Request PROVE RequestInv(q)'
    BY DEF InductiveInv, RequestInv, Backed, Keyed
  <1> QED  BY <1>1, <1>2 DEF HandlerInv, InductiveInv, TypeOK

\* A reply to the middleware's lookup replays what was cached, proceeds, or
\* finds nobody.
LEMMA LookupReplyInv ==
    ASSUME InductiveInv, GatewayAssumption, NEW r \in Replica, LookupReply(r)
    PROVE  InductiveInv'
  <1> DEFINE q == Head(conn[r]).req
             cmds == Tail(conn[r])
             hit == cache[Key[q]]
  <1>1. q \in Request /\ Keyed(q) /\ at[q] \in Replica /\ cmds \in Seq(BackedCmd)
    BY HeadTail, CmdKinds DEF LookupReply, Outstanding
  <1>2. /\ UNCHANGED <<at, queue, cache, up, heard, faults>>
        /\ at' \in [Request -> Replica \cup {None}]
        /\ up' \in SUBSET Replica
        /\ faults' \in 0 .. MaxFaults
        /\ heard' \in [Request -> SUBSET Request]
    BY DEF LookupReply, InductiveInv, TypeOK
  <1>3. CASE Proceed(q, r, cmds, TRUE)
    <2>1. Proceed(q, r, cmds, TRUE)
      BY <1>3
    <2>2. /\ HandlerInv'
          /\ transactions' \in [Replica -> [Creates -> Status \cup {"NONE"}]]
          /\ ran' \in SUBSET Request
      <3> HIDE DEF q, cmds
      <3> QED  BY <1>1, <1>2, <2>1, ProceedInv
    <2> QED  BY <1>2, <2>2, RestInv, Assemble
  <1>4. CASE hit # None /\ Respond(q, r, hit, cmds, FALSE) /\ UNCHANGED <<transactions, ran>>
    <2>1. Respond(q, r, hit, cmds, FALSE) /\ UNCHANGED <<transactions, ran>>
      BY <1>4
    <2>2. hit \in Answer /\ Backed(hit)
      BY <1>1, <1>4 DEF InductiveInv, TypeOK, Keys, Keyed
    <2>3. HandlerInv'
      <3> HIDE DEF q, cmds, hit
      <3> QED  BY <1>1, <1>2, <2>1, <2>2, RespondInv
    <2>4. /\ transactions' \in [Replica -> [Creates -> Status \cup {"NONE"}]]
          /\ ran' \in SUBSET Request
      BY <2>1 DEF InductiveInv, TypeOK
    <2> QED  BY <1>2, <2>3, <2>4, RestInv, Assemble
  <1>5. CASE /\ conn' = [conn EXCEPT ![r] = cmds]
             /\ UNCHANGED <<phase, wrapped, answer, transactions, ran>>
    <2>1. conn' \in [Replica -> Seq(BackedCmd)]
      <3> HIDE DEF cmds
      <3> QED  BY <1>1, <1>5 DEF InductiveInv
    <2>2. HandlerInv'
      BY <1>2, <1>5, <2>1, SameRequests DEF InductiveInv, TypeOK
    <2>3. /\ transactions' \in [Replica -> [Creates -> Status \cup {"NONE"}]]
          /\ ran' \in SUBSET Request
      BY <1>5 DEF InductiveInv, TypeOK
    <2> QED  BY <1>2, <2>2, <2>3, RestInv, Assemble
  <1> QED  BY <1>3, <1>4, <1>5 DEF LookupReply

\* A setex takes effect: what it caches was backed when it was issued.
LEMMA CacheReplyInv ==
    ASSUME InductiveInv, NEW r \in Replica, CacheReply(r)
    PROVE  InductiveInv'
  <1> DEFINE c == Head(conn[r])
  <1>1. c.key \in Keys /\ c.val \in Answer /\ Backed(c.val)
    BY HeadTail, CmdKinds DEF CacheReply, Outstanding
  <1>2. Tail(conn[r]) \in Seq(BackedCmd)
    BY HeadTail DEF CacheReply, Outstanding
  <1>3. conn' \in [Replica -> Seq(BackedCmd)]
    BY <1>2 DEF CacheReply, InductiveInv
  <1>4. UNCHANGED <<handlers, transactions, queue, up, ran, heard, faults>>
    BY DEF CacheReply
  <1>5. HandlerInv'
    BY <1>3, <1>4, SameRequests DEF handlers, InductiveInv, TypeOK
  <1>6. cache' = [cache EXCEPT ![c.key] = c.val]
    BY DEF CacheReply
  <1>7. /\ cache' \in [Keys -> Answer \cup {None}]
        /\ \A k \in Keys : Backed(cache[k])'
    BY <1>1, <1>4, <1>6 DEF InductiveInv, TypeOK, Backed
  <1> QED  BY <1>4, <1>5, <1>7, Assemble DEF InductiveInv, TypeOK

\* The end of createTransaction, with either outcome.
LEMMA FinishInv ==
    ASSUME InductiveInv, NEW q \in Request, phase[q] \in {"connect", "close"},
           NEW st \in Status, NEW a \in Answer, Backed(a), Finish(q, st, a)
    PROVE  InductiveInv'
  <1> DEFINE r == at[q]
  <1>1. /\ r \in Replica
        /\ q \in Creates
        /\ conn[r] \in Seq(BackedCmd)
        /\ wrapped[q] \in BOOLEAN
        /\ wrapped[q] => Keyed(q)
    BY DEF InductiveInv, TypeOK, RequestInv
  <1>2. /\ transactions' = [transactions EXCEPT ![r][q] = st]
        /\ Respond(q, r, a, conn[r], wrapped[q])
        /\ UNCHANGED <<at, queue, cache, up, ran, heard, faults>>
    BY DEF Finish
  <1>3. /\ transactions \in [Replica -> [Creates -> Status \cup {"NONE"}]]
        /\ at' \in [Request -> Replica \cup {None}]
        /\ up' \in SUBSET Replica
        /\ ran' \in SUBSET Request
        /\ heard' \in [Request -> SUBSET Request]
        /\ faults' \in 0 .. MaxFaults
        /\ at'[q] \in Replica
    BY <1>1, <1>2 DEF InductiveInv, TypeOK
  <1> HIDE DEF r
  <1>4. HandlerInv'
    BY <1>1, <1>2, <1>3, RespondInv
  <1>5. transactions' \in [Replica -> [Creates -> Status \cup {"NONE"}]]
    BY <1>1, <1>2, <1>3, MapStep
  <1> QED  BY <1>2, <1>3, <1>4, <1>5, RestInv, Assemble

\* The steps of createTransaction; only the close that confirms answers 201.
LEMMA ServeInv ==
    ASSUME InductiveInv, NEW q \in Request, Serve(q) \/ BrokerFails(q)
    PROVE  InductiveInv'
  <1>1. CASE Connected(q)
    <2>1. HandlerInv'
      BY <1>1, SameRequests DEF Connected, InductiveInv, TypeOK, Phase
    <2> QED  BY <1>1, <2>1, RestInv, Assemble DEF Connected, InductiveInv, TypeOK
  <1>2. CASE BrokerAccepts(q)
    <2>1. HandlerInv'
      BY <1>2, SameRequests DEF BrokerAccepts, handlers, InductiveInv, TypeOK
    <2>2. /\ queue' \in SUBSET Creates
          /\ \A k \in Keys : Backed(cache[k])'
      BY <1>2 DEF BrokerAccepts, InductiveInv, TypeOK, RequestInv, Backed
    <2> QED
      BY <1>2, <2>1, <2>2, Assemble DEF BrokerAccepts, handlers, InductiveInv, TypeOK
  <1>3. CASE Closed(q)
    <2>1. q \in Creates /\ q \in queue
      BY <1>3 DEF Closed, ClosedBehind, InductiveInv, RequestInv
    <2>2. Ok(201, q) \in Answer /\ Backed(Ok(201, q)) /\ "AUTHORIZED" \in Status
      BY <2>1, AnswerType, BackedAnswers DEF Status
    <2> QED  BY <1>3, <2>2, FinishInv DEF Closed
  <1>4. CASE BrokerFails(q)
    <2>1. Error(500) \in Answer /\ Backed(Error(500)) /\ "FAILED" \in Status
      BY AnswerType, BackedAnswers DEF Status
    <2> QED  BY <1>4, <2>1, FinishInv DEF BrokerFails
  <1> QED  BY <1>1, <1>2, <1>3, <1>4 DEF Serve

\* A rejected lookup proceeds uncached, a rejected setex may still apply.
LEMMA RedisRejectsInv ==
    ASSUME InductiveInv, GatewayAssumption, NEW r \in Replica, RedisRejects(r)
    PROVE  InductiveInv'
  <1> DEFINE c == Head(conn[r])
             cmds == Tail(conn[r])
  <1>1. c \in BackedCmd /\ cmds \in Seq(BackedCmd)
    BY HeadTail DEF RedisRejects
  <1>2. /\ UNCHANGED <<at, queue, up, heard>>
        /\ at' \in [Request -> Replica \cup {None}]
        /\ up' \in SUBSET Replica
        /\ heard' \in [Request -> SUBSET Request]
        /\ faults' \in 0 .. MaxFaults
    BY DEF RedisRejects, Fault, InductiveInv, TypeOK, GatewayAssumption
  <1>3. CASE c.op = "get" /\ Proceed(c.req, r, cmds, FALSE) /\ UNCHANGED cache
    <2>1. c.req \in Request /\ at[c.req] \in Replica
      BY <1>1, <1>3, CmdKinds
    <2>2. /\ HandlerInv'
          /\ transactions' \in [Replica -> [Creates -> Status \cup {"NONE"}]]
          /\ ran' \in SUBSET Request
      <3> HIDE DEF c, cmds
      <3> QED  BY <1>1, <1>2, <1>3, <2>1, ProceedInv
    <2> QED  BY <1>2, <1>3, <2>2, RestInv, Assemble
  <1>4. CASE /\ c.op = "setex"
             /\ cache' \in {cache, [cache EXCEPT ![c.key] = c.val]}
             /\ conn' = [conn EXCEPT ![r] = cmds]
             /\ UNCHANGED <<phase, wrapped, answer, transactions, ran>>
    <2>1. c.key \in Keys /\ c.val \in Answer /\ Backed(c.val)
      BY <1>1, <1>4, CmdKinds
    <2>2. HandlerInv'
      BY <1>1, <1>2, <1>4, SameRequests DEF InductiveInv, TypeOK
    <2>3. /\ cache' \in [Keys -> Answer \cup {None}]
          /\ \A k \in Keys : Backed(cache[k])'
      <3>1. \/ cache' = cache
            \/ cache' = [cache EXCEPT ![c.key] = c.val]
        BY <1>4
      <3>2. cache \in [Keys -> Answer \cup {None}] /\ queue' = queue
        BY <1>2 DEF InductiveInv, TypeOK
      <3>3. \A k \in Keys : Backed(cache[k])
        BY DEF InductiveInv
      <3> HIDE DEF c
      <3> QED  BY <2>1, <3>1, <3>2, <3>3 DEF Backed
    <2> QED  BY <1>2, <1>4, <2>2, <2>3, Assemble DEF InductiveInv, TypeOK
  <1> QED  BY <1>3, <1>4 DEF RedisRejects

\* The remaining faults.
LEMMA FaultInv ==
    ASSUME InductiveInv, GatewayAssumption,
           \/ \E r \in Replica : Crash(r) \/ Restart(r)
           \/ \E k \in Keys : KeyExpires(k)
    PROVE  InductiveInv'
  <1> USE DEF InductiveInv, TypeOK
  <1>1. ASSUME NEW r \in Replica, Crash(r) PROVE InductiveInv'
    <2>1. faults' \in 0 .. MaxFaults
      BY <1>1 DEF Crash, Fault, GatewayAssumption
    <2>2. HandlerInv'
      <3>1. <<>> \in Seq(BackedCmd)
        OBVIOUS
      <3>2. conn' \in [Replica -> Seq(BackedCmd)]
        BY <1>1, <3>1 DEF Crash
      <3>3. phase' \in [Request -> Phase]
        BY <1>1 DEF Crash, Phase
      <3>4. \A q \in Request : phase'[q] \in {"connect", "close"} =>
                                  phase[q] \in {"connect", "close"}
        BY <1>1 DEF Crash
      <3> QED  BY <1>1, <3>2, <3>3, <3>4, SameRequests DEF Crash
    <2>3. transactions' \in [Replica -> [Creates -> Status \cup {"NONE"}]]
      BY <1>1 DEF Crash
    <2> QED  BY <1>1, <2>1, <2>2, <2>3, RestInv, Assemble DEF Crash
  <1>2. ASSUME NEW r \in Replica, Restart(r) PROVE InductiveInv'
    <2>1. HandlerInv'
      BY <1>2, SameRequests DEF Restart, handlers
    <2> QED  BY <1>2, <2>1, RestInv, Assemble DEF Restart
  <1>3. ASSUME NEW k \in Keys, KeyExpires(k) PROVE InductiveInv'
    <2>1. HandlerInv'
      BY <1>3, SameRequests DEF KeyExpires, handlers
    <2>2. faults' \in 0 .. MaxFaults
      BY <1>3 DEF KeyExpires, Fault, GatewayAssumption
    <2>3. /\ cache' \in [Keys -> Answer \cup {None}]
          /\ \A j \in Keys : Backed(cache[j])'
      BY <1>3 DEF KeyExpires, Backed
    <2> QED  BY <1>3, <2>1, <2>2, <2>3, Assemble DEF KeyExpires
  <1> QED  BY <1>1, <1>2, <1>3

\* Nothing is answered, cached or outstanding at the start.
LEMMA InitInv ==
    ASSUME GatewayAssumption, Init
    PROVE  InductiveInv
  <1>1. TypeOK
    BY DEF Init, TypeOK, Phase, GatewayAssumption
  <1>2. conn \in [Replica -> Seq(BackedCmd)]
    BY DEF Init
  <1> QED  BY <1>1, <1>2 DEF Init, InductiveInv, RequestInv, Backed

\* Every step of the gateway keeps the invariant.
LEMMA NextInv ==
    ASSUME InductiveInv, GatewayAssumption, [Next]_vars
    PROVE  InductiveInv'
  <1>1. CASE \E q \in Request, r \in Replica : Arrive(q, r)
    BY <1>1, ArriveInv
  <1>2. CASE \E q \in Request : Serve(q) \/ BrokerFails(q)
    BY <1>2, ServeInv
  <1>3. CASE \E r \in Replica : RedisReply(r)
    BY <1>3, LookupReplyInv, CacheReplyInv DEF RedisReply
  <1>4. CASE \E r \in Replica : RedisRejects(r)
    BY <1>4, RedisRejectsInv
  <1>5. CASE \E r \in Replica : Crash(r) \/ Restart(r)
    BY <1>5, FaultInv
  <1>6. CASE \E k \in Keys : KeyExpires(k)
    BY <1>6, FaultInv
  <1>7. CASE UNCHANGED vars
    <2>1. HandlerInv'
      BY <1>7, SameRequests DEF vars, handlers, InductiveInv, TypeOK
    <2> QED  BY <1>7, <2>1, RestInv, Assemble DEF vars, handlers, InductiveInv, TypeOK
  <1> QED  BY <1>1, <1>2, <1>3, <1>4, <1>5, <1>6, <1>7 DEF Next

-----------------------------------------------------------------------------
(* Theorems *)

\* What the gateway answers, caches or is about to cache is always backed by
\* the queue "transactions".
THEOREM Invariance == Spec => []InductiveInv
  <1>1. Init => InductiveInv
    BY GatewayAssumption, InitInv
  <1>2. InductiveInv /\ [Next]_vars => InductiveInv'
    BY GatewayAssumption, NextInv
  <1> QED  BY <1>1, <1>2, PTL DEF Spec

\* Types are kept, for any requests, keys, replicas and faults.
THEOREM TypeCorrect == Spec => []TypeOK
  <1>1. InductiveInv => TypeOK
    BY DEF InductiveInv
  <1> QED  BY <1>1, Invariance, PTL

\* A client told 201 can rely on its transaction being in the queue.
THEOREM Confirmation == Spec => []ConfirmedIsQueued
  <1>1. InductiveInv => ConfirmedIsQueued
    <2>1. \A t \in Creates : Ok(201, t) # None
      BY GatewayAssumption, AnswerType DEF GatewayAssumption
    <2> QED
      BY <2>1 DEF InductiveInv, RequestInv, Backed, ConfirmedIsQueued, Ok, Creates
  <1> QED  BY <1>1, Invariance, PTL
-----------------------------------------------------------------------------
(***************************************************************************)
(* The answers and their lifecycle.                                        *)
(***************************************************************************)

Moves == {"capture", "cancel", "refund"}

\* An answer was given to a request with this key.
GivenFor(key, a) == \E p \in Request : Keyed(p) /\ Key[p] = key /\ answer[p] = a

\* A lookup belongs to a request that waits for it at that replica or died with
\* it; a setex caches what some request with the key was answered.
CmdLinked(r, c) ==
    /\ c.op = "get" => phase[c.req] \in {"lookup", "gone"} /\ at[c.req] = r
    /\ c.op = "setex" => GivenFor(c.key, c.val)

\* No lookup of q is outstanding in cmds.
NoLookup(q, cmds) == \A i \in 1 .. Len(cmds) : cmds[i].op = "get" => cmds[i].req # q

\* A request has one lookup.
OneLookup(cmds) ==
    \A i, j \in 1 .. Len(cmds) :
        cmds[i].op = "get" /\ cmds[j].op = "get" /\ cmds[i].req = cmds[j].req => i = j

Linked(r, cmds) ==
    (\A i \in 1 .. Len(cmds) : CmdLinked(r, cmds[i])) /\ OneLookup(cmds)

\* A transaction is in the Map of the replica that created it only, its status
\* there tells what its clients were told, and they were told what is legal.
MapInv(t) ==
    /\ \A r \in Replica : transactions[r][t] # "NONE" => at[t] = r /\ phase[t] = "done"
    /\ \A op \in Moves : Succeeded(op, t) => phase[t] = "done"
    /\ \A r \in Replica :
           /\ transactions[r][t] = "CAPTURED" => Succeeded("capture", t)
           /\ Succeeded("capture", t) => transactions[r][t] \in {"NONE", "CAPTURED", "REFUNDED"}
           /\ Succeeded("cancel", t) => transactions[r][t] \in {"NONE", "CANCELLED"}
    /\ ~(Succeeded("capture", t) /\ Succeeded("cancel", t))
    /\ Succeeded("refund", t) => Succeeded("capture", t)

LifecycleInv ==
    /\ \A q \in Request : answer[q] # None => phase[q] = "done"
    /\ \A key \in Keys : cache[key] # None => GivenFor(key, cache[key])
    /\ \A r \in Replica : Linked(r, conn[r])
    /\ \A t \in Creates : MapInv(t)

-----------------------------------------------------------------------------
(* What was answered stays answered *)

\* The types the steps below need.
Types ==
    /\ phase \in [Request -> Phase]
    /\ at \in [Request -> Replica \cup {None}]
    /\ answer \in [Request -> Answer \cup {None}]
    /\ transactions \in [Replica -> [Creates -> Status \cup {"NONE"}]]
    /\ cache \in [Keys -> Answer \cup {None}]
    /\ conn \in [Replica -> Seq(Cmd)]

LEMMA TypesHold ==
    ASSUME InductiveInv
    PROVE  Types
BY DEF InductiveInv, TypeOK, Types

LEMMA SuccessIsAnswer ==
    ASSUME NEW t \in Creates
    PROVE  Ok(200, t) \in Answer /\ Ok(200, t) # None
BY AnswerType, GatewayAssumption

\* A step that answers one request, which waited, or none.
Answering(q, a) == answer[q] = None /\ answer' = [answer EXCEPT ![q] = a]

LEMMA GivenStays ==
    ASSUME Types, \A p \in Request : answer[p] # None => answer'[p] = answer[p],
           NEW k \in Keys, NEW a \in Answer, GivenFor(k, a)
    PROVE  GivenFor(k, a)'
BY GatewayAssumption DEF GivenFor, Keyed

\* Clients who were told of a success do not forget it.
LEMMA SuccessStays ==
    ASSUME Types, \A p \in Request : answer[p] # None => answer'[p] = answer[p],
           NEW op \in Moves, NEW t \in Creates, Succeeded(op, t)
    PROVE  Succeeded(op, t)'
BY SuccessIsAnswer DEF Succeeded

\* An error, the answer to a creation or a replay is no new success.
LEMMA NoNewSuccess ==
    ASSUME Types, NEW q \in Request, NEW a, Answering(q, a),
           NEW op \in Moves, NEW t \in Creates,
           a = Ok(200, t) /\ Op[q] = op /\ Target[q] = t => Succeeded(op, t),
           Succeeded(op, t)'
    PROVE  Succeeded(op, t)
<1>1. PICK p \in Request : Op[p] = op /\ Target[p] = t /\ answer'[p] = Ok(200, t)
  BY DEF Succeeded
<1>2. CASE p = q
  BY <1>1, <1>2 DEF Answering, Types
<1>3. CASE p # q
  BY <1>1, <1>3 DEF Answering, Types, Succeeded
<1> QED BY <1>2, <1>3

-----------------------------------------------------------------------------
(* Outstanding commands *)

\* Lookups of a request are at its replica, and behind no later await.
LEMMA ElsewhereNoLookup ==
    ASSUME \A r \in Replica : Linked(r, conn[r]), NEW q \in Request, NEW x \in Replica,
           phase[q] \notin {"lookup", "gone"} \/ at[q] # x
    PROVE  NoLookup(q, conn[x])
BY DEF Linked, CmdLinked, NoLookup

\* Behind the command at the head there is no other lookup of its request.
LEMMA BehindHead ==
    ASSUME Types, NEW r \in Replica, conn[r] # <<>>, Linked(r, conn[r])
    PROVE  /\ Head(conn[r]) \in Cmd /\ CmdLinked(r, Head(conn[r]))
           /\ Tail(conn[r]) \in Seq(Cmd) /\ Linked(r, Tail(conn[r]))
           /\ Head(conn[r]).op = "get" => NoLookup(Head(conn[r]).req, Tail(conn[r]))
<1>1. PICK p \in Seq(Cmd) : p = conn[r]
  BY DEF Types
<1>2. /\ Head(p) = p[1] /\ 1 \in 1 .. Len(p) /\ Head(p) \in Cmd
      /\ Tail(p) \in Seq(Cmd) /\ Len(Tail(p)) = Len(p) - 1 /\ Len(p) \in Nat
  BY <1>1
<1>3. \A i \in 1 .. Len(Tail(p)) : /\ Tail(p)[i] = p[i + 1]
                                   /\ i + 1 \in 1 .. Len(p) /\ i + 1 # 1
  BY <1>1, <1>2
<1>4. OneLookup(Tail(p))
  <2> SUFFICES ASSUME NEW i \in 1 .. Len(Tail(p)), NEW j \in 1 .. Len(Tail(p)),
                      Tail(p)[i].op = "get", Tail(p)[j].op = "get",
                      Tail(p)[i].req = Tail(p)[j].req
               PROVE  i = j
    BY DEF OneLookup
  <2>1. i + 1 = j + 1
    BY <1>1, <1>3 DEF Linked, OneLookup
  <2> QED BY <2>1, <1>2
<1>5. \A i \in 1 .. Len(Tail(p)) : CmdLinked(r, Tail(p)[i])
  BY <1>1, <1>3 DEF Linked
<1>6. Head(p).op = "get" => NoLookup(Head(p).req, Tail(p))
  BY <1>1, <1>2, <1>3 DEF Linked, OneLookup, NoLookup
<1> QED BY <1>1, <1>2, <1>4, <1>5, <1>6 DEF Linked

\* The step of a request q leaves the commands of the others as they were.
LEMMA OthersLinked ==
    ASSUME Types, NEW q \in Request, NEW x \in Replica, NEW cmds \in Seq(Cmd),
           \A p \in Request : answer[p] # None => answer'[p] = answer[p],
           \A p \in Request \ {q} : phase'[p] = phase[p] /\ at'[p] = at[p],
           Linked(x, cmds), NoLookup(q, cmds)
    PROVE  Linked(x, cmds)'
<1>1. ASSUME NEW i \in 1 .. Len(cmds)
      PROVE  CmdLinked(x, cmds[i])'
  <2>1. cmds[i] \in Cmd
    OBVIOUS
  <2>2. CASE cmds[i].op = "get"
    <3>1. cmds[i].req \in Request \ {q}
      BY <2>1, <2>2 DEF Cmd, NoLookup
    <3> QED BY <2>2, <3>1 DEF Linked, CmdLinked
  <2>3. CASE cmds[i].op = "setex"
    <3>1. cmds[i].key \in Keys /\ cmds[i].val \in Answer
      BY <2>1, <2>3 DEF Cmd
    <3> QED BY <2>3, <3>1, GivenStays DEF Linked, CmdLinked
  <2> QED BY <2>1, <2>2, <2>3 DEF Cmd
<1> QED BY <1>1 DEF Linked, OneLookup

\* A command added behind the others.
LEMMA AppendLinked ==
    ASSUME NEW r, NEW cmds \in Seq(Cmd), NEW c \in Cmd,
           Linked(r, cmds)', CmdLinked(r, c)', c.op = "get" => NoLookup(c.req, cmds)
    PROVE  Linked(r, Append(cmds, c))'
<1> DEFINE p == Append(cmds, c)
<1>1. /\ Len(p) = Len(cmds) + 1 /\ Len(cmds) \in Nat /\ p[Len(cmds) + 1] = c
      /\ \A i \in 1 .. Len(cmds) : p[i] = cmds[i]
  OBVIOUS
<1>2. \A i \in 1 .. Len(p) : i \in 1 .. Len(cmds) \/ i = Len(cmds) + 1
  BY <1>1
<1> HIDE DEF p
<1>3. \A i \in 1 .. Len(p) : CmdLinked(r, p[i])'
  BY <1>1, <1>2 DEF Linked
<1>4. OneLookup(p)
  BY <1>1, <1>2 DEF Linked, OneLookup, NoLookup
<1> QED BY <1>3, <1>4 DEF Linked, OneLookup, p

\* One request takes its step at replica r, whose commands become new.
LEMMA ConnStep ==
    ASSUME Types, \A x \in Replica : Linked(x, conn[x]), NEW q \in Request, NEW r \in Replica,
           NEW new, conn' = [conn EXCEPT ![r] = new], Linked(r, new)',
           phase[q] \notin {"lookup", "gone"} \/ at[q] = r,
           \A p \in Request : answer[p] # None => answer'[p] = answer[p],
           \A p \in Request \ {q} : phase'[p] = phase[p] /\ at'[p] = at[p]
    PROVE  (\A x \in Replica : Linked(x, conn[x]))'
<1>1. ASSUME NEW x \in Replica, x # r
      PROVE  Linked(x, conn[x])' /\ conn'[x] = conn[x]
  <2>1. NoLookup(q, conn[x]) /\ conn[x] \in Seq(Cmd) /\ conn'[x] = conn[x]
    BY <1>1, ElsewhereNoLookup DEF Types
  <2>2. PICK p \in Seq(Cmd) : p = conn[x]
    BY <2>1
  <2>3. Linked(x, p)'
    BY <2>1, <2>2, OthersLinked
  <2>4. p = conn'[x]
    BY <2>1, <2>2
  <2> QED BY <2>1, <2>3, <2>4
<1>2. conn'[r] = new
  BY DEF Types
<1> QED BY <1>1, <1>2

-----------------------------------------------------------------------------
(* The steps requests are made of *)

\* A request that is not over takes a step at replica r behind the commands cmds.
Stepping(q, r, cmds) ==
    /\ Types /\ LifecycleInv
    /\ phase[q] \notin {"done", "gone"}
    /\ phase[q] # "lookup" \/ at[q] = r
    /\ cmds \in Seq(Cmd) /\ Linked(r, cmds) /\ NoLookup(q, cmds)
    /\ \A p \in Request \ {q} : at'[p] = at[p]

\* The parts of the invariant about answers and commands.
Answered   == \A q \in Request : answer[q] # None => phase[q] = "done"
CacheGiven == \A k \in Keys : cache[k] # None => GivenFor(k, cache[k])
AllLinked  == \A r \in Replica : Linked(r, conn[r])

LEMMA RespondStep ==
    ASSUME NEW q \in Request, NEW r \in Replica, NEW cmds, NEW a \in Answer, NEW w \in BOOLEAN,
           Stepping(q, r, cmds), w => Keyed(q), Respond(q, r, a, cmds, w)
    PROVE  /\ Answering(q, a)
           /\ \A p \in Request : answer[p] # None => answer'[p] = answer[p]
           /\ phase' = [phase EXCEPT ![q] = "done"]
           /\ Answered' /\ AllLinked'
<1>1. Types /\ cmds \in Seq(Cmd) /\ AllLinked /\ answer[q] = None /\ Answered
      /\ \A p \in Request \ {q} : at'[p] = at[p]
  BY DEF Stepping, LifecycleInv, AllLinked, Answered
<1>2. Answering(q, a) /\ phase' = [phase EXCEPT ![q] = "done"]
  BY <1>1 DEF Respond, Answering
<1>3. /\ \A p \in Request : answer[p] # None => answer'[p] = answer[p]
      /\ \A p \in Request \ {q} : phase'[p] = phase[p]
      /\ Answered'
  BY <1>1, <1>2 DEF Answering, Types, Answered
<1>4. Linked(r, cmds)'
  BY <1>1, <1>3, OthersLinked DEF Stepping
<1> DEFINE c == [op |-> "setex", key |-> Key[q], val |-> a]
           new == IF w THEN Append(cmds, c) ELSE cmds
<1>5. conn' = [conn EXCEPT ![r] = new]
  BY DEF Respond, Caches
<1>6. Linked(r, new)'
  <2>1. CASE ~w
    BY <1>4, <2>1
  <2>2. CASE w
    <3>1. Keyed(q) /\ answer'[q] = a
      BY <1>1, <1>2, <2>2 DEF Answering, Types
    <3>2. c \in Cmd
      <4>1. c \in [op : {"setex"}, key : Keys, val : Answer]
        BY <3>1 DEF Keyed, Keys
      <4> QED BY <4>1 DEF Cmd
    <3>3. CmdLinked(r, c)' /\ c.op # "get"
      BY <3>1 DEF CmdLinked, GivenFor, Keyed
    <3>4. Linked(r, Append(cmds, c))'
      <4> HIDE DEF c
      <4> QED BY <1>1, <1>4, <3>2, <3>3, AppendLinked
    <3> QED BY <2>2, <3>4
  <2> QED BY <2>1, <2>2
<1> HIDE DEF new
<1>7. AllLinked'
  BY <1>1, <1>3, <1>5, <1>6, ConnStep DEF Stepping, AllLinked
<1> QED BY <1>2, <1>3, <1>7

\* What is told of t is the same, and its entry is the same or gone.
LEMMA MapStays ==
    ASSUME NEW t \in Creates, MapInv(t),
           \A op \in Moves : Succeeded(op, t)' <=> Succeeded(op, t),
           \A r \in Replica : transactions'[r][t] \in {transactions[r][t], "NONE"},
           phase[t] = "done" => phase'[t] = "done" /\ at'[t] = at[t]
    PROVE  MapInv(t)'
<1>1. "capture" \in Moves /\ "cancel" \in Moves /\ "refund" \in Moves
  BY DEF Moves
<1> QED BY <1>1 DEF MapInv

LEMMA SameSuccess ==
    ASSUME Types, NEW q \in Request, NEW a, Answering(q, a),
           \A op \in Moves, t \in Creates :
               a = Ok(200, t) /\ Op[q] = op /\ Target[q] = t => Succeeded(op, t)
    PROVE  \A op \in Moves, t \in Creates : Succeeded(op, t)' <=> Succeeded(op, t)
<1>1. \A p \in Request : answer[p] # None => answer'[p] = answer[p]
  BY DEF Answering, Types
<1> QED BY <1>1, NoNewSuccess, SuccessStays

\* A response that grants nothing new.
LEMMA RespondMap ==
    ASSUME NEW q \in Request, NEW r \in Replica, NEW cmds, NEW a \in Answer, NEW w \in BOOLEAN,
           Stepping(q, r, cmds), w => Keyed(q), Respond(q, r, a, cmds, w),
           UNCHANGED transactions,
           \A op \in Moves, t \in Creates :
               a = Ok(200, t) /\ Op[q] = op /\ Target[q] = t => Succeeded(op, t)
    PROVE  \A t \in Creates : MapInv(t)'
<1>1. Types /\ Answering(q, a) /\ phase' = [phase EXCEPT ![q] = "done"] /\ phase[q] # "done"
  BY RespondStep DEF Stepping
<1>2. ASSUME NEW t \in Creates
      PROVE  phase[t] = "done" => phase'[t] = "done" /\ at'[t] = at[t]
  BY <1>1 DEF Stepping, Types, Creates
<1>3. \A t \in Creates : MapInv(t)
  BY DEF Stepping, LifecycleInv
<1> QED BY <1>1, <1>2, <1>3, SameSuccess, MapStays

\* A capture, cancellation or refund that the replica's Map allows.
LEMMA GrantMap ==
    ASSUME NEW q \in Request, NEW r \in Replica, NEW cmds, NEW w \in BOOLEAN, NEW t \in Creates,
           Stepping(q, r, cmds), w => Keyed(q), Respond(q, r, Ok(200, t), cmds, w),
           Op[q] \in Moves, Target[q] = t,
           transactions[r][t] # "NONE", Allows(Op[q], transactions[r][t]),
           transactions' = [transactions EXCEPT ![r][t] = Becomes(Op[q])]
    PROVE  \A u \in Creates : MapInv(u)'
<1>1. Types /\ phase[q] # "done" /\ \A u \in Creates : MapInv(u)
  BY DEF Stepping, LifecycleInv
<1>2. /\ Answering(q, Ok(200, t)) /\ phase' = [phase EXCEPT ![q] = "done"]
      /\ \A p \in Request : answer[p] # None => answer'[p] = answer[p]
  BY SuccessIsAnswer, RespondStep
<1>3. \A op \in Moves, u \in Creates : op # Op[q] \/ u # t =>
          (Succeeded(op, u)' <=> Succeeded(op, u))
  BY <1>1, <1>2, NoNewSuccess, SuccessStays
<1>4. \A u \in Creates : phase[u] = "done" => phase'[u] = "done" /\ at'[u] = at[u]
  BY <1>1, <1>2 DEF Stepping, Types, Creates
<1>5. /\ transactions'[r][t] = Becomes(Op[q])
      /\ \A x \in Replica, u \in Creates : x # r \/ u # t => transactions'[x][u] = transactions[x][u]
  BY <1>1 DEF Types
<1>6. ASSUME NEW u \in Creates, u # t
      PROVE  MapInv(u)'
  BY <1>1, <1>3, <1>4, <1>5, <1>6, MapStays
<1>7. MapInv(t)'
  <2>1. Succeeded(Op[q], t)'
    BY <1>1, <1>2 DEF Succeeded, Answering, Types
  <2>2. at[t] = r /\ phase[t] = "done" /\ at'[t] = r /\ phase'[t] = "done"
    BY <1>1, <1>4 DEF MapInv
  <2>3. \A x \in Replica : x # r => transactions'[x][t] = "NONE"
    BY <1>1, <1>5, <2>2 DEF MapInv
  <2>4. MapInv(t)
    BY <1>1
  <2>5. CASE Op[q] = "capture"
    <3>1. transactions[r][t] = "AUTHORIZED" /\ transactions'[r][t] = "CAPTURED"
      BY <1>5, <2>5 DEF Allows, Becomes
    <3>2. /\ ~Succeeded("cancel", t)'
          /\ Succeeded("refund", t)' <=> Succeeded("refund", t)
      BY <1>3, <2>4, <2>5, <3>1 DEF MapInv, Moves
    <3> QED BY <2>1, <2>2, <2>3, <2>5, <3>1, <3>2 DEF MapInv
  <2>6. CASE Op[q] = "cancel"
    <3>1. transactions[r][t] \notin {"CAPTURED", "REFUNDED", "NONE"}
          /\ transactions'[r][t] = "CANCELLED"
      BY <1>5, <2>6 DEF Allows, Becomes
    <3>2. ~Succeeded("capture", t)' /\ ~Succeeded("refund", t)'
      BY <1>3, <2>4, <2>6, <3>1 DEF MapInv, Moves
    <3> QED BY <2>2, <2>3, <3>1, <3>2 DEF MapInv, Moves
  <2>7. CASE Op[q] = "refund"
    <3>1. transactions[r][t] = "CAPTURED" /\ transactions'[r][t] = "REFUNDED"
      BY <1>5, <2>7 DEF Allows, Becomes
    <3>2. Succeeded("capture", t)' /\ ~Succeeded("cancel", t)'
      BY <1>3, <2>4, <2>7, <3>1 DEF MapInv, Moves
    <3> QED BY <2>2, <2>3, <3>1, <3>2 DEF MapInv, Moves
  <2> QED BY <2>5, <2>6, <2>7 DEF Moves
<1> QED BY <1>6, <1>7

\* An error is no success.
LEMMA ErrorsDiffer ==
    ASSUME NEW c \in {400, 404, 409, 500}, NEW t
    PROVE  Error(c) \in Answer /\ Error(c) # Ok(200, t)
<1>1. Error(c).code = c /\ Ok(200, t).code = 200
  BY DEF Error, Ok
<1> QED BY <1>1, AnswerType

\* A request past the middleware is refused, goes on to create, or is served.
LEMMA ProceedStep ==
    ASSUME NEW q \in Request, NEW r \in Replica, NEW cmds, NEW w \in BOOLEAN,
           Stepping(q, r, cmds), w => Keyed(q), Proceed(q, r, cmds, w)
    PROVE  /\ \A p \in Request : answer[p] # None => answer'[p] = answer[p]
           /\ Answered' /\ AllLinked'
           /\ \A t \in Creates : MapInv(t)'
<1>1. CASE ~Passes(q)
  <2>1. Respond(q, r, Error(400), cmds, w) /\ UNCHANGED transactions
    BY <1>1 DEF Proceed
  <2>2. Error(400) \in Answer /\ \A t \in Creates : Error(400) # Ok(200, t)
    BY AnswerType, ErrorsDiffer
  <2> QED BY <2>1, <2>2, RespondStep, RespondMap
<1>2. CASE Passes(q) /\ Op[q] = "create"
  <2>1. /\ phase' = [phase EXCEPT ![q] = "connect"]
        /\ conn' = [conn EXCEPT ![r] = cmds]
        /\ UNCHANGED <<answer, transactions>>
    BY <1>2 DEF Proceed
  <2>2. /\ Types /\ AllLinked /\ Answered /\ answer[q] = None
        /\ \A t \in Creates : MapInv(t)
    BY DEF Stepping, LifecycleInv, AllLinked, Answered
  <2>3. /\ \A p \in Request \ {q} : phase'[p] = phase[p] /\ at'[p] = at[p]
        /\ Linked(r, cmds)'
    BY <2>1, <2>2, OthersLinked DEF Stepping, Types
  <2>4. AllLinked'
    BY <2>1, <2>2, <2>3, ConnStep DEF Stepping, AllLinked
  <2>5. ASSUME NEW t \in Creates
        PROVE  MapInv(t)'
    <3>1. phase[t] = "done" => phase'[t] = "done" /\ at'[t] = at[t]
      BY <2>3 DEF Stepping, Creates
    <3>2. \A op \in Moves : Succeeded(op, t)' <=> Succeeded(op, t)
      BY <2>1 DEF Succeeded
    <3> QED BY <2>1, <2>2, <3>1, <3>2, MapStays
  <2>6. Answered'
    BY <2>1, <2>2, <2>3 DEF Answered
  <2> QED BY <2>1, <2>4, <2>5, <2>6
<1>3. CASE Passes(q) /\ Op[q] # "create"
  <2>1. PICK t \in Creates : t = Target[q]
    BY GatewayAssumption
  <2>2. Operate(q, r, cmds, w)
    BY <1>3 DEF Proceed
  <2>3. \A a \in {Error(404), Error(409)} :
            a \in Answer /\ \A u \in Creates : a # Ok(200, u)
    BY AnswerType, ErrorsDiffer
  <2>4. CASE \E a \in {Error(404), Error(409)} : Respond(q, r, a, cmds, w) /\ UNCHANGED transactions
    BY <2>3, <2>4, RespondStep, RespondMap
  <2>5. CASE Op[q] = "get" /\ Respond(q, r, Ok(200, t), cmds, w) /\ UNCHANGED transactions
    <3>1. Op[q] \notin Moves
      BY <2>5 DEF Moves
    <3> QED BY <2>5, <3>1, SuccessIsAnswer, RespondStep, RespondMap
  <2>6. CASE /\ Op[q] # "get" /\ transactions[r][t] # "NONE"
             /\ Allows(Op[q], transactions[r][t])
             /\ Respond(q, r, Ok(200, t), cmds, w)
             /\ transactions' = [transactions EXCEPT ![r][t] = Becomes(Op[q])]
    <3>1. Op[q] \in Moves
      BY <1>3, <2>6, GatewayAssumption DEF Moves
    <3>2. Respond(q, r, Ok(200, t), cmds, w) /\ Ok(200, t) \in Answer
      BY <2>6, SuccessIsAnswer
    <3>3. /\ \A p \in Request : answer[p] # None => answer'[p] = answer[p]
          /\ Answered' /\ AllLinked'
      BY <3>2, RespondStep
    <3>4. \A u \in Creates : MapInv(u)'
      BY <2>1, <2>6, <3>1, GrantMap
    <3> QED BY <3>3, <3>4
  <2> QED BY <2>1, <2>2, <2>4, <2>5, <2>6 DEF Operate
<1> QED BY <1>1, <1>2, <1>3

LEMMA CacheStays ==
    ASSUME Types, CacheGiven, \A p \in Request : answer[p] # None => answer'[p] = answer[p],
           \A k \in Keys : cache'[k] \in {cache[k], None}
    PROVE  CacheGiven'
<1> SUFFICES ASSUME NEW k \in Keys, cache'[k] # None
             PROVE  GivenFor(k, cache[k])'
  BY DEF CacheGiven
<1>1. PICK a \in Answer : a = cache[k]
  BY DEF Types
<1>2. cache'[k] = a
  BY <1>1
<1>3. GivenFor(k, a)'
  BY <1>1, <1>2, GivenStays DEF CacheGiven
<1> QED BY <1>2, <1>3 DEF GivenFor

\* The four parts are the invariant.
LEMMA Parts ==
    /\ LifecycleInv <=>
           Answered /\ CacheGiven /\ AllLinked /\ \A t \in Creates : MapInv(t)
    /\ LifecycleInv' <=>
           Answered' /\ CacheGiven' /\ AllLinked' /\ \A t \in Creates : MapInv(t)'
BY DEF LifecycleInv, Answered, CacheGiven, AllLinked

-----------------------------------------------------------------------------
(* The actions *)

LEMMA ArriveLife ==
    ASSUME Types, LifecycleInv, NEW q \in Request, NEW r \in Replica, Arrive(q, r)
    PROVE  LifecycleInv'
<1>1. /\ phase[q] = "new" /\ cache' = cache /\ conn[r] \in Seq(Cmd)
      /\ \A p \in Request \ {q} : at'[p] = at[p]
      /\ at'[q] = r
  BY DEF Arrive, Types
<1>2. Stepping(q, r, conn[r])
  BY <1>1, ElsewhereNoLookup DEF Stepping, LifecycleInv
<1>3. CASE ~Keyed(q)
  <2>1. Proceed(q, r, conn[r], FALSE)
    BY <1>3 DEF Arrive
  <2>2. /\ \A p \in Request : answer[p] # None => answer'[p] = answer[p]
        /\ Answered' /\ AllLinked'
        /\ \A t \in Creates : MapInv(t)'
    BY <1>2, <2>1, ProceedStep
  <2>3. CacheGiven'
    BY <1>1, <2>2, Parts, CacheStays
  <2> QED BY <2>2, <2>3, Parts
<1>4. CASE Keyed(q)
  <2> DEFINE c == [op |-> "get", req |-> q]
  <2>1. /\ phase' = [phase EXCEPT ![q] = "lookup"]
        /\ conn' = [conn EXCEPT ![r] = Append(conn[r], c)]
        /\ UNCHANGED <<answer, transactions>>
    BY <1>4 DEF Arrive
  <2>2. /\ c \in Cmd
        /\ CmdLinked(r, c)'
        /\ NoLookup(c.req, conn[r])
    BY <1>1, <1>2, <1>4, <2>1 DEF Cmd, CmdLinked, Stepping, Types
  <2>3. /\ \A p \in Request \ {q} : phase'[p] = phase[p]
        /\ \A p \in Request : answer[p] # None => answer'[p] = answer[p]
    BY <2>1 DEF Types
  <2>4. PICK p \in Seq(Cmd) : p = conn[r] /\ Linked(r, p)
    BY <1>1 DEF LifecycleInv
  <2> HIDE DEF c
  <2>5. Linked(r, p)'
    BY <1>1, <1>2, <2>3, <2>4, OthersLinked DEF Stepping
  <2>6. Linked(r, Append(p, c))'
    BY <2>2, <2>4, <2>5, AppendLinked
  <2>7. AllLinked'
    BY <1>1, <2>1, <2>3, <2>4, <2>6, ConnStep DEF LifecycleInv, AllLinked
  <2>8. ASSUME NEW t \in Creates
        PROVE  MapInv(t)'
    <3>1. phase[t] = "done" => phase'[t] = "done" /\ at'[t] = at[t]
      BY <1>1, <2>3 DEF Creates
    <3>2. \A op \in Moves : Succeeded(op, t)' <=> Succeeded(op, t)
      BY <2>1 DEF Succeeded
    <3> QED BY <2>1, <3>1, <3>2, MapStays DEF LifecycleInv
  <2>9. Answered' /\ CacheGiven'
    BY <1>1, <2>1, <2>3, Parts, CacheStays DEF Answered
  <2> QED BY <2>7, <2>8, <2>9, Parts
<1> QED BY <1>3, <1>4

\* The middleware has its lookup answered or rejected: it replays what was
\* answered to the key before, or goes on.
LEMMA LookupLife ==
    ASSUME Types, InductiveInv, LifecycleInv, NEW r \in Replica,
           phase[Head(conn[r]).req] = "lookup",
           LookupReply(r) \/ (RedisRejects(r) /\ Head(conn[r]).op = "get")
    PROVE  LifecycleInv'
<1>1. conn[r] # <<>> /\ Head(conn[r]).op = "get" /\ UNCHANGED <<at, cache>>
  BY DEF LookupReply, Outstanding, RedisRejects
<1>2. PICK cmds \in Seq(Cmd) : cmds = Tail(conn[r])
  BY <1>1, BehindHead DEF LifecycleInv
<1>3. PICK q \in Request : q = Head(conn[r]).req /\ Keyed(q)
  BY <1>1, BehindHead DEF LifecycleInv, Cmd
<1>4. Stepping(q, r, cmds)
  BY <1>1, <1>2, <1>3, BehindHead DEF LifecycleInv, CmdLinked, Stepping
<1>5. CASE \E w \in BOOLEAN : Proceed(q, r, cmds, w)
  <2>1. /\ \A p \in Request : answer[p] # None => answer'[p] = answer[p]
        /\ Answered' /\ AllLinked'
        /\ \A t \in Creates : MapInv(t)'
    BY <1>3, <1>4, <1>5, ProceedStep
  <2>2. CacheGiven'
    BY <1>1, <2>1, Parts, CacheStays
  <2> QED BY <2>1, <2>2, Parts
<1>6. CASE /\ cache[Key[q]] # None
           /\ Respond(q, r, cache[Key[q]], cmds, FALSE) /\ UNCHANGED transactions
  <2>1. Key[q] \in Keys
    BY <1>3 DEF Keyed, Keys
  <2>2. PICK a \in Answer : a = cache[Key[q]]
    BY <1>6, <2>1 DEF Types
  <2>3. PICK p \in Request : Keyed(p) /\ Key[p] = Key[q] /\ answer[p] = a
    BY <1>6, <2>1, <2>2 DEF LifecycleInv, GivenFor
  <2>4. Op[p] = Op[q] /\ (Op[p] # "create" => Target[p] = Target[q])
    BY <1>3, <2>3, GatewayAssumption DEF Keyed
  <2>5. \A op \in Moves, t \in Creates :
            a = Ok(200, t) /\ Op[q] = op /\ Target[q] = t => Succeeded(op, t)
    BY <2>3, <2>4 DEF Succeeded, Moves
  <2>6. /\ \A x \in Request : answer[x] # None => answer'[x] = answer[x]
        /\ Answered' /\ AllLinked'
        /\ \A t \in Creates : MapInv(t)'
    BY <1>4, <1>6, <2>2, <2>5, RespondStep, RespondMap
  <2>7. CacheGiven'
    BY <1>1, <2>6, Parts, CacheStays
  <2> QED BY <2>6, <2>7, Parts
<1> QED BY <1>1, <1>2, <1>3, <1>5, <1>6 DEF LookupReply, RedisRejects

\* A command that no request waits for is gone, a setex perhaps applied.
Popped(r) ==
    /\ conn[r] # <<>>
    /\ conn' = [conn EXCEPT ![r] = Tail(@)]
    /\ Head(conn[r]).op = "setex" \/ phase[Head(conn[r]).req] = "gone"
    /\ \/ cache' = cache
       \/ /\ Head(conn[r]).op = "setex"
          /\ cache' = [cache EXCEPT ![Head(conn[r]).key] = Head(conn[r]).val]
    /\ UNCHANGED <<handlers, transactions, queue, up, ran, heard>>

\* A reply or a rejection is for a waiting request or for nobody.
LEMMA Replies ==
    ASSUME Types, LifecycleInv, NEW r \in Replica, RedisReply(r) \/ RedisRejects(r)
    PROVE  \/ Popped(r)
           \/ /\ phase[Head(conn[r]).req] = "lookup"
              /\ LookupReply(r) \/ (RedisRejects(r) /\ Head(conn[r]).op = "get")
<1>1. CASE LookupReply(r)
  BY <1>1 DEF LookupReply, Outstanding, Popped, handlers
<1>2. CASE CacheReply(r)
  BY <1>2 DEF CacheReply, Outstanding, Popped, handlers
<1>3. CASE RedisRejects(r)
  BY <1>3 DEF RedisRejects, Popped, handlers
<1> QED BY <1>1, <1>2, <1>3 DEF RedisReply

LEMMA PopLife ==
    ASSUME Types, LifecycleInv, NEW r \in Replica, Popped(r)
    PROVE  LifecycleInv'
<1>1. /\ conn[r] # <<>>
      /\ UNCHANGED <<phase, at, answer, transactions>>
      /\ conn' = [conn EXCEPT ![r] = Tail(conn[r])]
  BY DEF Popped, handlers
<1>2. PICK c \in Cmd : /\ c = Head(conn[r])
                       /\ c.op = "setex" => /\ c.key \in Keys /\ c.val \in Answer
                                            /\ GivenFor(c.key, c.val)
  BY <1>1, BehindHead DEF LifecycleInv, Cmd, CmdLinked
<1>3. cache' = cache \/ (c.op = "setex" /\ cache' = [cache EXCEPT ![c.key] = c.val])
  BY <1>1, <1>2 DEF Popped
<1>4. CacheGiven'
  <2> SUFFICES ASSUME NEW k \in Keys, cache'[k] # None
               PROVE  GivenFor(k, cache[k])'
    BY DEF CacheGiven
  <2>1. GivenFor(k, cache'[k])
    BY <1>2, <1>3 DEF LifecycleInv, Types
  <2> QED BY <1>1, <2>1 DEF GivenFor
<1>5. AllLinked'
  <2>1. Linked(r, Tail(conn[r]))
    BY <1>1, BehindHead DEF LifecycleInv
  <2>2. ASSUME NEW x \in Replica PROVE Linked(x, conn'[x])
    BY <1>1, <2>1 DEF LifecycleInv, Types
  <2>3. ASSUME NEW x \in Replica PROVE Linked(x, conn[x])'
    <3>1. \A i \in 1 .. Len(conn'[x]) : CmdLinked(x, conn'[x][i])
      BY <2>2 DEF Linked
    <3>2. \A d : CmdLinked(x, d) => CmdLinked(x, d)'
      BY <1>1 DEF CmdLinked, GivenFor
    <3> QED BY <2>2, <3>1, <3>2 DEF Linked, OneLookup
  <2> QED BY <2>3 DEF AllLinked
<1>6. Answered' /\ \A t \in Creates : MapInv(t)'
  BY <1>1 DEF LifecycleInv, Answered, MapInv, Succeeded
<1> QED BY <1>4, <1>5, <1>6, Parts

\* The end of createTransaction: until then nobody could be told anything.
LEMMA FinishLife ==
    ASSUME Types, InductiveInv, LifecycleInv, NEW q \in Request, phase[q] \in {"connect", "close"},
           NEW st \in {"AUTHORIZED", "FAILED"}, NEW a \in Answer, a.code # 200,
           Finish(q, st, a)
    PROVE  LifecycleInv'
<1>1. /\ at[q] \in Replica /\ q \in Creates /\ wrapped[q] \in BOOLEAN
      /\ wrapped[q] => Keyed(q)
      /\ conn[at[q]] \in Seq(Cmd)
  BY DEF InductiveInv, TypeOK, RequestInv
<1>2. PICK r \in Replica : r = at[q]
  BY <1>1
<1>3. /\ transactions' = [transactions EXCEPT ![r][q] = st]
      /\ Respond(q, r, a, conn[r], wrapped[q]) /\ UNCHANGED <<at, cache>>
  BY <1>2 DEF Finish
<1>4. Stepping(q, r, conn[r])
  BY <1>1, <1>2, <1>3, ElsewhereNoLookup DEF Stepping, LifecycleInv
<1>5. /\ \A p \in Request : answer[p] # None => answer'[p] = answer[p]
      /\ Answering(q, a) /\ phase' = [phase EXCEPT ![q] = "done"]
      /\ Answered' /\ AllLinked'
  BY <1>1, <1>3, <1>4, RespondStep
<1>6. \A t \in Creates : a # Ok(200, t)
  BY DEF Ok
<1>7. \A op \in Moves, t \in Creates : Succeeded(op, t)' <=> Succeeded(op, t)
  BY <1>5, <1>6, SameSuccess
<1>8. ASSUME NEW t \in Creates, t # q
      PROVE  MapInv(t)'
  <2>1. phase[t] = "done" => phase'[t] = "done" /\ at'[t] = at[t]
    BY <1>3, <1>5, <1>8 DEF Types, Creates
  <2>2. \A x \in Replica : transactions'[x][t] = transactions[x][t]
    BY <1>3, <1>8 DEF Types
  <2> QED BY <1>7, <2>1, <2>2, MapStays DEF LifecycleInv
<1>9. MapInv(q)'
  <2>1. MapInv(q) /\ phase[q] # "done"
    BY <1>1 DEF LifecycleInv
  <2>2. \A op \in Moves : ~Succeeded(op, q)'
    BY <1>1, <1>7, <2>1 DEF MapInv
  <2>3. /\ phase'[q] = "done" /\ at'[q] = r
        /\ transactions'[r][q] = st
        /\ \A x \in Replica : x # r => transactions'[x][q] = "NONE"
    BY <1>1, <1>2, <1>3, <1>5, <2>1 DEF MapInv, Types
  <2> QED BY <2>2, <2>3 DEF MapInv, Moves
<1>10. CacheGiven'
  BY <1>3, <1>5, Parts, CacheStays
<1> QED BY <1>5, <1>8, <1>9, <1>10, Parts

\* The steps of createTransaction.
LEMMA ServeLife ==
    ASSUME Types, InductiveInv, LifecycleInv, NEW q \in Request, Serve(q) \/ BrokerFails(q)
    PROVE  LifecycleInv'
<1>1. CASE Connected(q)
  <2>1. /\ phase[q] = "connect" /\ phase' = [phase EXCEPT ![q] = "close"]
        /\ UNCHANGED <<at, answer, transactions, cache, conn>>
    BY <1>1 DEF Connected
  <2>2. /\ \A p \in Request : phase[p] = "done" <=> phase'[p] = "done"
        /\ \A p \in Request : phase[p] = "lookup" => phase'[p] = "lookup"
    BY <2>1 DEF Types
  <2>3. ASSUME NEW r \in Replica
        PROVE  Linked(r, conn[r])'
    <3>1. PICK p \in Seq(Cmd) : p = conn[r] /\ Linked(r, p)
      BY DEF LifecycleInv, Types
    <3>2. NoLookup(q, p)
      BY <2>1, <3>1 DEF Linked, CmdLinked, NoLookup
    <3>3. Linked(r, p)'
      BY <2>1, <3>1, <3>2, OthersLinked DEF Types
    <3> QED BY <2>1, <3>1, <3>3
  <2>4. ASSUME NEW t \in Creates
        PROVE  MapInv(t)'
    BY <2>1, <2>2 DEF LifecycleInv, MapInv, Succeeded, Creates
  <2>5. Answered' /\ CacheGiven'
    BY <2>1, <2>2 DEF LifecycleInv, Answered, CacheGiven, GivenFor
  <2> QED BY <2>3, <2>4, <2>5, Parts DEF AllLinked
<1>2. CASE BrokerAccepts(q)
  <2>1. UNCHANGED <<phase, at, answer, transactions, cache, conn>>
    BY <1>2 DEF BrokerAccepts, handlers
  <2> QED BY <2>1 DEF LifecycleInv, Linked, CmdLinked, GivenFor, MapInv, Succeeded
<1>3. CASE Closed(q)
  <2>1. q \in Creates
    BY <1>3 DEF Closed, InductiveInv, RequestInv
  <2>2. Ok(201, q) \in Answer /\ Ok(201, q).code # 200
    <3>1. Ok(201, q).code = 201
      BY DEF Ok
    <3> QED BY <2>1, <3>1, AnswerType
  <2> QED BY <1>3, <2>2, FinishLife DEF Closed
<1>4. CASE BrokerFails(q)
  <2>1. Error(500) \in Answer /\ Error(500).code # 200
    BY AnswerType DEF Error
  <2> QED BY <1>4, <2>1, FinishLife DEF BrokerFails
<1> QED BY <1>1, <1>2, <1>3, <1>4 DEF Serve

\* A replica dies with its Map: nobody can act on its transactions any more.
LEMMA CrashLife ==
    ASSUME Types, LifecycleInv, NEW r \in Replica, Crash(r)
    PROVE  LifecycleInv'
<1>1. /\ UNCHANGED <<at, answer, cache>>
      /\ phase' = [q \in Request |->
             IF at[q] = r /\ phase[q] # "done" THEN "gone" ELSE phase[q]]
      /\ transactions' = [transactions EXCEPT ![r] = [t \in Creates |-> "NONE"]]
  BY DEF Crash
<1>0. PICK n \in 0 .. Len(conn[r]) : conn' = [conn EXCEPT ![r] = SubSeq(@, 1, n)]
  BY DEF Crash
<1>2. \A q \in Request : /\ phase[q] = "done" => phase'[q] = "done"
                         /\ at[q] # r => phase'[q] = phase[q]
  BY <1>1
<1>3. ASSUME NEW x \in Replica
      PROVE  Linked(x, conn[x])'
  <2>1. CASE x = r
    <3>1. PICK p \in Seq(Cmd) : p = conn[r] /\ Linked(r, p) /\ conn'[x] = SubSeq(p, 1, n)
      BY <1>0, <2>1 DEF Types, LifecycleInv
    <3>2. /\ Len(SubSeq(p, 1, n)) = n /\ n \in 0 .. Len(p) /\ Len(p) \in Nat
          /\ \A i \in 1 .. n : SubSeq(p, 1, n)[i] = p[i] /\ i \in 1 .. Len(p)
      BY <3>1
    <3>3. ASSUME NEW i \in 1 .. n
          PROVE  CmdLinked(x, p[i])'
      <4>1. p[i] \in Cmd /\ CmdLinked(x, p[i])
        BY <2>1, <3>1, <3>2 DEF Linked
      <4> QED BY <1>1, <2>1, <4>1 DEF CmdLinked, GivenFor, Cmd
    <3>4. PICK s \in Seq(Cmd) : s = SubSeq(p, 1, n)
      <4>1. \A i \in 1 .. n : p[i] \in Cmd
        BY <3>1, <3>2
      <4>2. SubSeq(p, 1, n) \in Seq(Cmd)
        BY <4>1, SubSeqProperties
      <4> QED BY <4>2
    <3>5. OneLookup(s)
      BY <3>1, <3>2, <3>4 DEF Linked, OneLookup
    <3>6. Linked(x, s)'
      BY <3>2, <3>3, <3>4, <3>5 DEF Linked
    <3> QED BY <3>1, <3>4, <3>6
  <2>2. CASE x # r
    <3>1. conn'[x] = conn[x] /\ conn[x] \in Seq(Cmd)
      BY <1>0, <2>2 DEF Types
    <3>2. ASSUME NEW i \in 1 .. Len(conn[x])
          PROVE  CmdLinked(x, conn[x][i])'
      <4>1. conn[x][i] \in Cmd /\ CmdLinked(x, conn[x][i])
        BY <3>1 DEF LifecycleInv, Linked
      <4> QED BY <1>1, <1>2, <2>2, <3>1, <4>1 DEF CmdLinked, GivenFor, Cmd
    <3> QED BY <3>1, <3>2 DEF LifecycleInv, Linked, OneLookup
  <2> QED BY <2>1, <2>2
<1>4. ASSUME NEW t \in Creates
      PROVE  MapInv(t)'
  <2>1. \A x \in Replica : transactions'[x][t] \in {transactions[x][t], "NONE"}
    BY <1>1 DEF Types
  <2>2. \A op \in Moves : Succeeded(op, t)' <=> Succeeded(op, t)
    BY <1>1 DEF Succeeded
  <2>3. phase[t] = "done" => phase'[t] = "done" /\ at'[t] = at[t]
    BY <1>1, <1>2 DEF Creates
  <2> QED BY <2>1, <2>2, <2>3, MapStays DEF LifecycleInv
<1>5. Answered' /\ CacheGiven'
  BY <1>1, <1>2 DEF LifecycleInv, Answered, CacheGiven, GivenFor
<1> QED BY <1>3, <1>4, <1>5, Parts DEF AllLinked

\* Steps that no request, Map or connection notices.
LEMMA QuietLife ==
    ASSUME Types, LifecycleInv, UNCHANGED <<phase, at, answer, transactions, conn>>,
           \A k \in Keys : cache'[k] \in {cache[k], None}
    PROVE  LifecycleInv'
<1>1. CacheGiven'
  BY Parts, CacheStays
<1> QED BY <1>1, Parts DEF LifecycleInv, Answered, AllLinked, Linked, CmdLinked, GivenFor,
                           MapInv, Succeeded

LEMMA NextLife ==
    ASSUME InductiveInv, LifecycleInv, [Next]_vars
    PROVE  LifecycleInv'
<1>1. Types
  BY TypesHold
<1>2. CASE \E q \in Request, r \in Replica : Arrive(q, r)
  BY <1>1, <1>2, ArriveLife
<1>3. CASE \E q \in Request : Serve(q) \/ BrokerFails(q)
  BY <1>1, <1>3, ServeLife
<1>4. ASSUME NEW r \in Replica, RedisReply(r) \/ RedisRejects(r)
      PROVE  LifecycleInv'
  BY <1>1, <1>4, Replies, LookupLife, PopLife
<1>5. ASSUME NEW r \in Replica, Crash(r)
      PROVE  LifecycleInv'
  BY <1>1, <1>5, CrashLife
<1>6. ASSUME NEW r \in Replica, Restart(r)
      PROVE  LifecycleInv'
  BY <1>1, <1>6, QuietLife DEF Restart, handlers
<1>7. ASSUME NEW k \in Keys, KeyExpires(k)
      PROVE  LifecycleInv'
  <2>1. \A j \in Keys : cache'[j] \in {cache[j], None}
    BY <1>1, <1>7 DEF KeyExpires, Types
  <2> QED BY <1>1, <1>7, <2>1, QuietLife DEF KeyExpires, handlers
<1>8. CASE UNCHANGED vars
  BY <1>1, <1>8, QuietLife DEF vars, handlers
<1> QED BY <1>2, <1>3, <1>4, <1>5, <1>6, <1>7, <1>8 DEF Next

LEMMA InitLife ==
    ASSUME Init
    PROVE  LifecycleInv
<1>1. \A op \in Moves, t \in Creates : ~Succeeded(op, t)
  BY SuccessIsAnswer DEF Init, Succeeded
<1>2. \A t \in Creates : MapInv(t)
  BY <1>1 DEF Init, MapInv, Moves
<1> QED BY <1>2 DEF Init, LifecycleInv, Linked, OneLookup

\* Whatever replicas served them and whatever was replayed, the clients of a
\* transaction never see it captured and cancelled, nor refunded uncaptured.
THEOREM AnswersAreConsistent == Spec => []AnswersFollowLifecycle
<1>1. Init => LifecycleInv
  BY InitLife
<1>2. InductiveInv /\ LifecycleInv /\ [Next]_vars => LifecycleInv'
  BY NextLife
<1>3. LifecycleInv => AnswersFollowLifecycle
  BY DEF LifecycleInv, MapInv, AnswersFollowLifecycle
<1> QED BY <1>1, <1>2, <1>3, Invariance, PTL DEF Spec

-----------------------------------------------------------------------------
(* Retries *)

\* The answer to a key is in the cache, or on its way among the first n commands.
Secured(key, cmds, n) ==
    \/ cache[key] # None
    \/ \E i \in 1 .. n : cmds[i].op = "setex" /\ cmds[i].key = key

\* Ahead of the lookup of a retry is what its replica had answered before.
ConnSafe(r, cmds) ==
    \A i \in 1 .. Len(cmds) : cmds[i].op = "get" =>
        \A p \in heard[cmds[i].req] : at[p] = r => Secured(Key[cmds[i].req], cmds, i - 1)

\* A keyed answer is secured at the replica that gave it.
AnswerSafe(q) ==
    Keyed(q) /\ answer[q] # None =>
        at[q] \in Replica /\ Secured(Key[q], conn[at[q]], Len(conn[at[q]]))

\* A request in createTransaction will cache its answer if it has a key.
WillCache(q) == Keyed(q) /\ phase[q] \in {"connect", "close"} => wrapped[q]

\* A request heard of was answered, and one that ran has arrived.
HeardInv ==
    \A q \in Request :
        /\ q \in ran => phase[q] # "new"
        /\ \A p \in heard[q] : Key[p] = Key[q] /\ answer[p] # None

\* What holds as long as there was no fault.
Orderly ==
    /\ \A q \in Request : WillCache(q) /\ AnswerSafe(q)
    /\ \A r \in Replica : ConnSafe(r, conn[r])
    /\ \A q \in ran : \A p \in heard[q] : at[p] # at[q]

RetryInv == HeardInv /\ (faults = 0 => Orderly)

-----------------------------------------------------------------------------

\* What the steps below leave as it was: caches, answers and their replicas.
Kept ==
    /\ \A k \in Keys : cache[k] # None => cache'[k] # None
    /\ \A p \in Request : answer[p] # None => answer'[p] = answer[p] /\ at'[p] = at[p]

LEMMA SecuredStays ==
    ASSUME Kept, NEW key \in Keys, NEW cmds, NEW n, Secured(key, cmds, n)
    PROVE  Secured(key, cmds, n)'
BY DEF Kept, Secured

\* The head is answered: what it was to store is stored.
LEMMA SecuredBehind ==
    ASSUME Kept, NEW key \in Keys, NEW p \in Seq(Cmd), p # <<>>, NEW n \in 0 .. Len(p),
           p[1].op = "setex" => cache'[p[1].key] # None,
           Secured(key, p, n)
    PROVE  Secured(key, Tail(p), n - 1)'
<1>1. CASE cache[key] # None
  BY <1>1 DEF Secured, Kept
<1>2. CASE \E i \in 1 .. n : p[i].op = "setex" /\ p[i].key = key
  <2>1. PICK i \in 1 .. n : p[i].op = "setex" /\ p[i].key = key
    BY <1>2
  <2>2. CASE i = 1
    BY <2>1, <2>2 DEF Secured
  <2>3. CASE i # 1
    <3>1. i - 1 \in 1 .. n - 1 /\ Tail(p)[i - 1] = p[i]
      BY <2>1, <2>3
    <3> QED BY <2>1, <3>1 DEF Secured
  <2> QED BY <2>2, <2>3
<1> QED BY <1>1, <1>2 DEF Secured

LEMMA SecuredBefore ==
    ASSUME NEW key, NEW p \in Seq(Cmd), NEW c, NEW n \in 0 .. Len(p), Secured(key, p, n)'
    PROVE  Secured(key, Append(p, c), n)'
BY DEF Secured

\* The lookups of other requests are as safe as before ...
LEMMA SafeStays ==
    ASSUME Types, HeardInv, Kept, NEW q \in Request, NEW r \in Replica, NEW p \in Seq(Cmd),
           \A x \in Request \ {q} : heard'[x] = heard[x], heard \in [Request -> SUBSET Request],
           NoLookup(q, p) \/ heard' = heard, ConnSafe(r, p)
    PROVE  ConnSafe(r, p)'
<1> SUFFICES ASSUME NEW i \in 1 .. Len(p), p[i].op = "get",
                    NEW x \in heard'[p[i].req], at'[x] = r
             PROVE  Secured(Key[p[i].req], p, i - 1)'
  BY DEF ConnSafe
<1>1. p[i].req \in Request /\ Keyed(p[i].req) /\ Key[p[i].req] \in Keys
  BY DEF Cmd, Keyed, Keys
<1>2. x \in heard[p[i].req]
  BY <1>1 DEF NoLookup
<1>3. at[x] = r
  BY <1>1, <1>2 DEF HeardInv, Kept
<1>4. Secured(Key[p[i].req], p, i - 1)
  BY <1>2, <1>3 DEF ConnSafe
<1> QED BY <1>1, <1>4, SecuredStays

\* ... when the head is answered ...
LEMMA SafeBehind ==
    ASSUME Types, HeardInv, Kept, NEW r \in Replica, NEW p \in Seq(Cmd), p # <<>>,
           p[1].op = "setex" => cache'[p[1].key] # None,
           heard' = heard, heard \in [Request -> SUBSET Request], ConnSafe(r, p)
    PROVE  ConnSafe(r, Tail(p))'
<1> SUFFICES ASSUME NEW i \in 1 .. Len(Tail(p)), Tail(p)[i].op = "get",
                    NEW x \in heard[Tail(p)[i].req], at'[x] = r
             PROVE  Secured(Key[Tail(p)[i].req], Tail(p), i - 1)'
  BY DEF ConnSafe
<1>1. PICK c \in Cmd : c = Tail(p)[i] /\ c = p[i + 1]
  OBVIOUS
<1>2. c.req \in Request /\ Key[c.req] \in Keys
  BY <1>1 DEF Cmd, Keyed, Keys
<1>3. at[x] = r
  BY <1>1, <1>2 DEF HeardInv, Kept
<1>4. i + 1 \in 1 .. Len(p) /\ i \in 0 .. Len(p) /\ (i + 1) - 1 = i
  OBVIOUS
<1>5. Secured(Key[c.req], p, i)
  BY <1>1, <1>3, <1>4 DEF ConnSafe
<1> QED BY <1>1, <1>2, <1>4, <1>5, SecuredBehind

\* ... and when a command is added whose request needs nothing it has not.
LEMMA SafeBefore ==
    ASSUME NEW r \in Replica, NEW p \in Seq(Cmd), NEW c \in Cmd, ConnSafe(r, p)',
           c.op = "get" => \A x \in heard'[c.req] : at'[x] = r => Secured(Key[c.req], p, Len(p))'
    PROVE  ConnSafe(r, Append(p, c))'
<1> DEFINE new == Append(p, c)
<1>1. /\ Len(new) = Len(p) + 1 /\ Len(p) \in Nat /\ new[Len(p) + 1] = c
      /\ \A i \in 1 .. Len(p) : new[i] = p[i]
      /\ \A i \in 1 .. Len(new) : i \in 1 .. Len(p) \/ i = Len(p) + 1
  OBVIOUS
<1> SUFFICES ASSUME NEW i \in 1 .. Len(new), new[i].op = "get",
                    NEW x \in heard'[new[i].req], at'[x] = r
             PROVE  Secured(Key[new[i].req], new, i - 1)'
  BY DEF ConnSafe
<1>2. CASE i \in 1 .. Len(p)
  <2>1. new[i] = p[i] /\ i - 1 \in 0 .. Len(p)
    BY <1>1, <1>2
  <2>2. Secured(Key[p[i].req], p, i - 1)'
    BY <1>2, <2>1 DEF ConnSafe
  <2> QED BY <2>1, <2>2, SecuredBefore
<1>3. CASE i = Len(p) + 1
  <2>1. new[i] = c /\ i - 1 = Len(p) /\ Len(p) \in 0 .. Len(p)
    BY <1>1, <1>3
  <2>2. Secured(Key[c.req], p, Len(p))'
    BY <2>1
  <2> QED BY <2>1, <2>2, SecuredBefore
<1> QED BY <1>1, <1>2, <1>3

\* One request takes its step at replica r, whose commands become new.
LEMMA OrderStep ==
    ASSUME Types, HeardInv, Orderly, Kept, heard \in [Request -> SUBSET Request],
           NEW q \in Request, NEW r \in Replica, NEW new,
           \A x \in Request \ {q} : answer'[x] = answer[x] /\ heard'[x] = heard[x],
           \A x \in Replica : x # r => NoLookup(q, conn[x]),
           conn' = [conn EXCEPT ![r] = new], ConnSafe(r, new)', AnswerSafe(q)',
           \A k \in Keys : Secured(k, conn[r], Len(conn[r])) => Secured(k, new, Len(new))'
    PROVE  (\A x \in Replica : ConnSafe(x, conn[x]))' /\ (\A x \in Request : AnswerSafe(x))'
<1>1. conn'[r] = new /\ \A x \in Replica \ {r} : conn'[x] = conn[x]
  BY DEF Types
<1>2. ASSUME NEW x \in Replica, x # r
      PROVE  ConnSafe(x, conn[x])'
  <2>1. PICK p \in Seq(Cmd) : p = conn[x] /\ NoLookup(q, p) /\ ConnSafe(x, p)
    BY <1>2 DEF Types, Orderly
  <2>2. ConnSafe(x, p)'
    BY <2>1, SafeStays
  <2> QED BY <1>1, <1>2, <2>1, <2>2
<1>3. ASSUME NEW x \in Request, x # q, Keyed(x), answer'[x] # None
      PROVE  at'[x] \in Replica /\ Secured(Key[x], conn[at[x]], Len(conn[at[x]]))'
  <2>1. /\ answer[x] # None /\ at'[x] = at[x] /\ at[x] \in Replica /\ Key[x] \in Keys
        /\ Secured(Key[x], conn[at[x]], Len(conn[at[x]]))
    BY <1>3 DEF Kept, Orderly, AnswerSafe, Keyed, Keys
  <2>2. CASE at[x] = r
    <3>1. Secured(Key[x], new, Len(new))'
      BY <2>1, <2>2
    <3> QED BY <1>1, <2>1, <2>2, <3>1
  <2>3. CASE at[x] # r
    <3>1. conn'[at'[x]] = conn[at[x]]
      BY <1>1, <2>1, <2>3
    <3> QED BY <2>1, <3>1 DEF Secured, Kept
  <2> QED BY <2>2, <2>3
<1> QED BY <1>1, <1>2, <1>3 DEF AnswerSafe, Keyed

-----------------------------------------------------------------------------
(* What every step keeps *)

\* Past the middleware a request is answered or goes on to create.
LEMMA ProceedForms ==
    ASSUME NEW q \in Request, NEW r, NEW cmds, NEW w, Proceed(q, r, cmds, w)
    PROVE  /\ ran' = ran \cup {q}
           /\ \/ \E a \in Answer : Respond(q, r, a, cmds, w)
              \/ /\ phase' = [phase EXCEPT ![q] = "connect"]
                 /\ wrapped' = [wrapped EXCEPT ![q] = w]
                 /\ conn' = [conn EXCEPT ![r] = cmds]
                 /\ answer' = answer
<1>1. PICK t \in Creates : t = Target[q]
  BY GatewayAssumption
<1>2. /\ Error(400) \in Answer /\ Error(404) \in Answer /\ Error(409) \in Answer
      /\ Ok(200, t) \in Answer
  BY AnswerType
<1>3. CASE ~Passes(q)
  BY <1>2, <1>3 DEF Proceed
<1>4. CASE Passes(q) /\ Op[q] = "create"
  BY <1>4 DEF Proceed
<1>5. CASE Passes(q) /\ Op[q] # "create"
  BY <1>1, <1>2, <1>5 DEF Proceed, Operate
<1> QED BY <1>3, <1>4, <1>5

\* A step that moves the request q only, which is not over.
Moving(q) ==
    /\ answer[q] = None /\ phase'[q] # "new"
    /\ \A p \in Request \ {q} : phase'[p] = phase[p] /\ answer'[p] = answer[p]

LEMMA RespondMoves ==
    ASSUME Types, Answered, NEW q \in Request, phase[q] # "done",
           NEW r, NEW a, NEW cmds, NEW w, Respond(q, r, a, cmds, w)
    PROVE  Moving(q)
BY DEF Types, Answered, Respond, Moving

LEMMA ProceedMoves ==
    ASSUME Types, Answered, NEW q \in Request, phase[q] # "done",
           NEW r, NEW cmds, NEW w, Proceed(q, r, cmds, w)
    PROVE  Moving(q) /\ ran' = ran \cup {q}
<1>1. CASE \E a \in Answer : Respond(q, r, a, cmds, w)
  BY <1>1, RespondMoves, ProceedForms
<1>2. CASE phase' = [phase EXCEPT ![q] = "connect"] /\ answer' = answer
  BY <1>2, ProceedForms DEF Types, Answered, Moving
<1> QED BY <1>1, <1>2, ProceedForms

\* The replica whose lookup is answered or rejected serves a waiting request.
LEMMA LookupMoves ==
    ASSUME Types, LifecycleInv, NEW r \in Replica, phase[Head(conn[r]).req] = "lookup",
           LookupReply(r) \/ (RedisRejects(r) /\ Head(conn[r]).op = "get")
    PROVE  /\ Head(conn[r]).req \in Request /\ Moving(Head(conn[r]).req)
           /\ ran' \in {ran, ran \cup {Head(conn[r]).req}}
<1>1. conn[r] # <<>> /\ Head(conn[r]).op = "get"
  BY DEF LookupReply, Outstanding, RedisRejects
<1>2. PICK q \in Request : q = Head(conn[r]).req /\ phase[q] = "lookup"
  BY <1>1, BehindHead DEF LifecycleInv, Cmd, CmdLinked
<1>3. \/ \E w : Proceed(q, r, Tail(conn[r]), w)
      \/ Respond(q, r, cache[Key[q]], Tail(conn[r]), FALSE) /\ ran' = ran
  BY <1>1, <1>2 DEF LookupReply, RedisRejects
<1>4. Answered
  BY Parts
<1> QED BY <1>2, <1>3, <1>4, ProceedMoves, RespondMoves

LEMMA HeardStays ==
    ASSUME HeardInv, heard' = heard, \A p \in Request : answer[p] # None => answer'[p] = answer[p],
           \A p \in Request : phase[p] # "new" => phase'[p] # "new",
           \A p \in Request : p \in ran' => p \in ran \/ phase'[p] # "new",
           heard \in [Request -> SUBSET Request]
    PROVE  HeardInv'
BY DEF HeardInv

LEMMA HeardStep ==
    ASSUME InductiveInv, LifecycleInv, HeardInv, [Next]_vars
    PROVE  HeardInv'
<1>1. Types /\ Answered /\ heard \in [Request -> SUBSET Request]
  BY TypesHold, Parts DEF InductiveInv, TypeOK
<1>2. ASSUME NEW q \in Request, Moving(q), heard' = heard, ran' \in {ran, ran \cup {q}}
      PROVE  HeardInv'
  BY <1>1, <1>2, HeardStays DEF Moving
<1>3. ASSUME NEW q \in Request, NEW r \in Replica, Arrive(q, r)
      PROVE  HeardInv'
  <2>1. phase[q] = "new" /\ answer[q] = None /\ q \notin ran
    BY <1>1, <1>3 DEF Arrive, Answered, HeardInv
  <2>2. Moving(q) /\ ran' \in {ran, ran \cup {q}}
    BY <1>1, <1>3, <2>1, ProceedMoves DEF Arrive, Moving, Types
  <2>3. /\ \A p \in Request \ {q} : heard'[p] = heard[p]
        /\ \A p \in heard'[q] : p \in Request /\ Key[p] = Key[q] /\ answer[p] # None
    BY <1>1, <1>3 DEF Arrive
  <2>4. \A p \in Request : answer[p] # None => answer'[p] = answer[p]
    BY <2>2 DEF Moving
  <2>5. ASSUME NEW x \in Request
        PROVE  /\ x \in ran' => phase'[x] # "new"
               /\ \A p \in heard'[x] : Key[p] = Key[x] /\ answer'[p] # None
    BY <1>1, <2>2, <2>3, <2>4 DEF Moving, HeardInv
  <2> QED BY <2>5 DEF HeardInv
<1>4. ASSUME NEW r \in Replica, RedisReply(r) \/ RedisRejects(r)
      PROVE  HeardInv'
  <2>1. CASE /\ phase[Head(conn[r]).req] = "lookup"
             /\ LookupReply(r) \/ (RedisRejects(r) /\ Head(conn[r]).op = "get")
    <3>1. heard' = heard
      BY <2>1 DEF LookupReply, RedisRejects
    <3> QED BY <1>1, <1>2, <2>1, <3>1, LookupMoves
  <2>2. CASE Popped(r)
    <3>1. UNCHANGED <<phase, answer, ran, heard>>
      BY <2>2 DEF Popped, handlers
    <3> QED BY <1>1, <3>1, HeardStays
  <2> QED BY <1>1, <1>4, <2>1, <2>2, Replies
<1>5. ASSUME NEW q \in Request, Serve(q) \/ BrokerFails(q)
      PROVE  HeardInv'
  <2>1. CASE BrokerAccepts(q)
    BY <1>1, <2>1, HeardStays DEF BrokerAccepts, handlers
  <2>2. CASE Connected(q) \/ Closed(q) \/ BrokerFails(q)
    <3>1. /\ phase[q] # "done" /\ UNCHANGED <<ran, heard>>
          /\ Connected(q) \/ \E r, a, cmds, w : Respond(q, r, a, cmds, w)
      BY <2>2 DEF Connected, Closed, BrokerFails, Finish
    <3>2. Moving(q)
      BY <1>1, <3>1, RespondMoves DEF Connected, Types, Answered, Moving
    <3> QED BY <1>2, <3>1, <3>2
  <2> QED BY <1>5, <2>1, <2>2 DEF Serve
<1>6. ASSUME NEW r \in Replica, Crash(r) \/ Restart(r)
      PROVE  HeardInv'
  BY <1>1, <1>6, HeardStays DEF Crash, Restart, handlers
<1>7. ASSUME NEW k \in Keys, KeyExpires(k)
      PROVE  HeardInv'
  BY <1>1, <1>7, HeardStays DEF KeyExpires, handlers
<1>8. CASE UNCHANGED vars
  BY <1>1, <1>8, HeardStays DEF vars, handlers
<1> QED BY <1>3, <1>4, <1>5, <1>6, <1>7, <1>8 DEF Next

-----------------------------------------------------------------------------
(* Without faults a retry finds the answer *)

\* Request q takes a step at replica r, which has been told the replies before
\* cmds; what was secured there stays so.
Serving(q, r, cmds) ==
    /\ Stepping(q, r, cmds) /\ HeardInv /\ Orderly /\ Kept
    /\ heard \in [Request -> SUBSET Request]
    /\ \A x \in Request \ {q} : heard'[x] = heard[x]
    /\ \A x \in Replica : x # r => NoLookup(q, conn[x])
    /\ at'[q] = r

\* The commands a reply left behind are as safe and store as much.
Passed(r, cmds) ==
    /\ ConnSafe(r, cmds)'
    /\ \A k \in Keys : Secured(k, conn[r], Len(conn[r])) => Secured(k, cmds, Len(cmds))'

\* Orderly without its last part.
InOrder ==
    /\ \A q \in Request : WillCache(q) /\ AnswerSafe(q)
    /\ \A r \in Replica : ConnSafe(r, conn[r])

LEMMA RespondOrder ==
    ASSUME NEW q \in Request, NEW r \in Replica, NEW cmds, NEW a \in Answer, NEW w \in BOOLEAN,
           Serving(q, r, cmds), Passed(r, cmds), w => Keyed(q), Respond(q, r, a, cmds, w),
           Keyed(q) => w \/ cache'[Key[q]] # None
    PROVE  InOrder'
<1>1. /\ Types /\ HeardInv /\ Orderly /\ Kept /\ cmds \in Seq(Cmd)
      /\ heard \in [Request -> SUBSET Request]
      /\ \A x \in Request \ {q} : heard'[x] = heard[x]
      /\ \A x \in Replica : x # r => NoLookup(q, conn[x])
  BY DEF Serving, Stepping
<1>2. Answering(q, a)
  BY RespondStep DEF Serving
<1> DEFINE c == [op |-> "setex", key |-> Key[q], val |-> a]
           new == IF w THEN Append(cmds, c) ELSE cmds
<1>3. conn' = [conn EXCEPT ![r] = new]
  BY DEF Respond, Caches
<1>4. w => c \in Cmd /\ c.op = "setex"
  <2>1. w => c \in [op : {"setex"}, key : Keys, val : Answer]
    BY DEF Keyed, Keys
  <2> QED BY <2>1 DEF Cmd
<1>5. /\ ConnSafe(r, new)'
      /\ \A k \in Keys : Secured(k, conn[r], Len(conn[r])) => Secured(k, new, Len(new))'
  <2>1. CASE ~w
    BY <2>1 DEF Passed
  <2>2. CASE w
    <3>1. PICK d \in Cmd : d = c /\ d.op = "setex"
      BY <1>4, <2>2
    <3>2. new = Append(cmds, d)
      BY <2>2, <3>1
    <3> HIDE DEF new, c
    <3>3. ConnSafe(r, new)'
      BY <1>1, <3>1, <3>2, SafeBefore DEF Passed
    <3>4. ASSUME NEW k \in Keys, Secured(k, conn[r], Len(conn[r]))
          PROVE  Secured(k, new, Len(new))'
      <4>1. Secured(k, cmds, Len(cmds))' /\ Len(cmds) \in 0 .. Len(cmds)
            /\ Len(new) = Len(cmds) + 1
        BY <1>1, <3>2, <3>4 DEF Passed
      <4>2. Secured(k, new, Len(cmds))'
        BY <1>1, <3>2, <4>1, SecuredBefore
      <4> QED BY <1>1, <4>1, <4>2 DEF Secured
    <3> QED BY <3>3, <3>4
  <2> QED BY <2>1, <2>2
<1>6. AnswerSafe(q)'
  <2> SUFFICES ASSUME Keyed(q)
               PROVE  at'[q] \in Replica /\ Secured(Key[q], conn[at[q]], Len(conn[at[q]]))'
    BY DEF AnswerSafe, Keyed
  <2>1. at'[q] = r /\ conn'[r] = new
    BY <1>1, <1>3 DEF Serving, Types
  <2>2. CASE ~w
    BY <2>1, <2>2 DEF Secured
  <2>3. CASE w
    <3>1. PICK n \in Nat : n = Len(cmds)
      BY <1>1
    <3>2. Len(new) = n + 1 /\ new[n + 1] = c /\ n + 1 \in 1 .. n + 1
      BY <1>1, <2>3, <3>1
    <3>3. c.op = "setex" /\ c.key = Key[q]
      OBVIOUS
    <3> HIDE DEF c, new
    <3>4. Secured(Key[q], new, n + 1)'
      BY <3>2, <3>3 DEF Secured
    <3> QED BY <2>1, <3>2, <3>4 DEF Secured
  <2> QED BY <2>2, <2>3
<1> HIDE DEF new, c
<1>7. \A x \in Request \ {q} : answer'[x] = answer[x]
  BY <1>1, <1>2 DEF Answering, Types
<1>8. /\ \A x \in Replica : ConnSafe(x, conn[x])'
      /\ \A x \in Request : AnswerSafe(x)'
  BY <1>1, <1>3, <1>5, <1>6, <1>7, OrderStep
<1>9. \A x \in Request : WillCache(x)'
  BY <1>1 DEF Respond, Types, Orderly, WillCache, Keyed
<1> QED BY <1>8, <1>9 DEF InOrder

\* Past the middleware a keyed request will cache its answer.
LEMMA ProceedOrder ==
    ASSUME NEW q \in Request, NEW r \in Replica, NEW cmds, NEW w \in BOOLEAN,
           InductiveInv, Serving(q, r, cmds), Passed(r, cmds), w <=> Keyed(q),
           Proceed(q, r, cmds, w)
    PROVE  InOrder'
<1>1. CASE \E a \in Answer : Respond(q, r, a, cmds, w)
  BY <1>1, RespondOrder
<1>2. CASE /\ phase' = [phase EXCEPT ![q] = "connect"]
           /\ wrapped' = [wrapped EXCEPT ![q] = w]
           /\ conn' = [conn EXCEPT ![r] = cmds]
           /\ answer' = answer
  <2>1. /\ Types /\ HeardInv /\ Orderly /\ Kept /\ answer[q] = None
        /\ heard \in [Request -> SUBSET Request]
        /\ \A x \in Request \ {q} : heard'[x] = heard[x]
        /\ \A x \in Replica : x # r => NoLookup(q, conn[x])
    BY DEF Serving, Stepping, LifecycleInv
  <2>2. AnswerSafe(q)'
    BY <1>2, <2>1 DEF AnswerSafe
  <2>3. /\ \A x \in Replica : ConnSafe(x, conn[x])'
        /\ \A x \in Request : AnswerSafe(x)'
    BY <1>2, <2>1, <2>2, OrderStep DEF Passed
  <2>4. ASSUME NEW x \in Request
        PROVE  WillCache(x)'
    <3>1. CASE x = q
      BY <1>2, <3>1 DEF WillCache, InductiveInv, TypeOK, Keyed
    <3>2. CASE x # q
      <4>1. phase'[x] = phase[x] /\ wrapped'[x] = wrapped[x] /\ WillCache(x)
        BY <1>2, <2>1, <3>2 DEF InductiveInv, TypeOK, Orderly
      <4> QED BY <4>1 DEF WillCache, Keyed
    <3> QED BY <3>1, <3>2
  <2> QED BY <2>3, <2>4 DEF InOrder
<1> QED BY <1>1, <1>2, ProceedForms

\* What a step without faults keeps.
LEMMA KeptBy ==
    ASSUME \A k \in Keys : cache[k] # None => cache'[k] # None, Answered, NEW q \in Request,
           Moving(q), \A p \in Request \ {q} : at'[p] = at[p]
    PROVE  Kept
BY DEF Kept, Moving

\* Nothing has been answered at r in between.
LEMMA PassedSame ==
    ASSUME NEW q \in Request, NEW r \in Replica, NEW cmds, Serving(q, r, cmds), conn[r] = cmds
    PROVE  Passed(r, cmds)
<1>1. /\ Types /\ HeardInv /\ Kept /\ cmds \in Seq(Cmd) /\ NoLookup(q, cmds)
      /\ heard \in [Request -> SUBSET Request]
      /\ \A x \in Request \ {q} : heard'[x] = heard[x]
      /\ ConnSafe(r, cmds)
  BY DEF Serving, Stepping, Orderly
<1>2. ConnSafe(r, cmds)'
  BY <1>1, SafeStays
<1>3. \A k \in Keys : Secured(k, conn[r], Len(conn[r])) => Secured(k, cmds, Len(cmds))'
  BY <1>1, SecuredStays
<1> QED BY <1>2, <1>3 DEF Passed

\* The reply at the head of r has been read.
LEMMA PassedHead ==
    ASSUME Types, HeardInv, Orderly, Kept, heard' = heard, heard \in [Request -> SUBSET Request],
           NEW r \in Replica, NEW p \in Seq(Cmd), p # <<>>, conn[r] = p,
           p[1].op = "setex" => cache'[p[1].key] # None
    PROVE  Passed(r, Tail(p))
<1>1. ConnSafe(r, Tail(p))'
  BY SafeBehind DEF Orderly
<1>2. ASSUME NEW k \in Keys, Secured(k, p, Len(p))
      PROVE  Secured(k, Tail(p), Len(Tail(p)))'
  <2>1. Len(p) \in 0 .. Len(p) /\ Len(Tail(p)) = Len(p) - 1
    OBVIOUS
  <2>2. Secured(k, Tail(p), Len(p) - 1)'
    BY <1>2, <2>1, SecuredBehind
  <2> QED BY <2>1, <2>2
<1> QED BY <1>1, <1>2 DEF Passed

\* Requests that ran before still ran for the first time at their replica.
RanFirst == \A q \in ran : \A p \in heard[q] : at[p] # at[q]

LEMMA RanStays ==
    ASSUME HeardInv, RanFirst, Kept, ran \in SUBSET Request, heard \in [Request -> SUBSET Request],
           NEW q \in Request, ran' \in {ran, ran \cup {q}},
           \A x \in ran \ {q} : at'[x] = at[x] /\ heard'[x] = heard[x],
           q \in ran' => \A p \in heard'[q] : at'[p] # at'[q]
    PROVE  RanFirst'
<1> SUFFICES ASSUME NEW x \in ran', NEW p \in heard'[x]
             PROVE  at'[p] # at'[x]
  BY DEF RanFirst
<1>1. CASE x = q
  BY <1>1
<1>2. CASE x # q
  <2>1. x \in ran /\ p \in heard[x] /\ p \in Request /\ at'[x] = at[x]
    BY <1>2
  <2>2. answer[p] # None
    BY <2>1 DEF HeardInv
  <2> QED BY <2>1, <2>2 DEF Kept, RanFirst
<1> QED BY <1>1, <1>2

LEMMA OrderParts ==
    /\ Orderly <=> InOrder /\ RanFirst
    /\ Orderly' <=> InOrder' /\ RanFirst'
BY DEF Orderly, InOrder, RanFirst

LEMMA ArriveOrder ==
    ASSUME InductiveInv, LifecycleInv, HeardInv, Orderly, NEW q \in Request, NEW r \in Replica,
           Arrive(q, r)
    PROVE  Orderly'
<1>1. /\ Types /\ Answered /\ heard \in [Request -> SUBSET Request] /\ ran \in SUBSET Request
  BY TypesHold, Parts DEF InductiveInv, TypeOK
<1>2. /\ phase[q] = "new" /\ q \notin ran /\ answer[q] = None /\ cache' = cache
      /\ \A p \in Request \ {q} : at'[p] = at[p] /\ heard'[p] = heard[p]
      /\ at'[q] = r
      /\ heard'[q] = {p \in Request \ {q} : Keyed(q) /\ Key[p] = Key[q] /\ answer[p] # None}
  BY <1>1 DEF Arrive, HeardInv, Types, Answered
<1>3. Moving(q) /\ ran' \in {ran, ran \cup {q}}
  BY <1>1, <1>2, ProceedMoves DEF Arrive, Moving, Types
<1>4. Kept
  BY <1>1, <1>2, <1>3, KeptBy
<1>5. PICK cmds \in Seq(Cmd) : cmds = conn[r]
  BY <1>1 DEF Types
<1>6. Serving(q, r, cmds)
  BY <1>1, <1>2, <1>4, <1>5, ElsewhereNoLookup DEF Serving, Stepping, LifecycleInv
<1>7. Passed(r, cmds)
  BY <1>5, <1>6, PassedSame
<1>8. CASE ~Keyed(q)
  <2>1. Proceed(q, r, cmds, FALSE)
    BY <1>5, <1>8 DEF Arrive
  <2>2. InOrder'
    BY <1>6, <1>7, <1>8, <2>1, ProceedOrder
  <2>3. RanFirst'
    BY <1>1, <1>2, <1>3, <1>4, <1>8, OrderParts, RanStays
  <2> QED BY <2>2, <2>3, OrderParts
<1>9. CASE Keyed(q)
  <2>1. PICK c \in Cmd : c = [op |-> "get", req |-> q]
    BY <1>9 DEF Cmd
  <2>2. /\ conn' = [conn EXCEPT ![r] = Append(cmds, c)]
        /\ UNCHANGED <<wrapped, answer, ran>>
        /\ phase' = [phase EXCEPT ![q] = "lookup"]
    BY <1>5, <1>9, <2>1 DEF Arrive
  <2>3. ASSUME NEW x \in heard'[q], at'[x] = r
        PROVE  Secured(Key[q], cmds, Len(cmds))'
    <3>1. x \in Request /\ x # q /\ Key[x] = Key[q] /\ answer[x] # None /\ at[x] = r
      BY <1>2, <2>3
    <3>2. Keyed(x) /\ Key[q] \in Keys
      BY <1>9, <3>1, GatewayAssumption DEF Keyed, Keys
    <3>3. Secured(Key[q], cmds, Len(cmds))
      BY <1>5, <3>1, <3>2 DEF Orderly, AnswerSafe
    <3> QED BY <1>4, <3>2, <3>3, SecuredStays
  <2>4. ConnSafe(r, Append(cmds, c))'
    BY <1>5, <1>7, <2>1, <2>3, SafeBefore DEF Passed
  <2>5. ASSUME NEW k \in Keys, Secured(k, conn[r], Len(conn[r]))
        PROVE  Secured(k, Append(cmds, c), Len(Append(cmds, c)))'
    <3>1. Secured(k, cmds, Len(cmds))' /\ Len(cmds) \in 0 .. Len(cmds)
          /\ Len(Append(cmds, c)) = Len(cmds) + 1
      BY <1>5, <1>7, <2>5 DEF Passed
    <3>2. Secured(k, Append(cmds, c), Len(cmds))'
      BY <1>5, <3>1, SecuredBefore
    <3> QED BY <1>5, <3>1, <3>2 DEF Secured
  <2>6. AnswerSafe(q)' /\ \A x \in Request \ {q} : answer'[x] = answer[x]
    BY <1>2, <2>2 DEF AnswerSafe
  <2>7. \A x \in Replica : x # r => NoLookup(q, conn[x])
    BY <1>6 DEF Serving
  <2>8. /\ \A x \in Replica : ConnSafe(x, conn[x])'
        /\ \A x \in Request : AnswerSafe(x)'
    BY <1>1, <1>2, <1>4, <2>2, <2>4, <2>5, <2>6, <2>7, OrderStep
  <2>9. \A x \in Request : WillCache(x)'
    BY <1>1, <2>2 DEF WillCache, Keyed, Orderly, Types
  <2>10. RanFirst'
    BY <1>1, <1>2, <1>4, <2>2, OrderParts, RanStays
  <2> QED BY <2>8, <2>9, <2>10, OrderParts DEF InOrder
<1> QED BY <1>8, <1>9

\* A miss tells that nothing was answered to the key at this replica before.
LEMMA LookupOrder ==
    ASSUME InductiveInv, LifecycleInv, HeardInv, Orderly, NEW r \in Replica, LookupReply(r),
           phase[Head(conn[r]).req] = "lookup"
    PROVE  Orderly'
<1>1. /\ Types /\ Answered /\ heard \in [Request -> SUBSET Request] /\ ran \in SUBSET Request
      /\ UNCHANGED <<at, heard, cache>>
  BY TypesHold, Parts DEF InductiveInv, TypeOK, LookupReply
<1>2. PICK p \in Seq(Cmd) : p = conn[r]
  BY <1>1 DEF Types
<1>3. /\ p # <<>> /\ Head(p).op = "get" /\ Head(p) = p[1] /\ 1 \in 1 .. Len(p)
  BY <1>2 DEF LookupReply, Outstanding
<1>4. PICK q \in Request : q = Head(p).req /\ Keyed(q) /\ phase[q] = "lookup" /\ at[q] = r
  BY <1>1, <1>2, <1>3, BehindHead DEF LifecycleInv, Cmd, CmdLinked
<1>5. Moving(q) /\ ran' \in {ran, ran \cup {q}}
  BY <1>1, <1>2, <1>4, LookupMoves
<1>6. Kept
  BY <1>1, <1>5, KeptBy
<1>7. PICK cmds \in Seq(Cmd) : cmds = Tail(p)
  <2>1. Tail(p) \in Seq(Cmd)
    BY <1>1, <1>2, <1>3, <1>4, BehindHead DEF LifecycleInv
  <2> QED BY <2>1
<1>8. Serving(q, r, cmds)
  <2>1. Linked(r, cmds) /\ NoLookup(q, cmds)
    BY <1>1, <1>2, <1>3, <1>4, <1>7, BehindHead DEF LifecycleInv
  <2>2. \A x \in Replica : x # r => NoLookup(q, conn[x])
    BY <1>4, ElsewhereNoLookup DEF LifecycleInv
  <2> QED BY <1>1, <1>4, <1>6, <2>1, <2>2 DEF Serving, Stepping
<1>9. Passed(r, cmds)
  BY <1>1, <1>2, <1>3, <1>6, <1>7, PassedHead
<1>10. Key[q] \in Keys
  BY <1>4 DEF Keyed, Keys
<1>11. CASE cache[Key[q]] # None
  <2>1. Respond(q, r, cache[Key[q]], cmds, FALSE) /\ ran' = ran
    BY <1>2, <1>4, <1>7, <1>11 DEF LookupReply
  <2>2. PICK a \in Answer : a = cache[Key[q]]
    BY <1>1, <1>10, <1>11 DEF Types
  <2>3. InOrder'
    BY <1>1, <1>8, <1>9, <1>11, <2>1, <2>2, RespondOrder
  <2>4. RanFirst'
    BY <1>1, <2>1, OrderParts DEF RanFirst
  <2> QED BY <2>3, <2>4, OrderParts
<1>12. CASE cache[Key[q]] = None
  <2>1. Proceed(q, r, cmds, TRUE)
    BY <1>2, <1>4, <1>7, <1>12 DEF LookupReply
  <2>2. InOrder'
    BY <1>4, <1>8, <1>9, <2>1, ProceedOrder
  <2>3. \A x \in heard[q] : at[x] # r
    <3>1. ~Secured(Key[q], p, 0)
      BY <1>12 DEF Secured
    <3>2. ConnSafe(r, p)
      BY <1>2 DEF Orderly
    <3>3. \A x \in heard[q] : at[x] = r => Secured(Key[q], p, 1 - 1)
      BY <1>3, <1>4, <3>2 DEF ConnSafe
    <3> QED BY <3>1, <3>3
  <2>4. RanFirst'
    BY <1>1, <1>4, <1>5, <1>6, <2>3, OrderParts, RanStays
  <2> QED BY <2>2, <2>4, OrderParts
<1> QED BY <1>11, <1>12

\* The setex at the head is applied, or a lookup nobody waits for answered.
LEMMA PopOrder ==
    ASSUME InductiveInv, LifecycleInv, HeardInv, Orderly, NEW r \in Replica, Popped(r),
           RedisReply(r)
    PROVE  Orderly'
<1>1. /\ Types /\ heard \in [Request -> SUBSET Request]
      /\ UNCHANGED <<phase, at, wrapped, answer, ran, heard>>
  BY TypesHold DEF InductiveInv, TypeOK, Popped, handlers
<1>2. PICK p \in Seq(Cmd) : p = conn[r]
  BY <1>1 DEF Types
<1>3. /\ p # <<>> /\ Head(p) = p[1] /\ p[1] \in Cmd
      /\ \/ cache' = cache /\ p[1].op = "get"
         \/ cache' = [cache EXCEPT ![p[1].key] = p[1].val] /\ p[1].op = "setex"
      /\ conn' = [conn EXCEPT ![r] = Tail(p)]
  <2>1. /\ p # <<>> /\ Head(p) = p[1] /\ p[1] \in Cmd
        /\ conn' = [conn EXCEPT ![r] = Tail(p)]
    BY <1>2 DEF Popped
  <2>2. CASE LookupReply(r)
    BY <1>2, <2>1, <2>2 DEF LookupReply, Outstanding
  <2>3. CASE CacheReply(r)
    BY <1>2, <2>1, <2>3 DEF CacheReply, Outstanding
  <2> QED BY <2>1, <2>2, <2>3 DEF RedisReply
<1>4. p[1].op = "setex" => p[1].key \in Keys /\ p[1].val \in Answer
  BY <1>3 DEF Cmd
<1>5. Kept /\ (p[1].op = "setex" => cache'[p[1].key] # None)
  BY <1>1, <1>3, <1>4, GatewayAssumption DEF Kept, Types
<1>6. Passed(r, Tail(p))
  BY <1>1, <1>2, <1>3, <1>5, PassedHead
<1>7. conn'[r] = Tail(p) /\ \A x \in Replica \ {r} : conn'[x] = conn[x]
  BY <1>1, <1>3 DEF Types
<1>8. ASSUME NEW x \in Replica
      PROVE  ConnSafe(x, conn[x])'
  <2>1. CASE x = r
    BY <1>6, <1>7, <2>1 DEF Passed
  <2>2. CASE x # r
    <3>1. PICK s \in Seq(Cmd) : s = conn[x] /\ ConnSafe(x, s)
      BY <1>1 DEF Types, Orderly
    <3>2. ASSUME NEW q \in Request PROVE ConnSafe(x, s)'
      BY <1>1, <1>5, <3>1, SafeStays
    <3>3. Request # {}
      BY <1>3 DEF Cmd, Keys
    <3>4. ConnSafe(x, s)'
      BY <3>2, <3>3
    <3> QED BY <1>7, <2>2, <3>1, <3>4
  <2> QED BY <2>1, <2>2
<1>9. ASSUME NEW x \in Request, Keyed(x), answer'[x] # None
      PROVE  at'[x] \in Replica /\ Secured(Key[x], conn[at[x]], Len(conn[at[x]]))'
  <2>1. /\ at'[x] = at[x] /\ at[x] \in Replica /\ Key[x] \in Keys
        /\ Secured(Key[x], conn[at[x]], Len(conn[at[x]]))
    BY <1>1, <1>9 DEF Orderly, AnswerSafe, Keyed, Keys
  <2>2. CASE at[x] = r
    <3>1. Secured(Key[x], Tail(p), Len(Tail(p)))'
      BY <1>6, <2>1, <2>2 DEF Passed
    <3> QED BY <1>7, <2>1, <2>2, <3>1
  <2>3. CASE at[x] # r
    <3>1. conn'[at'[x]] = conn[at[x]]
      BY <1>7, <2>1, <2>3
    <3> QED BY <1>5, <2>1, <3>1 DEF Secured, Kept
  <2> QED BY <2>2, <2>3
<1>10. (\A x \in Request : WillCache(x))' /\ RanFirst'
  BY <1>1 DEF Orderly, WillCache, Keyed, RanFirst
<1> QED BY <1>8, <1>9, <1>10, OrderParts DEF InOrder, AnswerSafe, Keyed

\* The end of createTransaction caches the answer.
LEMMA FinishOrder ==
    ASSUME InductiveInv, LifecycleInv, HeardInv, Orderly, NEW q \in Request,
           phase[q] \in {"connect", "close"}, NEW st, NEW a \in Answer, Finish(q, st, a)
    PROVE  Orderly'
<1>1. /\ Types /\ Answered /\ heard \in [Request -> SUBSET Request]
      /\ UNCHANGED <<at, heard, cache, ran>>
  BY TypesHold, Parts DEF InductiveInv, TypeOK, Finish
<1>2. /\ wrapped[q] \in BOOLEAN /\ (wrapped[q] <=> Keyed(q))
  BY DEF InductiveInv, TypeOK, RequestInv, Orderly, WillCache
<1>3. PICK r \in Replica : r = at[q]
  BY DEF InductiveInv, RequestInv
<1>4. PICK cmds \in Seq(Cmd) : cmds = conn[r]
  BY <1>1 DEF Types
<1>5. Respond(q, r, a, cmds, wrapped[q])
  BY <1>3, <1>4 DEF Finish
<1>6. Kept
  BY <1>1, <1>5, RespondMoves, KeptBy
<1>7. Serving(q, r, cmds)
  BY <1>1, <1>3, <1>4, <1>6, ElsewhereNoLookup DEF Serving, Stepping, LifecycleInv
<1>8. Passed(r, cmds)
  BY <1>4, <1>7, PassedSame
<1>9. InOrder'
  BY <1>2, <1>5, <1>7, <1>8, RespondOrder
<1>10. RanFirst'
  BY <1>1, OrderParts DEF RanFirst
<1> QED BY <1>9, <1>10, OrderParts

\* Steps that answer nobody.
LEMMA QuietOrder ==
    ASSUME Orderly, UNCHANGED <<answer, at, wrapped, cache, conn, ran, heard>>,
           \A q \in Request : phase'[q] \in {"connect", "close"} => phase[q] \in {"connect", "close"}
    PROVE  Orderly'
BY DEF Orderly, WillCache, AnswerSafe, ConnSafe, Secured, Keyed

LEMMA RetryStep ==
    ASSUME InductiveInv, LifecycleInv, RetryInv, [Next]_vars
    PROVE  RetryInv'
<1>1. Types /\ HeardInv /\ faults \in Nat
  BY TypesHold, GatewayAssumption DEF InductiveInv, TypeOK, RetryInv
<1>2. HeardInv'
  BY <1>1, HeardStep
<1> SUFFICES ASSUME faults' = 0
             PROVE  Orderly'
  BY <1>2 DEF RetryInv
<1>3. ASSUME faults' = faults
      PROVE  Orderly
  BY <1>3 DEF RetryInv
<1>4. ASSUME NEW q \in Request, NEW r \in Replica, Arrive(q, r)
      PROVE  Orderly'
  BY <1>1, <1>3, <1>4, ArriveOrder DEF Arrive
<1>5. ASSUME NEW q \in Request, Serve(q) \/ BrokerFails(q)
      PROVE  Orderly'
  <2>1. CASE Connected(q)
    <3>1. UNCHANGED <<answer, at, wrapped, cache, conn, ran, heard, faults>>
      BY <2>1 DEF Connected
    <3>2. \A x \in Request : phase'[x] \in {"connect", "close"} => phase[x] \in {"connect", "close"}
      BY <1>1, <2>1 DEF Connected, Types
    <3> QED BY <1>3, <3>1, <3>2, QuietOrder
  <2>2. CASE BrokerAccepts(q)
    BY <1>3, <2>2, QuietOrder DEF BrokerAccepts, handlers
  <2>3. CASE Closed(q)
    <3>1. q \in Creates
      BY <2>3 DEF Closed, InductiveInv, RequestInv
    <3>2. Ok(201, q) \in Answer /\ faults' = faults
      BY <2>3, <3>1, AnswerType DEF Closed, Finish
    <3> QED BY <1>1, <1>3, <2>3, <3>2, FinishOrder DEF Closed
  <2>4. CASE BrokerFails(q)
    <3>1. Error(500) \in Answer /\ faults' = faults
      BY <2>4, AnswerType DEF BrokerFails, Finish
    <3> QED BY <1>1, <1>3, <2>4, <3>1, FinishOrder DEF BrokerFails
  <2> QED BY <1>5, <2>1, <2>2, <2>3, <2>4 DEF Serve
<1>8. ASSUME Fault
      PROVE  FALSE
  BY <1>1, <1>8 DEF Fault
<1>6. ASSUME NEW r \in Replica, RedisReply(r)
      PROVE  Orderly'
  <2>1. Orderly
    BY <1>3, <1>6 DEF RedisReply, LookupReply, CacheReply
  <2>2. LookupReply(r) \/ ~RedisRejects(r)
    BY <1>8 DEF RedisRejects
  <2> QED BY <1>1, <1>6, <2>1, <2>2, Replies, LookupOrder, PopOrder
<1>7. ASSUME NEW r \in Replica, Restart(r)
      PROVE  Orderly'
  BY <1>3, <1>7, QuietOrder DEF Restart, handlers
<1>9. ASSUME NEW r \in Replica, RedisRejects(r) \/ Crash(r)
      PROVE  FALSE
  BY <1>8, <1>9 DEF RedisRejects, Crash
<1>10. ASSUME NEW k \in Keys, KeyExpires(k)
      PROVE  FALSE
  BY <1>8, <1>10 DEF KeyExpires
<1>11. CASE UNCHANGED vars
  BY <1>3, <1>11, QuietOrder DEF vars, handlers
<1> QED BY <1>4, <1>5, <1>6, <1>7, <1>9, <1>10, <1>11 DEF Next

\* Without a fault, a retry sent to the replica that answered its key is never
\* executed: its lookup is behind the setex on the same connection.
THEOREM RetriesAreReplayed == Spec => []RetryNotExecuted
<1>1. Init => LifecycleInv /\ RetryInv
  <2>1. Init => RetryInv
    BY DEF Init, RetryInv, HeardInv, Orderly, WillCache, AnswerSafe, ConnSafe
  <2> QED BY <2>1, InitLife
<1>2. InductiveInv /\ LifecycleInv /\ RetryInv /\ [Next]_vars => LifecycleInv' /\ RetryInv'
  BY NextLife, RetryStep
<1>3. RetryInv => RetryNotExecuted
  BY DEF RetryInv, Orderly, RetryNotExecuted
<1> QED BY <1>1, <1>2, <1>3, Invariance, PTL DEF Spec

-----------------------------------------------------------------------------
(* No client waits for what cannot come *)

\* The reply to the lookup of q is still to come from cmds.
Looking(q, cmds) == \E i \in 1 .. Len(cmds) : cmds[i].op = "get" /\ cmds[i].req = q

\* A request that is neither answered nor lost is with a running replica; while
\* it waits for Redis, its lookup is outstanding there.
NoRequestHangs ==
    \A q \in Request :
        /\ phase[q] \in {"lookup", "connect", "close"} => at[q] \in up
        /\ phase[q] = "lookup" => Looking(q, conn[at[q]])
        /\ phase[q] = "done" => answer[q] # None

LEMMA AppendLooking ==
    ASSUME NEW p \in Seq(Cmd), NEW c \in Cmd, NEW q,
           Looking(q, p) \/ (c.op = "get" /\ c.req = q)
    PROVE  Looking(q, Append(p, c))
<1>1. /\ Len(p) \in Nat /\ Len(Append(p, c)) = Len(p) + 1
      /\ Append(p, c)[Len(p) + 1] = c
      /\ \A i \in 1 .. Len(p) : Append(p, c)[i] = p[i]
  BY AppendProperties, LenProperties
<1>2. CASE Looking(q, p)
  <2>1. PICK i \in 1 .. Len(p) : p[i].op = "get" /\ p[i].req = q
    BY <1>2 DEF Looking
  <2>2. i \in 1 .. Len(Append(p, c))
    BY <1>1
  <2> QED BY <1>1, <2>1, <2>2 DEF Looking
<1>3. CASE c.op = "get" /\ c.req = q
  <2>1. Len(p) + 1 \in 1 .. Len(Append(p, c))
    BY <1>1
  <2> QED BY <1>1, <1>3, <2>1 DEF Looking
<1> QED BY <1>2, <1>3

LEMMA TailLooking ==
    ASSUME NEW p \in Seq(Cmd), p # <<>>, NEW q, Looking(q, p),
           Head(p).op # "get" \/ Head(p).req # q
    PROVE  Looking(q, Tail(p))
<1>1. /\ Len(p) \in Nat /\ Head(p) = p[1] /\ Len(Tail(p)) = Len(p) - 1
      /\ \A i \in 1 .. Len(Tail(p)) : Tail(p)[i] = p[i + 1]
  BY HeadTailProperties, EmptySeq, LenProperties
<1>2. PICK i \in 1 .. Len(p) : p[i].op = "get" /\ p[i].req = q
  BY DEF Looking
<1>3. i # 1
  BY <1>1, <1>2
<1>4. i - 1 \in 1 .. Len(Tail(p)) /\ (i - 1) + 1 = i
  BY <1>1, <1>3
<1> QED BY <1>1, <1>2, <1>4 DEF Looking

\* The commands of r are cmds, perhaps with one more; those of the others stay.
Leaves(r, cmds) ==
    /\ conn'[r] = cmds \/ \E c \in Cmd : conn'[r] = Append(cmds, c)
    /\ \A x \in Replica \ {r} : conn'[x] = conn[x]

\* A lookup stays outstanding until it is its turn.
LEMMA StillLooking ==
    ASSUME Types, NEW q \in Request, at[q] \in Replica, Looking(q, conn[at[q]]),
           NEW r \in Replica, NEW cmds \in Seq(Cmd), Leaves(r, cmds),
           \/ cmds = conn[r]
           \/ /\ conn[r] # <<>> /\ cmds = Tail(conn[r])
              /\ Head(conn[r]).op # "get" \/ Head(conn[r]).req # q
    PROVE  Looking(q, conn'[at[q]])
<1>1. CASE at[q] # r
  BY <1>1 DEF Leaves
<1>2. CASE at[q] = r
  <2>1. conn[r] \in Seq(Cmd)
    BY DEF Types
  <2>2. Looking(q, cmds)
    BY <1>2, <2>1, TailLooking
  <2>3. \A c \in Cmd : Looking(q, Append(cmds, c))
    BY <2>2, AppendLooking
  <2> QED BY <1>2, <2>2, <2>3 DEF Leaves
<1> QED BY <1>1, <1>2

\* Request q takes a step at the running replica r behind the commands cmds,
\* from which at most its own lookup is gone.
AtWork(q, r, cmds) ==
    /\ Types /\ NoRequestHangs /\ up \in SUBSET Replica
    /\ up' = up /\ r \in up /\ at'[q] = r
    /\ \A x \in Request \ {q} : at'[x] = at[x]
    /\ cmds \in Seq(Cmd)
    /\ \/ cmds = conn[r]
       \/ /\ conn[r] # <<>> /\ cmds = Tail(conn[r])
          /\ Head(conn[r]).op = "get" /\ Head(conn[r]).req = q

LEMMA WorkServed ==
    ASSUME NEW q \in Request, NEW r \in Replica, NEW cmds, AtWork(q, r, cmds), Leaves(r, cmds),
           \A x \in Request \ {q} : phase'[x] = phase[x] /\ answer'[x] = answer[x],
           phase'[q] = "lookup" => Looking(q, conn'[r]),
           phase'[q] = "done" => answer'[q] # None
    PROVE  NoRequestHangs'
<1> SUFFICES ASSUME NEW x \in Request
             PROVE  /\ phase'[x] \in {"lookup", "connect", "close"} => at'[x] \in up'
                    /\ phase'[x] = "lookup" => Looking(x, conn'[at'[x]])
                    /\ phase'[x] = "done" => answer'[x] # None
  BY DEF NoRequestHangs
<1>1. CASE x = q
  BY <1>1 DEF AtWork
<1>2. CASE x # q
  <2>1. at'[x] = at[x] /\ phase'[x] = phase[x] /\ answer'[x] = answer[x] /\ up' = up
    BY <1>2 DEF AtWork
  <2>2. ASSUME phase[x] = "lookup"
        PROVE  Looking(x, conn'[at[x]])
    <3>1. at[x] \in Replica /\ Looking(x, conn[at[x]])
      BY <2>2 DEF AtWork, NoRequestHangs
    <3>2. \/ cmds = conn[r]
          \/ /\ conn[r] # <<>> /\ cmds = Tail(conn[r])
             /\ Head(conn[r]).op # "get" \/ Head(conn[r]).req # x
      BY <1>2 DEF AtWork
    <3> QED BY <3>1, <3>2, StillLooking DEF AtWork
  <2> QED BY <2>1, <2>2 DEF AtWork, NoRequestHangs
<1> QED BY <1>1, <1>2

LEMMA RespondServed ==
    ASSUME NEW q \in Request, NEW r \in Replica, NEW cmds, AtWork(q, r, cmds),
           NEW a \in Answer, NEW w, w => Keyed(q), Respond(q, r, a, cmds, w)
    PROVE  NoRequestHangs'
<1>1. phase \in [Request -> Phase] /\ answer \in [Request -> Answer \cup {None}]
      /\ conn \in [Replica -> Seq(Cmd)] /\ a # None
  BY GatewayAssumption DEF AtWork, Types
<1>2. w => [op |-> "setex", key |-> Key[q], val |-> a] \in Cmd
  BY DEF Cmd, Keyed, Keys
<1>3. Leaves(r, cmds)
  BY <1>1, <1>2 DEF Respond, Caches, Leaves
<1>4. /\ \A x \in Request \ {q} : phase'[x] = phase[x] /\ answer'[x] = answer[x]
      /\ phase'[q] = "done" /\ answer'[q] # None
  BY <1>1 DEF Respond
<1> QED BY <1>3, <1>4, WorkServed

LEMMA ProceedServed ==
    ASSUME NEW q \in Request, NEW r \in Replica, NEW cmds, AtWork(q, r, cmds),
           NEW w, w => Keyed(q), Proceed(q, r, cmds, w)
    PROVE  NoRequestHangs'
<1>1. CASE \E a \in Answer : Respond(q, r, a, cmds, w)
  BY <1>1, RespondServed
<1>2. CASE /\ phase' = [phase EXCEPT ![q] = "connect"]
           /\ conn' = [conn EXCEPT ![r] = cmds]
           /\ answer' = answer
  <2>1. phase \in [Request -> Phase] /\ conn \in [Replica -> Seq(Cmd)]
    BY DEF AtWork, Types
  <2>2. Leaves(r, cmds) /\ phase'[q] = "connect"
        /\ \A x \in Request \ {q} : phase'[x] = phase[x] /\ answer'[x] = answer[x]
    BY <1>2, <2>1 DEF Leaves
  <2> QED BY <2>2, WorkServed
<1> QED BY <1>1, <1>2, ProceedForms

LEMMA ArriveServed ==
    ASSUME InductiveInv, NoRequestHangs, NEW q \in Request, NEW r \in Replica, Arrive(q, r)
    PROVE  NoRequestHangs'
<1>1. Types /\ up \in SUBSET Replica
  BY TypesHold DEF InductiveInv, TypeOK
<1>2. PICK cmds \in Seq(Cmd) : cmds = conn[r]
  BY <1>1 DEF Types
<1>3. AtWork(q, r, cmds)
  BY <1>1, <1>2 DEF Arrive, AtWork, Types
<1>4. CASE ~Keyed(q)
  BY <1>2, <1>3, <1>4, ProceedServed DEF Arrive
<1>5. CASE Keyed(q)
  <2>1. PICK c \in Cmd : c = [op |-> "get", req |-> q]
    BY <1>5 DEF Cmd
  <2>2. /\ conn' = [conn EXCEPT ![r] = Append(cmds, c)] /\ answer' = answer
        /\ phase' = [phase EXCEPT ![q] = "lookup"]
    BY <1>2, <1>5, <2>1 DEF Arrive
  <2>3. Leaves(r, cmds) /\ conn'[r] = Append(cmds, c)
    BY <1>1, <2>2 DEF Leaves, Types
  <2>4. /\ phase'[q] = "lookup"
        /\ \A x \in Request \ {q} : phase'[x] = phase[x] /\ answer'[x] = answer[x]
    BY <1>1, <2>2 DEF Types
  <2>5. Looking(q, Append(cmds, c))
    BY <2>1, AppendLooking
  <2> QED BY <1>3, <2>3, <2>4, <2>5, WorkServed
<1> QED BY <1>4, <1>5

\* A reply to a lookup, or its rejection, is for a request that waits for it.
LEMMA LookupServed ==
    ASSUME InductiveInv, LifecycleInv, NoRequestHangs, NEW r \in Replica,
           phase[Head(conn[r]).req] = "lookup",
           LookupReply(r) \/ (RedisRejects(r) /\ Head(conn[r]).op = "get")
    PROVE  NoRequestHangs'
<1>1. /\ Types /\ up \in SUBSET Replica /\ up' = up /\ at' = at
      /\ conn[r] # <<>> /\ Head(conn[r]).op = "get"
  BY TypesHold DEF InductiveInv, TypeOK, LookupReply, Outstanding, RedisRejects
<1>2. PICK q \in Request : /\ q = Head(conn[r]).req /\ phase[q] = "lookup"
                           /\ at[q] = r /\ Keyed(q)
  BY <1>1, BehindHead DEF LifecycleInv, Cmd, CmdLinked
<1>3. AtWork(q, r, Tail(conn[r]))
  BY <1>1, <1>2, BehindHead DEF AtWork, NoRequestHangs, LifecycleInv
<1>4. CASE LookupReply(r)
  <2>1. CASE cache[Key[q]] = None
    BY <1>2, <1>3, <1>4, <2>1, ProceedServed DEF LookupReply
  <2>2. CASE cache[Key[q]] # None
    <3>1. cache[Key[q]] \in Answer
      BY <1>1, <1>2, <2>2 DEF Types, Keyed, Keys
    <3>2. Respond(q, r, cache[Key[q]], Tail(conn[r]), FALSE)
      BY <1>2, <1>4, <2>2 DEF LookupReply
    <3> QED BY <1>3, <3>1, <3>2, RespondServed
  <2> QED BY <2>1, <2>2
<1>5. CASE RedisRejects(r)
  <2>1. Proceed(q, r, Tail(conn[r]), FALSE)
    BY <1>1, <1>2, <1>5 DEF RedisRejects
  <2> QED BY <1>3, <2>1, ProceedServed
<1> QED BY <1>4, <1>5

\* No request waits for the command that is gone.
LEMMA PopServed ==
    ASSUME InductiveInv, NoRequestHangs, NEW r \in Replica, Popped(r)
    PROVE  NoRequestHangs'
<1>1. /\ Types /\ up \in SUBSET Replica /\ conn[r] # <<>>
      /\ Head(conn[r]).op = "setex" \/ phase[Head(conn[r]).req] = "gone"
      /\ conn' = [conn EXCEPT ![r] = Tail(@)]
      /\ UNCHANGED <<phase, at, answer, up>>
  BY TypesHold DEF InductiveInv, TypeOK, Popped, handlers
<1>2. PICK cmds \in Seq(Cmd) : cmds = Tail(conn[r])
  <2>1. conn[r] \in Seq(Cmd) /\ conn[r] # <<>>
    BY <1>1 DEF Types
  <2> QED BY <2>1, HeadTailProperties
<1>3. Leaves(r, cmds)
  BY <1>1, <1>2 DEF Leaves, Types
<1>4. ASSUME NEW q \in Request, phase[q] = "lookup"
      PROVE  Looking(q, conn'[at[q]])
  <2>1. at[q] \in Replica /\ Looking(q, conn[at[q]])
    BY <1>1, <1>4 DEF NoRequestHangs
  <2>2. Head(conn[r]).op # "get" \/ Head(conn[r]).req # q
    BY <1>1, <1>4
  <2> QED BY <1>1, <1>2, <1>3, <2>1, <2>2, StillLooking
<1> QED BY <1>1, <1>4 DEF NoRequestHangs

LEMMA FinishServed ==
    ASSUME InductiveInv, NoRequestHangs, NEW q \in Request,
           phase[q] \in {"connect", "close"}, NEW st, NEW a \in Answer, Finish(q, st, a)
    PROVE  NoRequestHangs'
<1>1. /\ Types /\ up \in SUBSET Replica /\ up' = up /\ at' = at
      /\ wrapped[q] => Keyed(q)
  BY TypesHold DEF InductiveInv, TypeOK, RequestInv, Finish
<1>2. PICK r \in Replica : r = at[q] /\ r \in up
  BY <1>1 DEF NoRequestHangs
<1>3. PICK cmds \in Seq(Cmd) : cmds = conn[r]
  BY <1>1 DEF Types
<1>4. AtWork(q, r, cmds)
  BY <1>1, <1>2, <1>3 DEF AtWork
<1> QED BY <1>1, <1>2, <1>3, <1>4, RespondServed DEF Finish

\* A replica that dies takes its requests along.
LEMMA CrashServed ==
    ASSUME InductiveInv, NoRequestHangs, NEW r \in Replica, Crash(r)
    PROVE  NoRequestHangs'
<1>1. Types /\ up \in SUBSET Replica
  BY TypesHold DEF InductiveInv, TypeOK
<1>2. /\ up' = up \ {r} /\ at' = at /\ answer' = answer
      /\ \A x \in Replica \ {r} : conn'[x] = conn[x]
      /\ \A q \in Request :
             phase'[q] = IF at[q] = r /\ phase[q] # "done" THEN "gone" ELSE phase[q]
  BY <1>1 DEF Crash, Types
<1>3. ASSUME NEW q \in Request, phase'[q] \in {"lookup", "connect", "close"}
      PROVE  phase'[q] = phase[q] /\ at[q] \in up' /\ conn'[at[q]] = conn[at[q]]
  BY <1>1, <1>2, <1>3 DEF NoRequestHangs
<1>4. ASSUME NEW q \in Request, phase'[q] = "done"
      PROVE  phase[q] = "done"
  BY <1>2, <1>4
<1> QED BY <1>2, <1>3, <1>4 DEF NoRequestHangs

LEMMA HangStep ==
    ASSUME InductiveInv, LifecycleInv, NoRequestHangs, [Next]_vars
    PROVE  NoRequestHangs'
<1>1. ASSUME NEW q \in Request, NEW r \in Replica, Arrive(q, r)
      PROVE  NoRequestHangs'
  BY <1>1, ArriveServed
<1>2. ASSUME NEW q \in Request, Serve(q) \/ BrokerFails(q)
      PROVE  NoRequestHangs'
  <2>1. CASE Connected(q)
    <3>1. phase' = [phase EXCEPT ![q] = "close"] /\ phase[q] = "connect"
          /\ UNCHANGED <<at, answer, conn, up>> /\ phase \in [Request -> Phase]
      BY <2>1 DEF Connected, InductiveInv, TypeOK
    <3>2. \A x \in Request : phase'[x] = phase[x] \/ (x = q /\ phase'[x] = "close")
      BY <3>1
    <3> QED BY <3>1, <3>2 DEF NoRequestHangs
  <2>2. CASE BrokerAccepts(q)
    BY <2>2 DEF BrokerAccepts, handlers, NoRequestHangs
  <2>3. CASE Closed(q)
    <3>1. q \in Creates
      BY <2>3 DEF Closed, InductiveInv, RequestInv
    <3> QED BY <2>3, <3>1, AnswerType, FinishServed DEF Closed
  <2>4. CASE BrokerFails(q)
    BY <2>4, AnswerType, FinishServed DEF BrokerFails
  <2> QED BY <1>2, <2>1, <2>2, <2>3, <2>4 DEF Serve
<1>3. ASSUME NEW r \in Replica, RedisReply(r) \/ RedisRejects(r)
      PROVE  NoRequestHangs'
  BY <1>3, TypesHold, Replies, LookupServed, PopServed
<1>5. ASSUME NEW r \in Replica, Crash(r)
      PROVE  NoRequestHangs'
  BY <1>5, CrashServed
<1>6. ASSUME NEW r \in Replica, Restart(r)
      PROVE  NoRequestHangs'
  BY <1>6 DEF Restart, handlers, NoRequestHangs
<1>7. ASSUME NEW k \in Keys, KeyExpires(k)
      PROVE  NoRequestHangs'
  BY <1>7 DEF KeyExpires, handlers, NoRequestHangs
<1>8. CASE UNCHANGED vars
  BY <1>8 DEF vars, handlers, NoRequestHangs
<1> QED BY <1>1, <1>2, <1>3, <1>5, <1>6, <1>7, <1>8 DEF Next

\* Whatever Redis and the broker do, no request is left with nothing to come: it
\* is with a running replica and its lookup outstanding, or at an await of the
\* broker, or answered, or died with its replica.  The safety half of
\* RequestsAnswered.
THEOREM RequestsDoNotHang == Spec => []NoRequestHangs
<1>1. Init => LifecycleInv /\ NoRequestHangs
  <2>1. Init => NoRequestHangs
    BY DEF Init, NoRequestHangs
  <2> QED BY <2>1, InitLife
<1>2. InductiveInv /\ LifecycleInv /\ NoRequestHangs /\ [Next]_vars
          => LifecycleInv' /\ NoRequestHangs'
  BY NextLife, HangStep
<1> QED BY <1>1, <1>2, Invariance, PTL DEF Spec
=============================================================================
