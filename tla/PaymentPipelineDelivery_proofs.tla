------------------- MODULE PaymentPipelineDelivery_proofs -------------------
(***************************************************************************)
(* At-least-once processing, for any payments, replicas, slots, rate limit *)
(* and number of faults: no payment is lost, and none is charged more      *)
(* often than its faults allow.  Without faults, on one replica, Redis     *)
(* holds in the end what became of each payment.                           *)
(***************************************************************************)
EXTENDS PaymentPipeline_proofs

HandledBy(s, t) == msg[s] # None /\ msg[s].txn = t /\ Answers(s)

\* The payment is over, in a queue, or with a handler that answers for it.
Accounted(t) ==
    \/ t \in dead \cup closed
    \/ \E m \in Msg : m.txn = t /\ ready[m] > 0
    \/ \E s \in Slot : HandledBy(s, t)

\* The broker holds deliveries of consuming replicas only, so a handler that
\* finds its channel closed has none that counts.
HeldOpen == \A s \in Slot : held[s] => link[Home[s]] = "open"

DeliveryInv == HeldOpen /\ NoPaymentLost

\* Redis fails the handlers of a replica: one of them, or all that wait.
RedisFails(r) == RedisRefuses(r) \/ RedisRejects(r)

-----------------------------------------------------------------------------
(* Deliveries and their channels *)

LEMMA HeldOpenStays ==
    ASSUME InductiveInv, HeldOpen, [Next]_vars
    PROVE  HeldOpen'
<1> USE DEF HeldOpen
<1>1. held \in [Slot -> BOOLEAN] /\ link \in [Replica -> {"open", "deaf", "down"}]
      /\ Home \in [Slot -> Replica]
  BY PipelineAssumption DEF InductiveInv, TypeOK
<1>2. ASSUME NEW s \in Slot, NEW m \in Msg, Deliver(s, m)
      PROVE  HeldOpen'
  <2>1. /\ link[Home[s]] = "open" /\ link' = link
        /\ \A x \in Slot \ {s} : held'[x] = held[x]
    BY <1>1, <1>2 DEF Deliver, DeliverValidation, DeliverFraudCheck, DeliverProcessing,
                      DeliverSettlement, Take
  <2> QED BY <2>1
<1>3. ASSUME NEW s \in Slot, HandlerStep(s)
      PROVE  HeldOpen'
  <2>1. link' = link /\ \A x \in Slot : held'[x] => held[x]
    BY <1>1, <1>3 DEF HandlerStep, FraudServiceAnswers, AcquirerAnswers, SettlementAnswers,
                      Forward, ForwardThrows, Notify, Ack, Nack, Release
  <2> QED BY <2>1
<1>4. ASSUME NEW r \in Replica, Crash(r) \/ Disconnect(r)
      PROVE  HeldOpen'
  <2>1. held' = [s \in Slot |-> IF Home[s] = r THEN FALSE ELSE held[s]]
    BY <1>4 DEF Crash, Disconnect, OnReplica
  <2>2. \A x \in Slot : held'[x] => held[x] /\ Home[x] # r
    BY <2>1, Zenon
  <2>3. \A p \in Replica \ {r} : link'[p] = link[p]
    BY <1>1, <1>4 DEF Crash, Disconnect
  <2> QED BY <1>1, <2>2, <2>3
<1>5. ASSUME NEW r \in Replica, Restart(r)
      PROVE  HeldOpen'
  BY <1>1, <1>5 DEF Restart, handlers
<1>6. CASE UNCHANGED <<held, link>>
  BY <1>6
<1>7. ASSUME NEW s \in Slot, NEW m \in Msg, Throttle(s, m)
      PROVE  UNCHANGED <<held, link>>
  BY <1>7 DEF Throttle, handlers
<1>8. ASSUME NEW r \in Replica, RedisReply(r) \/ WindowElapses(r) \/ RedisFails(r) \/ RedisResends(r)
      PROVE  UNCHANGED <<held, link>>
  BY <1>8 DEF RedisReply, StoreReply, FraudLookupReply, FraudCacheReply, WindowElapses,
              RedisFails, RedisRefuses, RedisRejects, RedisResends, handlers
<1>9. ASSUME NEW t \in Txn, FraudResultExpires(t)
      PROVE  UNCHANGED <<held, link>>
  BY <1>9 DEF FraudResultExpires, handlers
<1>10. CASE UNCHANGED vars
  BY <1>6, <1>10 DEF vars, handlers
<1> QED BY <1>2, <1>3, <1>4, <1>5, <1>6, <1>7, <1>8, <1>9, <1>10 DEF Next, RedisFails

-----------------------------------------------------------------------------
(* What the steps of Redis do to the handlers *)

\* The fraud-check commands: nobody may wait for the answer any more; whoever
\* does asks the fraud service or takes a decision.
LEMMA LookupSplit ==
    ASSUME TypeOK, ConnInv, NEW r \in Replica, FraudLookupReply(r) \/ FraudCacheReply(r),
           NEW c, c = Head(conn[r])
    PROVE  /\ c \in Cmd /\ c.op \in {"get", "cache"}
           /\ \/ /\ c.by = None /\ UNCHANGED <<pc, verdict>>
                 /\ conn' = [conn EXCEPT ![r] = Tail(conn[r])]
              \/ /\ c.by \in Slot /\ c.by # None
                 /\ pc[c.by] \in {"fraudGet", "fraudCache"}
                 /\ Home[c.by] = r /\ msg[c.by].txn = c.txn
                 /\ \/ /\ pc' = [pc EXCEPT ![c.by] = "fraudCall"]
                       /\ conn' = [conn EXCEPT ![r] = Tail(conn[r])]
                       /\ UNCHANGED verdict
                    \/ \E v \in Verdict : Decide(c.by, msg[c.by], v, Tail(conn[r]))
<1>1. conn[r] # <<>> /\ c.op \in {"get", "cache"}
  BY DEF FraudLookupReply, FraudCacheReply, Outstanding
<1>2. c \in Cmd /\ CmdAwaited(r, c) /\ c.txn \in Txn /\ c.by \in Slot \cup {None}
  BY <1>1, HeadIsOnly DEF Cmd, CmdAwaited
<1>3. c.op = "cache" => c.val \in Verdict
  BY <1>2 DEF Cmd
<1>4. c.by # None => /\ pc[c.by] \in {"fraudGet", "fraudCache"}
                     /\ Home[c.by] = r /\ msg[c.by].txn = c.txn
  BY <1>1, <1>2 DEF CmdAwaited, Waiting
<1>5. CASE FraudLookupReply(r)
  <2>1. fraudCache[c.txn] # None => fraudCache[c.txn] \in Verdict
    BY <1>2 DEF TypeOK
  <2> QED BY <1>1, <1>2, <1>4, <1>5, <2>1 DEF FraudLookupReply
<1>6. CASE FraudCacheReply(r)
  <2>1. c.op = "cache"
    BY <1>6 DEF FraudCacheReply, Outstanding
  <2> QED BY <1>1, <1>2, <1>3, <1>4, <1>6, <2>1 DEF FraudCacheReply
<1> QED BY <1>5, <1>6

\* Handlers whose await throws go to the catch block; the rest wait on.
LEMMA FailSplit ==
    ASSUME TypeOK, ConnInv, NEW r \in Replica, RedisFails(r)
    PROVE  /\ UNCHANGED <<ready, dead, msg, verdict, held, store, fraudCache, link, used,
                          ledger, closed>>
           /\ \A s \in Slot : \/ pc'[s] = pc[s]
                              \/ /\ pc'[s] = "nack"
                                 /\ pc[s] \in {"store", "fraudGet", "fraudCache"}
                                 /\ Home[s] = r
<1>1. CASE RedisRefuses(r)
  <2>1. conn[r] # <<>>
    BY <1>1 DEF RedisRefuses
  <2>2. PICK c \in Cmd : c = Head(conn[r])
    BY <2>1, HeadIsOnly
  <2>3. c.by \in Slot \cup {None}
        /\ pc' = IF c.by = None THEN pc ELSE [pc EXCEPT ![c.by] = "nack"]
    BY <1>1, <2>2 DEF RedisRefuses, Cmd
  <2>4. c.by # None => pc[c.by] \in WaitingPC /\ Home[c.by] = r
    BY <2>1, <2>2, <2>3, HeadIsOnly, Awaiting
  <2>5. UNCHANGED <<ready, dead, msg, verdict, held, store, fraudCache, link, used,
                    ledger, closed>>
    BY <1>1 DEF RedisRefuses
  <2> QED BY <2>3, <2>4, <2>5 DEF TypeOK, WaitingPC
<1>2. CASE RedisRejects(r)
  <2>1. \A s \in Slot : pc'[s] = IF s \in Awaiters(r) THEN "nack" ELSE pc[s]
    BY <1>2 DEF RedisRejects
  <2>2. UNCHANGED <<ready, dead, msg, verdict, held, store, fraudCache, link, used,
                    ledger, closed>>
    BY <1>2 DEF RedisRejects
  <2> QED BY <2>1, <2>2, AwaiterOf DEF WaitingPC
<1> QED BY <1>1, <1>2 DEF RedisFails

-----------------------------------------------------------------------------
(* Steps that keep every payment accounted for *)

LEMMA AllAccounted == NoPaymentLost <=> \A t \in Txn : Accounted(t)
BY DEF NoPaymentLost, Accounted, HandledBy

\* A step need only account for what it takes from a queue or a handler.
LEMMA StaysAccounted ==
    ASSUME NoPaymentLost, dead \subseteq dead', closed \subseteq closed',
           \A m \in Msg : ready[m] > 0 => Accounted(m.txn)',
           \A x \in Slot, t \in Txn : HandledBy(x, t) => Accounted(t)'
    PROVE  NoPaymentLost'
<1> SUFFICES ASSUME NEW t \in Txn
             PROVE  Accounted(t)'
  BY DEF NoPaymentLost, Accounted, HandledBy
<1>1. Accounted(t)
  BY AllAccounted
<1>2. CASE t \in dead \cup closed
  BY <1>2 DEF Accounted
<1>3. CASE \E m \in Msg : m.txn = t /\ ready[m] > 0
  BY <1>3
<1>4. CASE \E s \in Slot : HandledBy(s, t)
  BY <1>4
<1> QED BY <1>1, <1>2, <1>3, <1>4 DEF Accounted

\* A handler that moves on, and answers for its message if it did.
LEMMA HandlerMoves ==
    ASSUME NoPaymentLost, UNCHANGED <<ready, dead, closed, msg, held>>, NEW s \in Slot,
           \A x \in Slot \ {s} : pc'[x] = pc[x] /\ verdict'[x] = verdict[x],
           pc'[s] \in {"notify", "ack"} /\ Answers(s) =>
               Terminal(msg[s].queue, verdict'[s])
    PROVE  NoPaymentLost'
<1>1. \A x \in Slot : Answers(x) => Answers(x)'
  BY DEF Answers
<1>2. \A m \in Msg : ready[m] > 0 => Accounted(m.txn)'
  BY DEF Accounted
<1>3. \A x \in Slot, t \in Txn : HandledBy(x, t) => Accounted(t)'
  BY <1>1 DEF Accounted, HandledBy
<1> QED BY <1>2, <1>3, StaysAccounted

\* Nothing about a delivery changes.
LEMMA NothingMoves ==
    ASSUME NoPaymentLost, UNCHANGED <<ready, dead, closed, pc, msg, verdict, held>>
    PROVE  NoPaymentLost'
BY DEF NoPaymentLost, Answers

\* The branch of Decide that a handler goes on with keeps its delivery.
LEMMA DecideKeeps ==
    ASSUME TypeOK, NEW s \in Slot, NEW m, NEW v, NEW q, Decide(s, m, v, q)
    PROVE  /\ pc'[s] \in {"nack", "store"}
           /\ \A x \in Slot \ {s} : pc'[x] = pc[x] /\ verdict'[x] = verdict[x]
BY DEF Decide, TypeOK

LEMMA LookupKeeps ==
    ASSUME TypeOK, NEW s \in Slot,
           \/ \E v, q : Decide(s, msg[s], v, q)
           \/ pc' = [pc EXCEPT ![s] = "fraudCall"] /\ UNCHANGED verdict
    PROVE  /\ pc'[s] \notin {"notify", "ack"}
           /\ \A x \in Slot \ {s} : pc'[x] = pc[x] /\ verdict'[x] = verdict[x]
<1>1. ASSUME NEW v, NEW q, Decide(s, msg[s], v, q)
      PROVE  /\ pc'[s] \notin {"notify", "ack"}
             /\ \A x \in Slot \ {s} : pc'[x] = pc[x] /\ verdict'[x] = verdict[x]
  BY <1>1, DecideKeeps
<1>2. CASE pc' = [pc EXCEPT ![s] = "fraudCall"] /\ UNCHANGED verdict
  BY <1>2 DEF TypeOK
<1> QED BY <1>1, <1>2

\* A delivery starts one handler and leaves the others alone.
LEMMA DeliverKeepsOthers ==
    ASSUME TypeOK, NEW s \in Slot, NEW m \in Msg, Deliver(s, m)
    PROVE  /\ Take(s, m) /\ UNCHANGED <<dead, charges, closed, faults>>
           /\ pc'[s] \notin {"notify", "ack"}
           /\ \A x \in Slot \ {s} : pc'[x] = pc[x] /\ verdict'[x] = verdict[x]
<1>1. CASE DeliverValidation(s, m)
  BY <1>1, DecideKeeps DEF DeliverValidation, ledger
<1>2. CASE DeliverFraudCheck(s, m)
  BY <1>2 DEF DeliverFraudCheck, ledger, TypeOK
<1>3. CASE DeliverProcessing(s, m)
  BY <1>3 DEF DeliverProcessing, ledger, TypeOK
<1>4. CASE DeliverSettlement(s, m)
  BY <1>4 DEF DeliverSettlement, ledger, TypeOK
<1> QED BY <1>1, <1>2, <1>3, <1>4 DEF Deliver

-----------------------------------------------------------------------------
(* The actions *)

LEMMA DeliverKeeps ==
    ASSUME InductiveInv, NoPaymentLost, NEW s \in Slot, NEW m \in Msg, Deliver(s, m)
    PROVE  NoPaymentLost'
<1>1. TypeOK /\ SlotInv /\ QueueInv
  BY DEF InductiveInv
<1>2. Take(s, m) /\ dead' = dead /\ closed' = closed
  BY <1>1, DeliverKeepsOthers
<1>3. /\ pc[s] = "idle" /\ ~held[s]
      /\ msg'[s] = m /\ held'[s] /\ m # None
      /\ \A n \in Msg : n # m => ready'[n] = ready[n]
      /\ \A x \in Slot \ {s} : msg'[x] = msg[x] /\ held'[x] = held[x]
  BY <1>1, <1>2, PipelineAssumption DEF Take, TypeOK, SlotInv, SlotOK
<1>4. /\ pc'[s] \notin {"notify", "ack"}
      /\ \A x \in Slot \ {s} : pc'[x] = pc[x] /\ verdict'[x] = verdict[x]
  BY <1>1, DeliverKeepsOthers
<1>5. Accounted(m.txn)'
  BY <1>3, <1>4 DEF Answers, Accounted, HandledBy
<1>6. \A n \in Msg : ready[n] > 0 => Accounted(n.txn)'
  BY <1>3, <1>5 DEF Accounted
<1>7. \A x \in Slot, t \in Txn : HandledBy(x, t) => Accounted(t)'
  BY <1>3, <1>4 DEF Accounted, Answers, HandledBy
<1> QED BY <1>2, <1>6, <1>7, StaysAccounted

\* A handler goes on to publish unless its branch is terminal.
LEMMA AfterStoreAnswers ==
    ASSUME NEW q \in Worker, NEW v \in Verdict, AfterStore(q, v) # "publish"
    PROVE  Terminal(q, v)
BY DEF Worker, Verdict, AfterStore, Terminal

LEMMA ReplyKeeps ==
    ASSUME InductiveInv, NoPaymentLost, NEW r \in Replica, RedisReply(r)
    PROVE  NoPaymentLost'
<1>1. TypeOK /\ ConnInv /\ SlotInv
  BY DEF InductiveInv
<1>2. conn[r] # <<>>
  BY DEF RedisReply, StoreReply, FraudLookupReply, FraudCacheReply, Outstanding
<1>3. PICK c \in Cmd : c = Head(conn[r])
  BY <1>1, <1>2, HeadIsOnly
<1>4. UNCHANGED <<ready, dead, closed, msg, held>>
  BY DEF RedisReply, StoreReply, FraudLookupReply, FraudCacheReply
<1>5. CASE StoreReply(r)
  <2>1. c.op = "set" /\ c.by \in Slot \cup {None} /\ verdict' = verdict
        /\ pc' = IF c.by = None THEN pc
                 ELSE [pc EXCEPT ![c.by] = AfterStore(msg[c.by].queue, verdict[c.by])]
    BY <1>3, <1>5 DEF StoreReply, Outstanding, Cmd
  <2>2. CASE c.by = None
    BY <1>4, <2>1, <2>2, NothingMoves
  <2>3. CASE c.by # None
    <3>1. c.by \in Slot /\ pc[c.by] = "store"
      BY <1>1, <1>2, <1>3, <2>1, <2>3, HeadIsOnly DEF CmdAwaited, Waiting
    <3>2. msg[c.by].queue \in Worker /\ verdict[c.by] \in Verdict
      BY <1>1, <3>1, WorkerOfMsg DEF SlotInv, SlotOK, DecidedPC
    <3>3. pc'[c.by] = AfterStore(msg[c.by].queue, verdict[c.by])
          /\ \A x \in Slot \ {c.by} : pc'[x] = pc[x]
      BY <1>1, <2>1, <2>3, <3>1 DEF TypeOK
    <3>4. pc'[c.by] \in {"notify", "ack"} => Terminal(msg[c.by].queue, verdict[c.by])
      BY <3>2, <3>3, AfterStoreAnswers
    <3> QED BY <1>4, <2>1, <3>1, <3>3, <3>4, HandlerMoves
  <2> QED BY <2>2, <2>3
<1>6. CASE FraudLookupReply(r) \/ FraudCacheReply(r)
  <2>1. CASE c.by = None
    <3>1. UNCHANGED <<pc, verdict>>
      BY <1>1, <1>3, <1>6, <2>1, LookupSplit
    <3> QED BY <1>4, <3>1, NothingMoves
  <2>2. CASE c.by # None
    <3>1. /\ c.by \in Slot
          /\ \/ \E v, q : Decide(c.by, msg[c.by], v, q)
             \/ pc' = [pc EXCEPT ![c.by] = "fraudCall"] /\ UNCHANGED verdict
      BY <1>1, <1>3, <1>6, <2>2, LookupSplit
    <3>2. pc'[c.by] \notin {"notify", "ack"}
          /\ \A x \in Slot \ {c.by} : pc'[x] = pc[x] /\ verdict'[x] = verdict[x]
      BY <1>1, <3>1, LookupKeeps
    <3> QED BY <1>4, <3>1, <3>2, HandlerMoves
  <2> QED BY <2>1, <2>2
<1> QED BY <1>5, <1>6 DEF RedisReply

LEMMA FailKeeps ==
    ASSUME InductiveInv, NoPaymentLost, NEW r \in Replica, RedisFails(r)
    PROVE  NoPaymentLost'
<1>1. /\ UNCHANGED <<ready, dead, closed, msg, verdict, held>>
      /\ \A s \in Slot : pc'[s] = pc[s] \/ pc'[s] = "nack"
  BY FailSplit DEF InductiveInv
<1>2. \A x \in Slot : Answers(x) => Answers(x)'
  BY <1>1 DEF Answers
<1>3. \A m \in Msg : ready[m] > 0 => Accounted(m.txn)'
  BY <1>1 DEF Accounted
<1>4. \A x \in Slot, t \in Txn : HandledBy(x, t) => Accounted(t)'
  BY <1>1, <1>2 DEF Accounted, HandledBy
<1> QED BY <1>1, <1>3, <1>4, StaysAccounted

LEMMA AnswerKeeps ==
    ASSUME InductiveInv, NoPaymentLost, NEW s \in Slot,
           \/ \E v \in Verdict : FraudServiceAnswers(s, v) \/ AcquirerAnswers(s, v)
           \/ SettlementAnswers(s)
    PROVE  NoPaymentLost'
<1>1. UNCHANGED <<ready, dead, closed, msg, held>>
  BY DEF FraudServiceAnswers, AcquirerAnswers, SettlementAnswers
<1>2. /\ pc'[s] \notin {"notify", "ack"}
      /\ \A x \in Slot \ {s} : pc'[x] = pc[x] /\ verdict'[x] = verdict[x]
  BY DecideKeeps DEF FraudServiceAnswers, AcquirerAnswers, SettlementAnswers,
                     InductiveInv, TypeOK
<1> QED BY <1>1, <1>2, HandlerMoves

\* A handler passes its message on before it stops answering for it.
LEMMA ForwardKeeps ==
    ASSUME InductiveInv, NoPaymentLost, NEW s \in Slot, Forward(s)
    PROVE  NoPaymentLost'
<1>1. TypeOK /\ SlotOK(s) /\ pc[s] = "publish"
  BY DEF InductiveInv, SlotInv, Forward
<1>2. /\ msg[s] \in Msg /\ verdict[s] \in Verdict
      /\ ~Terminal(msg[s].queue, verdict[s])
  BY <1>1 DEF SlotOK, DecidedPC
<1>3. /\ UNCHANGED <<closed, msg, held, verdict>> /\ Publish(s)
      /\ \A x \in Slot \ {s} : pc'[x] = pc[x]
  BY <1>1 DEF Forward, TypeOK
<1>4. /\ dead \subseteq dead'
      /\ \A m \in Msg : ready[m] > 0 => ready'[m] > 0
      /\ \A t \in Txn : held[s] /\ msg[s].txn = t => Accounted(t)'
  <2>1. CASE ~held[s]
    BY <1>3, <2>1 DEF Publish
  <2>2. CASE held[s] /\ Buries(msg[s], verdict[s])
    BY <1>3, <2>2 DEF Publish, Accounted
  <2>3. CASE held[s] /\ ~Buries(msg[s], verdict[s])
    <3>1. PICK n \in Msg : n = Successor(msg[s], verdict[s]) /\ n.txn = msg[s].txn
      BY <1>2, <2>3, SuccessorType
    <3>2. ready' = [ready EXCEPT ![n] = @ + 1] /\ dead' = dead
      BY <1>3, <2>3, <3>1 DEF Publish
    <3>3. ready'[n] > 0 /\ \A m \in Msg : ready[m] > 0 => ready'[m] > 0
      BY <1>1, <3>2 DEF TypeOK
    <3> QED BY <3>1, <3>2, <3>3 DEF Accounted
  <2> QED BY <2>1, <2>2, <2>3
<1>5. \A m \in Msg : ready[m] > 0 => Accounted(m.txn)'
  BY <1>4 DEF Accounted
<1>6. \A x \in Slot \ {s}, t \in Txn : HandledBy(x, t) => Accounted(t)'
  BY <1>3 DEF Accounted, Answers, HandledBy
<1>7. \A t \in Txn : HandledBy(s, t) => Accounted(t)'
  BY <1>4 DEF Answers, HandledBy
<1> QED BY <1>3, <1>4, <1>5, <1>6, <1>7, StaysAccounted

\* A handler that ends has closed its payment, returned its message, or had
\* nothing to answer for.
LEMMA EndKeeps ==
    ASSUME InductiveInv, DeliveryInv, NEW s \in Slot, ForwardThrows(s) \/ Ack(s) \/ Nack(s)
    PROVE  NoPaymentLost'
<1>1. TypeOK /\ SlotOK(s) /\ NoPaymentLost
  BY DEF InductiveInv, SlotInv, DeliveryInv
<1>2. /\ dead' = dead
      /\ \A x \in Slot \ {s} : /\ pc'[x] = pc[x] /\ msg'[x] = msg[x]
                               /\ verdict'[x] = verdict[x] /\ held'[x] = held[x]
  BY <1>1 DEF ForwardThrows, Ack, Nack, Release, TypeOK
<1>3. \A x \in Slot \ {s}, t \in Txn : HandledBy(x, t) => Accounted(t)'
  BY <1>2 DEF Accounted, Answers, HandledBy
<1>4. CASE ForwardThrows(s)
  <2>1. ~held[s] /\ ready' = ready /\ closed' = closed
    BY <1>4 DEF ForwardThrows, DeliveryInv, HeldOpen
  <2>2. \A m \in Msg : ready[m] > 0 => Accounted(m.txn)'
    BY <2>1 DEF Accounted
  <2> QED BY <1>1, <1>2, <1>3, <2>1, <2>2, StaysAccounted DEF Answers, HandledBy
<1>5. CASE Ack(s)
  <2>1. /\ pc[s] = "ack" /\ ready' = ready /\ closed \subseteq closed'
        /\ held[s] /\ Terminal(msg[s].queue, verdict[s]) => msg[s].txn \in closed'
    BY <1>5 DEF Ack
  <2>2. \A m \in Msg : ready[m] > 0 => Accounted(m.txn)'
    BY <2>1 DEF Accounted
  <2>3. \A t \in Txn : HandledBy(s, t) => Accounted(t)'
    BY <2>1 DEF Answers, Accounted, HandledBy
  <2> QED BY <1>1, <1>2, <1>3, <2>1, <2>2, <2>3, StaysAccounted
<1>6. CASE Nack(s)
  <2>1. msg[s] \in Msg /\ closed' = closed
        /\ ready' = IF held[s] THEN [ready EXCEPT ![msg[s]] = @ + 1] ELSE ready
    BY <1>1, <1>6 DEF Nack, SlotOK
  <2>2. /\ \A m \in Msg : ready[m] > 0 => ready'[m] > 0
        /\ held[s] => ready'[msg[s]] > 0
    BY <1>1, <2>1 DEF TypeOK
  <2>3. \A m \in Msg : ready[m] > 0 => Accounted(m.txn)'
    BY <2>2 DEF Accounted
  <2>4. \A t \in Txn : HandledBy(s, t) => Accounted(t)'
    BY <2>1, <2>2 DEF Answers, Accounted, HandledBy
  <2> QED BY <1>1, <1>2, <1>3, <2>1, <2>3, <2>4, StaysAccounted
<1> QED BY <1>4, <1>5, <1>6

LEMMA OtherReplicas ==
    ASSUME NEW r \in Replica, NEW f, NEW v, NEW x \in Slot, Home[x] # r
    PROVE  OnReplica(r, f, v)[x] = f[x]
BY DEF OnReplica

\* The broker puts back what a lost channel held.
LEMMA RequeueKeeps ==
    ASSUME InductiveInv, NoPaymentLost, NEW r \in Replica, ready' = Requeued(r),
           UNCHANGED <<dead, closed>>,
           \A x \in Slot : Home[x] # r => /\ pc'[x] = pc[x] /\ msg'[x] = msg[x]
                                          /\ verdict'[x] = verdict[x] /\ held'[x] = held[x]
    PROVE  NoPaymentLost'
<1>1. TypeOK /\ SlotInv
  BY DEF InductiveInv
<1>2. \A m \in Msg : IsFiniteSet(Unacked(r, m))
  BY FS_Subset, PipelineAssumption DEF Unacked
<1>3. ASSUME NEW m \in Msg
      PROVE  /\ ready[m] > 0 => ready'[m] > 0
             /\ Unacked(r, m) # {} => ready'[m] > 0
  <2>1. /\ Cardinality(Unacked(r, m)) \in Nat
        /\ Unacked(r, m) # {} => Cardinality(Unacked(r, m)) # 0
    BY <1>2, FS_CardinalityType, FS_EmptySet
  <2>2. ready[m] \in Nat /\ ready'[m] = ready[m] + Cardinality(Unacked(r, m))
    BY <1>1 DEF TypeOK, Requeued
  <2> QED BY <2>1, <2>2
<1>4. \A m \in Msg : ready[m] > 0 => Accounted(m.txn)'
  BY <1>3 DEF Accounted
<1>5. ASSUME NEW x \in Slot, NEW t \in Txn, HandledBy(x, t)
      PROVE  Accounted(t)'
  <2>1. CASE Home[x] # r
    BY <1>5, <2>1 DEF Answers, Accounted, HandledBy
  <2>2. CASE Home[x] = r
    <3>1. PICK m \in Msg : m = msg[x] /\ m.txn = t /\ x \in Unacked(r, m)
      BY <1>1, <1>5, <2>2 DEF Answers, HandledBy, Unacked, SlotInv, SlotOK
    <3>2. ready'[m] > 0
      BY <1>3, <3>1
    <3> QED BY <3>1, <3>2 DEF Accounted
  <2> QED BY <2>1, <2>2
<1> QED BY <1>4, <1>5, StaysAccounted

-----------------------------------------------------------------------------

LEMMA NextKeeps ==
    ASSUME InductiveInv, DeliveryInv, [Next]_vars
    PROVE  NoPaymentLost'
<1>1. NoPaymentLost
  BY DEF DeliveryInv
<1>2. ASSUME NEW s \in Slot, NEW m \in Msg, Deliver(s, m)
      PROVE  NoPaymentLost'
  BY <1>1, <1>2, DeliverKeeps
<1>3. ASSUME NEW s \in Slot, NEW m \in Msg, Throttle(s, m)
      PROVE  NoPaymentLost'
  BY <1>1, <1>3, NothingMoves DEF Throttle, handlers
<1>4. ASSUME NEW s \in Slot, HandlerStep(s)
      PROVE  NoPaymentLost'
  <2>1. CASE Notify(s)
    <3>1. /\ pc[s] = "notify" /\ UNCHANGED <<ready, dead, closed, msg, held, verdict>>
          /\ \A x \in Slot \ {s} : pc'[x] = pc[x]
      BY <2>1 DEF Notify, InductiveInv, TypeOK
    <3>2. Answers(s) => Terminal(msg[s].queue, verdict'[s])
      BY <3>1 DEF Answers
    <3> QED BY <1>1, <3>1, <3>2, HandlerMoves
  <2> QED BY <1>1, <1>4, <2>1, AnswerKeeps, ForwardKeeps, EndKeeps DEF HandlerStep
<1>5. ASSUME NEW r \in Replica, RedisReply(r) \/ RedisFails(r)
      PROVE  NoPaymentLost'
  BY <1>1, <1>5, ReplyKeeps, FailKeeps
<1>6. ASSUME NEW r \in Replica, Crash(r) \/ Disconnect(r)
      PROVE  NoPaymentLost'
  <2>1. /\ ready' = Requeued(r) /\ UNCHANGED <<dead, closed>>
        /\ \A x \in Slot : Home[x] # r => /\ pc'[x] = pc[x] /\ msg'[x] = msg[x]
                                          /\ verdict'[x] = verdict[x] /\ held'[x] = held[x]
    <3>1. CASE Crash(r)
      <4>1. /\ ready' = Requeued(r) /\ UNCHANGED <<dead, closed>>
            /\ pc' = OnReplica(r, pc, "idle") /\ msg' = OnReplica(r, msg, None)
            /\ verdict' = OnReplica(r, verdict, None) /\ held' = OnReplica(r, held, FALSE)
        BY <3>1 DEF Crash
      <4> QED BY <4>1, OtherReplicas, ZenonT(30)
    <3>2. CASE Disconnect(r)
      BY <3>2, OtherReplicas DEF Disconnect
    <3> QED BY <1>6, <3>1, <3>2
  <2> QED BY <1>1, <2>1, RequeueKeeps
<1>7. ASSUME NEW r \in Replica, Restart(r) \/ WindowElapses(r) \/ RedisResends(r)
      PROVE  NoPaymentLost'
  BY <1>1, <1>7, NothingMoves DEF Restart, WindowElapses, RedisResends, handlers
<1>8. ASSUME NEW t \in Txn, FraudResultExpires(t)
      PROVE  NoPaymentLost'
  BY <1>1, <1>8, NothingMoves DEF FraudResultExpires, handlers
<1>9. CASE UNCHANGED vars
  BY <1>1, <1>9, NothingMoves DEF vars, handlers
<1> QED BY <1>2, <1>3, <1>4, <1>5, <1>6, <1>7, <1>8, <1>9 DEF Next, RedisFails

\* At-least-once: until it is acknowledged at its end or dead-lettered, a
\* payment is in a queue or with a handler whose death puts it back, through
\* crashes, lost channels, requeues and rejected Redis commands.
THEOREM NothingIsLost == Spec => []NoPaymentLost
<1>1. Init => DeliveryInv
  <2>1. ASSUME Init, NEW t \in Txn
        PROVE  \E m \in Msg : m.txn = t /\ ready[m] > 0
    <3>1. [queue |-> "validation", txn |-> t, retry |-> 0] \in Msg
      BY DEF Msg, MaxRetry
    <3> QED BY <2>1, <3>1 DEF Init
  <2>2. Init => HeldOpen
    BY DEF Init, HeldOpen
  <2> QED BY <2>1, <2>2 DEF DeliveryInv, NoPaymentLost
<1>2. InductiveInv /\ DeliveryInv /\ [Next]_vars => DeliveryInv'
  BY HeldOpenStays, NextKeeps DEF DeliveryInv
<1>3. DeliveryInv => NoPaymentLost
  BY DEF DeliveryInv
<1> QED BY <1>1, <1>2, <1>3, Invariance, PTL DEF Spec

-----------------------------------------------------------------------------
(* How many deliveries of a payment are under way, stage by stage *)

Fresh(t)     == [queue |-> "validation", txn |-> t, retry |-> 0]
Screenable(t) == [queue |-> "fraud_check", txn |-> t, retry |-> 0]
Chargeable(t) == [queue |-> "processing", txn |-> t, retry |-> 0]

PassedPC == {"notify", "ack"}

\* Handlers whose death puts m back; those of them that have not passed it on;
\* and those that will still charge for m, or return it.
Holders(m)  == {s \in Slot : held[s] /\ msg[s] = m}
Working(m)  == {s \in Holders(m) : pc[s] \notin PassedPC}
Charging(m) == {s \in Slot : /\ msg[s] = m
                             /\ pc[s] = "acquirer" \/ (pc[s] = "nack" /\ held[s])}

Copies(m) == ready[m] + Cardinality(Holders(m))
Open(m)   == ready[m] + Cardinality(Working(m))
Due(m)    == ready[m] + Cardinality(Charging(m))

\* A valid payment is validated at its first delivery, so it has one message
\* in payment.validation at most.
FirstTry ==
    /\ \A m \in Msg :
           ready[m] > 0 /\ m.queue = "validation" /\ m.txn \in ValidTxn => m.retry = 0
    /\ \A s \in Slot :
           pc[s] # "idle" /\ msg[s].queue = "validation" /\ msg[s].txn \in ValidTxn =>
               /\ msg[s].retry = 0
               /\ pc[s] \in DecidedPC => verdict[s] = "accept"

\* A fault adds to the copies that are still to pass a stage no more than the
\* copies there are of that stage's message, so the bounds are sums of sums.
Upstream(t) == Open(Fresh(t)) + Open(Screenable(t))

Within(t, f) ==
    /\ Copies(Fresh(t)) <= 1
    /\ Open(Fresh(t)) + Copies(Screenable(t)) <= f + 1
    /\ 2 * (Upstream(t) + Copies(Chargeable(t))) <= (f + 1) * (f + 2)
    /\ 6 * (Upstream(t) + Due(Chargeable(t)) + charges[t]) <= (f + 1) * (f + 2) * (f + 3)

BudgetInv == FirstTry /\ \A t \in ValidTxn : Within(t, faults)

LEMMA Stages ==
    ASSUME NEW t \in ValidTxn
    PROVE  Fresh(t) \in Msg /\ Screenable(t) \in Msg /\ Chargeable(t) \in Msg
BY PipelineAssumption DEF Msg, Worker, MaxRetry, Fresh, Screenable, Chargeable

\* A step that changes whether one element belongs.
Bit(x, S) == IF x \in S THEN 1 ELSE 0

LEMMA OneChanges ==
    ASSUME NEW S \in SUBSET Slot, NEW T \in SUBSET Slot, NEW s \in Slot,
           \A x \in Slot \ {s} : x \in S <=> x \in T
    PROVE  Cardinality(T) + Bit(s, S) = Cardinality(S) + Bit(s, T)
<1>1. IsFiniteSet(S) /\ IsFiniteSet(T)
  BY FS_Subset, PipelineAssumption
<1>2. Cardinality(S) \in Nat /\ Cardinality(T) \in Nat
  BY <1>1, FS_CardinalityType
<1>3. S \ {s} = T \ {s}
  OBVIOUS
<1>4. /\ Cardinality(S \ {s}) = IF s \in S THEN Cardinality(S) - 1 ELSE Cardinality(S)
      /\ Cardinality(T \ {s}) = IF s \in T THEN Cardinality(T) - 1 ELSE Cardinality(T)
  BY <1>1, FS_RemoveElement
<1> QED BY <1>2, <1>3, <1>4 DEF Bit

LEMMA CountType ==
    ASSUME TypeOK, NEW m \in Msg
    PROVE  /\ Holders(m) \in SUBSET Slot /\ Working(m) \in SUBSET Holders(m)
           /\ Charging(m) \in SUBSET Slot
           /\ IsFiniteSet(Holders(m)) /\ IsFiniteSet(Working(m)) /\ IsFiniteSet(Charging(m))
           /\ Cardinality(Holders(m)) \in Nat /\ Cardinality(Working(m)) \in Nat
           /\ Cardinality(Charging(m)) \in Nat
           /\ Copies(m) \in Nat /\ Open(m) \in Nat /\ Due(m) \in Nat
           /\ Open(m) <= Copies(m)
<1>1. /\ Holders(m) \in SUBSET Slot /\ Working(m) \in SUBSET Holders(m)
      /\ Charging(m) \in SUBSET Slot
  BY DEF Holders, Working, Charging
<1>2. /\ IsFiniteSet(Holders(m)) /\ IsFiniteSet(Charging(m)) /\ IsFiniteSet(Working(m))
      /\ Cardinality(Working(m)) <= Cardinality(Holders(m))
  BY <1>1, FS_Subset, PipelineAssumption
<1>3. /\ Cardinality(Holders(m)) \in Nat /\ Cardinality(Working(m)) \in Nat
      /\ Cardinality(Charging(m)) \in Nat /\ ready[m] \in Nat
  BY <1>2, FS_CardinalityType DEF TypeOK
<1> QED BY <1>1, <1>2, <1>3 DEF Copies, Open, Due

LEMMA CountTypeNext ==
    ASSUME TypeOK', NEW m \in Msg
    PROVE  Copies(m)' \in Nat /\ Open(m)' \in Nat /\ Due(m)' \in Nat
<1>1. /\ IsFiniteSet(Holders(m)') /\ IsFiniteSet(Charging(m)') /\ IsFiniteSet(Working(m)')
  BY FS_Subset, PipelineAssumption DEF Holders, Working, Charging
<1>2. /\ Cardinality(Holders(m)') \in Nat /\ Cardinality(Working(m)') \in Nat
      /\ Cardinality(Charging(m)') \in Nat /\ ready'[m] \in Nat
  BY <1>1, FS_CardinalityType DEF TypeOK
<1> QED BY <1>2 DEF Copies, Open, Due

\* Only the handler in s moves: what the counts of any message become.
LEMMA CountStep ==
    ASSUME TypeOK, TypeOK', NEW s \in Slot, NEW m \in Msg,
           \A x \in Slot \ {s} : pc'[x] = pc[x] /\ msg'[x] = msg[x] /\ held'[x] = held[x]
    PROVE  /\ Copies(m)' + ready[m] + Bit(s, Holders(m))
                  = Copies(m) + ready'[m] + Bit(s, Holders(m)')
           /\ Open(m)' + ready[m] + Bit(s, Working(m))
                  = Open(m) + ready'[m] + Bit(s, Working(m)')
           /\ Due(m)' + ready[m] + Bit(s, Charging(m))
                  = Due(m) + ready'[m] + Bit(s, Charging(m)')
<1>1. /\ Holders(m) \in SUBSET Slot /\ Holders(m)' \in SUBSET Slot
      /\ Working(m) \in SUBSET Slot /\ Working(m)' \in SUBSET Slot
      /\ Charging(m) \in SUBSET Slot /\ Charging(m)' \in SUBSET Slot
  BY DEF Holders, Working, Charging
<1>2. \A x \in Slot \ {s} : /\ x \in Holders(m) <=> x \in Holders(m)'
                            /\ x \in Working(m) <=> x \in Working(m)'
                            /\ x \in Charging(m) <=> x \in Charging(m)'
  BY DEF Holders, Working, Charging
<1>3. Cardinality(Holders(m)') + Bit(s, Holders(m))
          = Cardinality(Holders(m)) + Bit(s, Holders(m)')
  BY <1>1, <1>2, OneChanges
<1>4. Cardinality(Working(m)') + Bit(s, Working(m))
          = Cardinality(Working(m)) + Bit(s, Working(m)')
  BY <1>1, <1>2, OneChanges
<1>5. Cardinality(Charging(m)') + Bit(s, Charging(m))
          = Cardinality(Charging(m)) + Bit(s, Charging(m)')
  BY <1>1, <1>2, OneChanges
<1>6. /\ IsFiniteSet(Holders(m)') /\ IsFiniteSet(Working(m)') /\ IsFiniteSet(Charging(m)')
      /\ IsFiniteSet(Holders(m)) /\ IsFiniteSet(Working(m)) /\ IsFiniteSet(Charging(m))
  BY <1>1, FS_Subset, PipelineAssumption
<1>7. /\ Cardinality(Holders(m)') \in Nat /\ Cardinality(Holders(m)) \in Nat
      /\ Cardinality(Working(m)') \in Nat /\ Cardinality(Working(m)) \in Nat
      /\ Cardinality(Charging(m)') \in Nat /\ Cardinality(Charging(m)) \in Nat
      /\ ready[m] \in Nat /\ ready'[m] \in Nat
  BY <1>6, FS_CardinalityType DEF TypeOK
<1>8. /\ Bit(s, Holders(m)) \in Nat /\ Bit(s, Holders(m)') \in Nat
      /\ Bit(s, Working(m)) \in Nat /\ Bit(s, Working(m)') \in Nat
      /\ Bit(s, Charging(m)) \in Nat /\ Bit(s, Charging(m)') \in Nat
  BY DEF Bit
<1>9. /\ Copies(m) = ready[m] + Cardinality(Holders(m))
      /\ Copies(m)' = ready'[m] + Cardinality(Holders(m)')
      /\ Open(m) = ready[m] + Cardinality(Working(m))
      /\ Open(m)' = ready'[m] + Cardinality(Working(m)')
      /\ Due(m) = ready[m] + Cardinality(Charging(m))
      /\ Due(m)' = ready'[m] + Cardinality(Charging(m)')
  BY DEF Copies, Open, Due
<1> QED BY <1>3, <1>4, <1>5, <1>7, <1>8, <1>9

\* What a step without a fault does to the counts of a valid payment.
Spends(t) ==
    /\ Copies(Fresh(t))' <= Copies(Fresh(t))
    /\ Open(Fresh(t))' + Copies(Screenable(t))' <= Open(Fresh(t)) + Copies(Screenable(t))
    /\ Upstream(t)' + Copies(Chargeable(t))' <= Upstream(t) + Copies(Chargeable(t))
    /\ Upstream(t)' + Due(Chargeable(t))' + charges'[t]
           <= Upstream(t) + Due(Chargeable(t)) + charges[t]

\* What a fault may do to them.
Doubles(t) ==
    /\ \A m \in {Fresh(t), Screenable(t), Chargeable(t)} :
           /\ Copies(m)' <= Copies(m)
           /\ Open(m)' <= Open(m) + Copies(m)
           /\ Due(m)' <= Due(m) + Copies(m)
    /\ charges'[t] = charges[t]

LEMMA SpendKeeps ==
    ASSUME TypeOK, TypeOK', NEW t \in ValidTxn, Within(t, faults), Spends(t), faults' = faults
    PROVE  Within(t, faults)'
<1>1. /\ Fresh(t) \in Msg /\ Screenable(t) \in Msg /\ Chargeable(t) \in Msg /\ t \in Txn
      /\ faults \in Nat
  BY Stages, PipelineAssumption DEF TypeOK
<1>2. /\ Copies(Fresh(t)) \in Nat /\ Copies(Fresh(t))' \in Nat
      /\ Open(Fresh(t)) \in Nat /\ Open(Fresh(t))' \in Nat
      /\ Copies(Screenable(t)) \in Nat /\ Copies(Screenable(t))' \in Nat
      /\ Open(Screenable(t)) \in Nat /\ Open(Screenable(t))' \in Nat
      /\ Copies(Chargeable(t)) \in Nat /\ Copies(Chargeable(t))' \in Nat
      /\ Due(Chargeable(t)) \in Nat /\ Due(Chargeable(t))' \in Nat
      /\ charges[t] \in Nat /\ charges'[t] \in Nat
  BY <1>1, CountType, CountTypeNext DEF TypeOK
<1>3. Upstream(t) \in Nat /\ Upstream(t)' \in Nat
  BY <1>2 DEF Upstream
<1>4. (faults + 1) * (faults + 2) \in Nat /\ (faults + 1) * (faults + 2) * (faults + 3) \in Nat
  BY <1>1
<1> QED BY <1>1, <1>2, <1>3, <1>4 DEF Within, Spends

\* The bounds for f faults, as numbers, and what one more fault makes of them.
LEMMA OneMoreFault ==
    ASSUME NEW f \in Nat, NEW c1 \in Nat, NEW c2 \in Nat, NEW c3 \in Nat,
           NEW o1 \in Nat, NEW o2 \in Nat, NEW d3 \in Nat,
           NEW n1 \in Nat, NEW n2 \in Nat, NEW n3 \in Nat,
           c1 <= 1, o1 + c2 <= f + 1,
           2 * (o1 + o2 + c3) <= (f + 1) * (f + 2),
           6 * (o1 + o2 + d3) <= (f + 1) * (f + 2) * (f + 3),
           n1 <= o1 + c1, n2 <= o2 + c2, n3 <= d3 + c3
    PROVE  /\ n1 + c2 <= f + 2
           /\ 2 * (n1 + n2 + c3) <= (f + 2) * (f + 3)
           /\ 6 * (n1 + n2 + n3) <= (f + 2) * (f + 3) * (f + 4)
<1> DEFINE p == (f + 1) * (f + 2)
           q == (f + 2) * (f + 3)
           c == (f + 1) * (f + 2) * (f + 3)
           d == (f + 2) * (f + 3) * (f + 4)
<1>1. p \in Nat /\ q \in Nat /\ c \in Nat /\ d \in Nat
  OBVIOUS
<1>2. q = p + 2 * (f + 2) /\ d = c + 3 * p + 6 * (f + 2)
  OBVIOUS
<1>3. 2 * (o1 + o2 + c3) <= p /\ 6 * (o1 + o2 + d3) <= c
  OBVIOUS
<1>4. n1 + n2 <= o1 + o2 + f + 2 /\ n1 + c2 <= f + 2
  OBVIOUS
<1> HIDE DEF p, q, c, d
<1>5. 2 * c3 <= p
  BY <1>1, <1>3
<1>6. 2 * (n1 + n2 + c3) <= q
  BY <1>1, <1>2, <1>3, <1>4
<1>7. 6 * (n1 + n2 + n3) <= d
  <2>1. n1 + n2 + n3 <= o1 + o2 + d3 + f + 2 + c3
    BY <1>4
  <2> QED BY <2>1, <1>1, <1>2, <1>3, <1>5
<1> QED BY <1>4, <1>6, <1>7 DEF q, d

LEMMA FaultKeeps ==
    ASSUME TypeOK, TypeOK', NEW t \in ValidTxn, Within(t, faults), Doubles(t),
           faults' = faults + 1
    PROVE  Within(t, faults)'
<1>1. /\ Fresh(t) \in Msg /\ Screenable(t) \in Msg /\ Chargeable(t) \in Msg /\ t \in Txn
      /\ faults \in Nat /\ charges[t] \in Nat /\ charges'[t] = charges[t]
  BY Stages, PipelineAssumption DEF TypeOK, Doubles
<1>2. \A m \in {Fresh(t), Screenable(t), Chargeable(t)} :
          /\ Copies(m) \in Nat /\ Open(m) \in Nat /\ Due(m) \in Nat
          /\ Copies(m)' \in Nat /\ Open(m)' \in Nat /\ Due(m)' \in Nat
          /\ Copies(m)' <= Copies(m)
          /\ Open(m)' <= Open(m) + Copies(m)
          /\ Due(m)' <= Due(m) + Copies(m)
  BY <1>1, CountType, CountTypeNext DEF Doubles
<1> DEFINE f  == faults
           c1 == Copies(Fresh(t))       n1 == Open(Fresh(t))'
           c2 == Copies(Screenable(t))  n2 == Open(Screenable(t))'
           c3 == Copies(Chargeable(t))  n3 == Due(Chargeable(t))' + charges'[t]
           o1 == Open(Fresh(t))         o2 == Open(Screenable(t))
           d3 == Due(Chargeable(t)) + charges[t]
<1>3. /\ c1 <= 1 /\ o1 + c2 <= f + 1
      /\ 2 * (o1 + o2 + c3) <= (f + 1) * (f + 2)
      /\ 6 * (o1 + o2 + d3) <= (f + 1) * (f + 2) * (f + 3)
  <2>1. o1 + o2 + d3 = o1 + o2 + Due(Chargeable(t)) + charges[t]
    BY <1>1, <1>2
  <2> QED BY <2>1 DEF Within, Upstream
<1>4. /\ f \in Nat /\ c1 \in Nat /\ c2 \in Nat /\ c3 \in Nat
      /\ o1 \in Nat /\ o2 \in Nat /\ d3 \in Nat
      /\ n1 \in Nat /\ n2 \in Nat /\ n3 \in Nat
      /\ n1 <= o1 + c1 /\ n2 <= o2 + c2 /\ n3 <= d3 + c3
  BY <1>1, <1>2
<1> HIDE DEF c1, c2, c3, o1, o2, d3, n1, n2, n3
<1>5. /\ n1 + c2 <= f + 2
      /\ 2 * (n1 + n2 + c3) <= (f + 2) * (f + 3)
      /\ 6 * (n1 + n2 + n3) <= (f + 2) * (f + 3) * (f + 4)
  BY <1>3, <1>4, OneMoreFault
<1>6. /\ Copies(Fresh(t))' <= 1
      /\ n1 + Copies(Screenable(t))' <= n1 + c2
      /\ n1 + n2 + Copies(Chargeable(t))' <= n1 + n2 + c3
  BY <1>2, <1>3, <1>4 DEF c1, c2, c3
<1>7. /\ Upstream(t)' = n1 + n2
      /\ Upstream(t)' + Due(Chargeable(t))' + charges'[t] = n1 + n2 + n3
  BY <1>1, <1>2, <1>4 DEF n1, n2, n3, Upstream
<1>8. (f + 1) + 1 = f + 2 /\ (f + 1) + 2 = f + 3 /\ (f + 1) + 3 = f + 4
  BY <1>1
<1>9. n1 + Copies(Screenable(t))' <= f + 2
      /\ 2 * (n1 + n2 + Copies(Chargeable(t))') <= (f + 2) * (f + 3)
  <2>1. Copies(Screenable(t))' \in Nat /\ Copies(Chargeable(t))' \in Nat
        /\ (f + 2) * (f + 3) \in Nat
    BY <1>1, <1>2
  <2> QED BY <2>1, <1>4, <1>5, <1>6
<1> QED BY <1>1, <1>5, <1>6, <1>7, <1>8, <1>9 DEF Within, n1

LEMMA NoGrowth ==
    ASSUME TypeOK, TypeOK', NEW t \in ValidTxn,
           \A m \in Msg : Copies(m)' <= Copies(m) /\ Open(m)' <= Open(m),
           Due(Chargeable(t))' + charges'[t] <= Due(Chargeable(t)) + charges[t]
    PROVE  Spends(t)
<1>1. /\ Fresh(t) \in Msg /\ Screenable(t) \in Msg /\ Chargeable(t) \in Msg /\ t \in Txn
  BY Stages, PipelineAssumption
<1>2. \A m \in {Fresh(t), Screenable(t), Chargeable(t)} :
          /\ Copies(m) \in Nat /\ Open(m) \in Nat /\ Due(m) \in Nat
          /\ Copies(m)' \in Nat /\ Open(m)' \in Nat /\ Due(m)' \in Nat
          /\ Copies(m)' <= Copies(m) /\ Open(m)' <= Open(m)
  BY <1>1, CountType, CountTypeNext
<1>3. charges[t] \in Nat /\ charges'[t] \in Nat
  BY <1>1 DEF TypeOK
<1>4. Upstream(t) \in Nat /\ Upstream(t)' \in Nat /\ Upstream(t)' <= Upstream(t)
  BY <1>2 DEF Upstream
<1> QED BY <1>2, <1>3, <1>4 DEF Spends

\* Nothing about a delivery changes.
LEMMA CountsSame ==
    ASSUME TypeOK, TypeOK', UNCHANGED <<ready, pc, msg, held, charges>>, NEW t \in ValidTxn
    PROVE  Spends(t)
<1>1. \A m \in Msg : Copies(m)' = Copies(m) /\ Open(m)' = Open(m) /\ Due(m)' = Due(m)
  BY DEF Copies, Open, Due, Holders, Working, Charging
<1>2. \A m \in Msg : Copies(m) \in Nat /\ Open(m) \in Nat /\ Due(m) \in Nat
  BY CountType
<1>3. Chargeable(t) \in Msg /\ charges[t] \in Nat
  BY Stages, PipelineAssumption DEF TypeOK
<1> QED BY <1>1, <1>2, <1>3, NoGrowth

\* A handler that goes on, without passing its message back from where it was
\* passed on and without coming to charge for it.
LEMMA HandlerCounts ==
    ASSUME TypeOK, TypeOK', NEW s \in Slot, UNCHANGED <<ready, msg, held, charges>>,
           \A x \in Slot \ {s} : pc'[x] = pc[x],
           pc[s] \in PassedPC => pc'[s] \in PassedPC,
           pc'[s] \in {"acquirer", "nack"} => msg[s].queue # "processing",
           NEW t \in ValidTxn
    PROVE  Spends(t)
<1>1. ASSUME NEW m \in Msg
      PROVE  Copies(m)' <= Copies(m) /\ Open(m)' <= Open(m)
  <2>1. /\ Copies(m)' + ready[m] + Bit(s, Holders(m))
                = Copies(m) + ready'[m] + Bit(s, Holders(m)')
        /\ Open(m)' + ready[m] + Bit(s, Working(m))
               = Open(m) + ready'[m] + Bit(s, Working(m)')
    BY CountStep
  <2>2. /\ Bit(s, Holders(m)) \in Nat /\ Bit(s, Holders(m)') = Bit(s, Holders(m))
        /\ Bit(s, Working(m)) \in Nat /\ Bit(s, Working(m)') \in Nat
        /\ Bit(s, Working(m)') <= Bit(s, Working(m))
    BY DEF Bit, Holders, Working
  <2>3. /\ Copies(m) \in Nat /\ Open(m) \in Nat /\ ready[m] \in Nat /\ ready'[m] = ready[m]
        /\ Copies(m)' \in Nat /\ Open(m)' \in Nat
    BY CountType, CountTypeNext DEF TypeOK
  <2> QED BY <2>1, <2>2, <2>3
<1>2. Due(Chargeable(t))' <= Due(Chargeable(t))
  <2>1. Chargeable(t) \in Msg /\ Chargeable(t).queue = "processing"
    BY Stages DEF Chargeable
  <2>2. Due(Chargeable(t))' + ready[Chargeable(t)] + Bit(s, Charging(Chargeable(t)))
            = Due(Chargeable(t)) + ready'[Chargeable(t)] + Bit(s, Charging(Chargeable(t))')
    BY <2>1, CountStep
  <2>3. /\ Bit(s, Charging(Chargeable(t))) \in Nat
        /\ Bit(s, Charging(Chargeable(t))') = 0
    BY <2>1 DEF Bit, Charging
  <2>4. /\ Due(Chargeable(t)) \in Nat /\ Due(Chargeable(t))' \in Nat
        /\ ready[Chargeable(t)] \in Nat /\ ready'[Chargeable(t)] = ready[Chargeable(t)]
    BY <2>1, CountType, CountTypeNext DEF TypeOK
  <2> QED BY <2>2, <2>3, <2>4
<1>3. /\ charges[t] \in Nat /\ Due(Chargeable(t)) \in Nat /\ Due(Chargeable(t))' \in Nat
  BY Stages, CountType, CountTypeNext, PipelineAssumption DEF TypeOK
<1> QED BY <1>1, <1>2, <1>3, NoGrowth

\* The broker hands a message to an idle credit: the handler holds what the
\* queue had.
LEMMA DeliverSpends ==
    ASSUME InductiveInv, TypeOK', NEW s \in Slot, NEW n \in Msg, Deliver(s, n),
           NEW t \in ValidTxn
    PROVE  Spends(t)
<1>1. TypeOK /\ SlotInv
  BY DEF InductiveInv
<1>2. Take(s, n) /\ charges' = charges
  BY <1>1, DeliverKeepsOthers
<1>3. /\ pc[s] = "idle" /\ ~held[s] /\ ready[n] > 0
      /\ msg'[s] = n /\ held'[s]
      /\ ready' = [ready EXCEPT ![n] = @ - 1]
      /\ \A x \in Slot \ {s} : msg'[x] = msg[x] /\ held'[x] = held[x]
  BY <1>1, <1>2 DEF Take, TypeOK, SlotInv, SlotOK
<1>4. /\ pc'[s] \notin {"notify", "ack"}
      /\ \A x \in Slot \ {s} : pc'[x] = pc[x]
  BY <1>1, DeliverKeepsOthers
<1>5. ASSUME NEW m \in Msg
      PROVE  /\ Copies(m)' <= Copies(m) /\ Open(m)' <= Open(m) /\ Due(m)' <= Due(m)
  <2>1. /\ Copies(m)' + ready[m] + Bit(s, Holders(m))
                = Copies(m) + ready'[m] + Bit(s, Holders(m)')
        /\ Open(m)' + ready[m] + Bit(s, Working(m))
               = Open(m) + ready'[m] + Bit(s, Working(m)')
        /\ Due(m)' + ready[m] + Bit(s, Charging(m))
               = Due(m) + ready'[m] + Bit(s, Charging(m)')
    BY <1>1, <1>3, <1>4, CountStep
  <2>2. /\ Bit(s, Holders(m)) = 0 /\ Bit(s, Working(m)) = 0 /\ Bit(s, Charging(m)) = 0
    BY <1>3 DEF Bit, Holders, Working, Charging
  <2>3. /\ Bit(s, Holders(m)') \in {0, 1} /\ Bit(s, Working(m)') \in {0, 1}
        /\ Bit(s, Charging(m)') \in {0, 1}
        /\ m # n => Bit(s, Holders(m)') = 0 /\ Bit(s, Working(m)') = 0 /\ Bit(s, Charging(m)') = 0
    BY <1>3 DEF Bit, Holders, Working, Charging
  <2>4. /\ ready[m] \in Nat /\ ready'[m] \in Nat
        /\ ready'[m] = IF m = n THEN ready[m] - 1 ELSE ready[m]
    BY <1>1, <1>3 DEF TypeOK
  <2>5. /\ Copies(m) \in Nat /\ Open(m) \in Nat /\ Due(m) \in Nat
        /\ Copies(m)' \in Nat /\ Open(m)' \in Nat /\ Due(m)' \in Nat
    BY <1>1, CountType, CountTypeNext
  <2>6. CASE m = n
    BY <2>1, <2>2, <2>3, <2>4, <2>5, <2>6
  <2>7. CASE m # n
    BY <2>1, <2>2, <2>3, <2>4, <2>5, <2>7
  <2> QED BY <2>6, <2>7
<1>6. /\ Chargeable(t) \in Msg /\ charges[t] \in Nat
      /\ Due(Chargeable(t)) \in Nat /\ Due(Chargeable(t))' \in Nat
  BY <1>1, Stages, CountType, CountTypeNext, PipelineAssumption DEF TypeOK
<1> QED BY <1>1, <1>2, <1>5, <1>6, NoGrowth

\* A message is the one its queue has about its payment.
LEMMA StageOfMsg ==
    ASSUME NEW m \in Msg, NEW t \in ValidTxn, m.txn = t
    PROVE  /\ m.queue = "validation" /\ m.retry = 0 => m = Fresh(t)
           /\ m.queue = "fraud_check" => m = Screenable(t)
           /\ m.queue = "processing" => m = Chargeable(t)
           /\ m.queue = "settlement" => m \notin {Fresh(t), Screenable(t), Chargeable(t)}
BY DEF Msg, Worker, Fresh, Screenable, Chargeable

LEMMA StagesDiffer ==
    ASSUME NEW t \in ValidTxn
    PROVE  /\ Fresh(t) # Screenable(t) /\ Fresh(t) # Chargeable(t)
           /\ Screenable(t) # Chargeable(t)
           /\ \A m \in {Fresh(t), Screenable(t), Chargeable(t)} : m.txn = t
BY DEF Fresh, Screenable, Chargeable

LEMMA ReplySpends ==
    ASSUME InductiveInv, TypeOK', NEW r \in Replica, RedisReply(r), NEW t \in ValidTxn
    PROVE  Spends(t)
<1>1. TypeOK /\ ConnInv /\ SlotInv
  BY DEF InductiveInv
<1>2. conn[r] # <<>>
  BY DEF RedisReply, StoreReply, FraudLookupReply, FraudCacheReply, Outstanding
<1>3. PICK c \in Cmd : c = Head(conn[r])
  BY <1>1, <1>2, HeadIsOnly
<1>4. UNCHANGED <<ready, msg, held, charges>>
  BY DEF RedisReply, StoreReply, FraudLookupReply, FraudCacheReply, ledger
<1>5. CASE StoreReply(r)
  <2>1. c.op = "set" /\ c.by \in Slot \cup {None}
        /\ pc' = IF c.by = None THEN pc
                 ELSE [pc EXCEPT ![c.by] = AfterStore(msg[c.by].queue, verdict[c.by])]
    BY <1>3, <1>5 DEF StoreReply, Outstanding, Cmd
  <2>2. CASE c.by = None
    BY <1>1, <1>4, <2>1, <2>2, CountsSame
  <2>3. CASE c.by # None
    <3>1. c.by \in Slot /\ pc[c.by] = "store"
      BY <1>1, <1>2, <1>3, <2>1, <2>3, HeadIsOnly DEF CmdAwaited, Waiting
    <3>2. msg[c.by].queue \in Worker /\ verdict[c.by] \in Verdict
      BY <1>1, <3>1, WorkerOfMsg DEF SlotInv, SlotOK, DecidedPC
    <3>3. pc'[c.by] = AfterStore(msg[c.by].queue, verdict[c.by])
          /\ \A x \in Slot \ {c.by} : pc'[x] = pc[x]
      BY <1>1, <2>1, <2>3, <3>1 DEF TypeOK
    <3>4. pc'[c.by] \in {"publish", "notify", "ack"}
      BY <3>2, <3>3, AfterStorePC
    <3> QED BY <1>1, <1>4, <3>1, <3>3, <3>4, HandlerCounts DEF PassedPC
  <2> QED BY <2>2, <2>3
<1>6. CASE FraudLookupReply(r) \/ FraudCacheReply(r)
  <2>1. CASE c.by = None
    <3>1. UNCHANGED pc
      BY <1>1, <1>3, <1>6, <2>1, LookupSplit
    <3> QED BY <1>1, <1>4, <3>1, CountsSame
  <2>2. CASE c.by # None
    <3>1. /\ c.by \in Slot /\ pc[c.by] \in {"fraudGet", "fraudCache"}
          /\ \/ \E v, q : Decide(c.by, msg[c.by], v, q)
             \/ pc' = [pc EXCEPT ![c.by] = "fraudCall"] /\ UNCHANGED verdict
      BY <1>1, <1>3, <1>6, <2>2, LookupSplit
    <3>2. msg[c.by].queue = "fraud_check"
      BY <1>1, <3>1 DEF SlotInv, SlotOK, FraudPC
    <3>3. \A x \in Slot \ {c.by} : pc'[x] = pc[x]
      BY <1>1, <3>1, LookupKeeps
    <3> QED BY <1>1, <1>4, <3>1, <3>2, <3>3, HandlerCounts DEF PassedPC
  <2> QED BY <2>1, <2>2
<1> QED BY <1>5, <1>6 DEF RedisReply

\* The acquirer's grant turns a charge that is due into one that is made.
LEMMA AcquirerSpends ==
    ASSUME InductiveInv, TypeOK', NEW s \in Slot, NEW v \in Verdict, AcquirerAnswers(s, v),
           NEW t \in ValidTxn
    PROVE  Spends(t)
<1>1. TypeOK /\ SlotOK(s) /\ pc[s] = "acquirer"
  BY DEF InductiveInv, SlotInv, AcquirerAnswers
<1>2. /\ UNCHANGED <<ready, msg, held>> /\ Decide(s, msg[s], v, conn[Home[s]])
      /\ charges' = IF v = "accept" THEN [charges EXCEPT ![msg[s].txn] = @ + 1] ELSE charges
  BY DEF AcquirerAnswers
<1>3. msg[s] \in Msg /\ msg[s].queue = "processing"
  BY <1>1 DEF SlotOK
<1>4. pc'[s] = "store" /\ \A x \in Slot \ {s} : pc'[x] = pc[x]
  BY <1>1, <1>2, <1>3 DEF Decide, CanMove, Snapshot, Guarded, TypeOK
<1>5. ASSUME NEW m \in Msg
      PROVE  Copies(m)' <= Copies(m) /\ Open(m)' <= Open(m)
  <2>1. /\ Copies(m)' + ready[m] + Bit(s, Holders(m))
                = Copies(m) + ready'[m] + Bit(s, Holders(m)')
        /\ Open(m)' + ready[m] + Bit(s, Working(m))
               = Open(m) + ready'[m] + Bit(s, Working(m)')
    BY <1>1, <1>2, <1>4, CountStep
  <2>2. /\ Bit(s, Holders(m)) \in Nat /\ Bit(s, Holders(m)') = Bit(s, Holders(m))
        /\ Bit(s, Working(m)) \in Nat /\ Bit(s, Working(m)') = Bit(s, Working(m))
    BY <1>1, <1>2, <1>4 DEF Bit, Holders, Working, PassedPC
  <2>3. /\ Copies(m) \in Nat /\ Open(m) \in Nat /\ ready[m] \in Nat /\ ready'[m] = ready[m]
        /\ Copies(m)' \in Nat /\ Open(m)' \in Nat
    BY <1>1, <1>2, CountType, CountTypeNext DEF TypeOK
  <2> QED BY <2>1, <2>2, <2>3
<1>6. Due(Chargeable(t))' + charges'[t] <= Due(Chargeable(t)) + charges[t]
  <2> DEFINE m == Chargeable(t)
  <2>1. m \in Msg /\ t \in Txn
    BY Stages, PipelineAssumption
  <2>2. Due(m)' + ready[m] + Bit(s, Charging(m)) = Due(m) + ready'[m] + Bit(s, Charging(m)')
    BY <1>1, <1>2, <1>4, <2>1, CountStep
  <2>3. Bit(s, Charging(m)') = 0 /\ Bit(s, Charging(m)) = IF msg[s] = m THEN 1 ELSE 0
    BY <1>1, <1>4 DEF Bit, Charging
  <2>4. charges'[t] \in Nat /\ charges[t] \in Nat
        /\ charges'[t] <= charges[t] + IF msg[s] = m THEN 1 ELSE 0
    <3>1. msg[s].txn = t => msg[s] = m
      BY <1>3, StageOfMsg
    <3> QED BY <1>1, <1>2, <1>3, <2>1, <3>1, WorkerOfMsg DEF TypeOK
  <2>5. /\ Due(m) \in Nat /\ ready[m] \in Nat /\ ready'[m] = ready[m] /\ Due(m)' \in Nat
    BY <1>1, <1>2, <2>1, CountType, CountTypeNext DEF TypeOK
  <2> HIDE DEF m
  <2>6. Due(m)' + charges'[t] <= Due(m) + charges[t]
    <3>1. CASE msg[s] = m
      BY <2>2, <2>3, <2>4, <2>5, <3>1
    <3>2. CASE msg[s] # m
      BY <2>2, <2>3, <2>4, <2>5, <3>2
    <3> QED BY <3>1, <3>2
  <2> QED BY <2>6 DEF m
<1> QED BY <1>1, <1>5, <1>6, NoGrowth

LEMMA AnswerSpends ==
    ASSUME InductiveInv, TypeOK', NEW s \in Slot, NEW t \in ValidTxn,
           (\E v \in Verdict : FraudServiceAnswers(s, v)) \/ SettlementAnswers(s) \/ Notify(s)
    PROVE  Spends(t)
<1>1. TypeOK /\ SlotOK(s)
  BY DEF InductiveInv, SlotInv
<1>2. UNCHANGED <<ready, msg, held, charges>>
  BY DEF FraudServiceAnswers, SettlementAnswers, Notify, ledger
<1>3. \A x \in Slot \ {s} : pc'[x] = pc[x]
  BY <1>1, DecideKeeps DEF FraudServiceAnswers, SettlementAnswers, Notify, TypeOK
<1>4. \/ pc[s] = "fraudCall" /\ msg[s].queue = "fraud_check"
      \/ pc[s] = "settle" /\ msg[s].queue = "settlement"
      \/ pc[s] = "notify" /\ pc'[s] = "ack"
  BY <1>1 DEF FraudServiceAnswers, SettlementAnswers, Notify, SlotOK, FraudPC, TypeOK
<1> QED BY <1>1, <1>2, <1>3, <1>4, HandlerCounts DEF PassedPC

\* What the three stages gain and lose when a handler passes its message on.
LEMMA PassedOn ==
    ASSUME TypeOK, TypeOK', NEW s \in Slot, NEW n \in Msg, NEW o \in Msg,
           held[s], msg[s] = o, pc[s] = "publish", pc'[s] \in PassedPC,
           ready' = [ready EXCEPT ![n] = @ + 1], UNCHANGED <<msg, held>>,
           \A x \in Slot \ {s} : pc'[x] = pc[x], NEW m \in Msg
    PROVE  /\ Copies(m)' = IF m = n THEN Copies(m) + 1 ELSE Copies(m)
           /\ Due(m)' = IF m = n THEN Due(m) + 1 ELSE Due(m)
           /\ m # n /\ m # o => Open(m)' = Open(m)
           /\ m = n /\ m # o => Open(m)' = Open(m) + 1
           /\ m # n /\ m = o => Open(m)' = Open(m) - 1
<1>1. /\ Copies(m)' + ready[m] + Bit(s, Holders(m))
              = Copies(m) + ready'[m] + Bit(s, Holders(m)')
      /\ Open(m)' + ready[m] + Bit(s, Working(m))
             = Open(m) + ready'[m] + Bit(s, Working(m)')
      /\ Due(m)' + ready[m] + Bit(s, Charging(m))
             = Due(m) + ready'[m] + Bit(s, Charging(m)')
  BY CountStep
<1>2. /\ Bit(s, Holders(m)) \in Nat /\ Bit(s, Holders(m)') = Bit(s, Holders(m))
      /\ Bit(s, Working(m)') = 0 /\ Bit(s, Working(m)) = IF m = o THEN 1 ELSE 0
      /\ Bit(s, Charging(m)') = 0 /\ Bit(s, Charging(m)) = 0
  BY DEF Bit, Holders, Working, Charging, PassedPC
<1>3. /\ Copies(m) \in Nat /\ Open(m) \in Nat /\ Due(m) \in Nat
      /\ Copies(m)' \in Nat /\ Open(m)' \in Nat /\ Due(m)' \in Nat
      /\ ready[m] \in Nat /\ ready'[m] = IF m = n THEN ready[m] + 1 ELSE ready[m]
  BY CountType, CountTypeNext DEF TypeOK
<1>4. CASE m = n
  BY <1>1, <1>2, <1>3, <1>4
<1>5. CASE m # n
  BY <1>1, <1>2, <1>3, <1>5
<1> QED BY <1>4, <1>5

\* A message passed on is a message of the next stage, one for one.
LEMMA ForwardSpends ==
    ASSUME InductiveInv, FirstTry, TypeOK', NEW s \in Slot, Forward(s), NEW t \in ValidTxn
    PROVE  Spends(t)
<1> DEFINE o == msg[s]
           n == Successor(msg[s], verdict[s])
<1>1. TypeOK /\ SlotOK(s) /\ pc[s] = "publish"
  BY DEF InductiveInv, SlotInv, Forward
<1>2. /\ o \in Msg /\ verdict[s] \in Verdict /\ ~Terminal(o.queue, verdict[s])
  BY <1>1 DEF SlotOK, DecidedPC
<1>3. /\ UNCHANGED <<charges, msg, held, verdict>> /\ Publish(s)
      /\ pc'[s] \in PassedPC /\ \A x \in Slot \ {s} : pc'[x] = pc[x]
  BY <1>1 DEF Forward, TypeOK, AfterPublish, PassedPC, ledger
<1>4. CASE ~held[s] \/ Buries(o, verdict[s])
  <2>1. ready' = ready
    BY <1>3, <1>4 DEF Publish
  <2> QED BY <1>1, <1>3, <2>1, HandlerCounts DEF PassedPC
<1>5. CASE held[s] /\ ~Buries(o, verdict[s])
  <2>1. n \in Msg /\ n.txn = o.txn /\ ready' = [ready EXCEPT ![n] = @ + 1]
    BY <1>2, <1>3, <1>5, SuccessorType DEF Publish
  <2>2. \A m \in Msg :
          /\ Copies(m)' = IF m = n THEN Copies(m) + 1 ELSE Copies(m)
          /\ Due(m)' = IF m = n THEN Due(m) + 1 ELSE Due(m)
          /\ m # n /\ m # o => Open(m)' = Open(m)
          /\ m = n /\ m # o => Open(m)' = Open(m) + 1
          /\ m # n /\ m = o => Open(m)' = Open(m) - 1
    BY <1>1, <1>2, <1>3, <1>5, <2>1, PassedOn
  <2>3. /\ Fresh(t) \in Msg /\ Screenable(t) \in Msg /\ Chargeable(t) \in Msg /\ t \in Txn
        /\ Fresh(t) # Screenable(t) /\ Fresh(t) # Chargeable(t)
        /\ Screenable(t) # Chargeable(t)
        /\ \A m \in {Fresh(t), Screenable(t), Chargeable(t)} : m.txn = t
    BY Stages, StagesDiffer, PipelineAssumption
  <2>4. /\ charges[t] \in Nat /\ charges'[t] = charges[t]
        /\ \A m \in {Fresh(t), Screenable(t), Chargeable(t)} :
              Copies(m) \in Nat /\ Open(m) \in Nat /\ Due(m) \in Nat
    BY <1>1, <1>3, <2>3, CountType DEF TypeOK
  <2>5. \/ n \notin {Fresh(t), Screenable(t), Chargeable(t)}
        \/ o = Fresh(t) /\ n = Screenable(t)
        \/ o = Screenable(t) /\ n = Chargeable(t)
    <3>1. CASE o.txn # t
      BY <2>1, <2>3, <3>1
    <3>2. CASE o.txn = t /\ o.queue = "validation"
      <4>1. o.retry = 0 /\ verdict[s] = "accept"
        BY <1>1, <3>2 DEF FirstTry, DecidedPC
      <4> QED BY <1>2, <3>2, <4>1, StageOfMsg DEF Successor, Screenable
    <3>3. CASE o.txn = t /\ o.queue = "fraud_check"
      BY <1>2, <3>3, StageOfMsg DEF Successor, Chargeable
    <3>4. CASE o.txn = t /\ o.queue = "processing"
      BY <1>2, <2>1, <3>4, StageOfMsg DEF Successor
    <3>5. o.queue # "settlement"
      BY <1>2 DEF Terminal
    <3> QED BY <1>2, <3>1, <3>2, <3>3, <3>4, <3>5, WorkerOfMsg DEF Worker
  <2> HIDE DEF n, o
  <2>6. CASE n \notin {Fresh(t), Screenable(t), Chargeable(t)}
    <3>1. \A m \in {Fresh(t), Screenable(t), Chargeable(t)} :
             /\ Copies(m)' = Copies(m) /\ Due(m)' = Due(m)
             /\ Open(m)' = Open(m) \/ Open(m)' = Open(m) - 1
      BY <2>2, <2>3, <2>6
    <3> QED BY <2>4, <3>1 DEF Spends, Upstream
  <2>7. CASE o = Fresh(t) /\ n = Screenable(t)
    <3>1. /\ Copies(Fresh(t))' = Copies(Fresh(t))
          /\ Open(Fresh(t))' = Open(Fresh(t)) - 1
          /\ Copies(Screenable(t))' = Copies(Screenable(t)) + 1
          /\ Open(Screenable(t))' = Open(Screenable(t)) + 1
          /\ Copies(Chargeable(t))' = Copies(Chargeable(t))
          /\ Due(Chargeable(t))' = Due(Chargeable(t))
      BY <2>2, <2>3, <2>7
    <3> QED BY <2>4, <3>1 DEF Spends, Upstream
  <2>8. CASE o = Screenable(t) /\ n = Chargeable(t)
    <3>1. /\ Copies(Fresh(t))' = Copies(Fresh(t))
          /\ Open(Fresh(t))' = Open(Fresh(t))
          /\ Copies(Screenable(t))' = Copies(Screenable(t))
          /\ Open(Screenable(t))' = Open(Screenable(t)) - 1
          /\ Copies(Chargeable(t))' = Copies(Chargeable(t)) + 1
          /\ Due(Chargeable(t))' = Due(Chargeable(t)) + 1
      BY <2>2, <2>3, <2>8
    <3> QED BY <2>4, <3>1 DEF Spends, Upstream
  <2> QED BY <2>5, <2>6, <2>7, <2>8
<1> QED BY <1>4, <1>5 DEF Publish

\* A handler that ends drops its message, or puts back the one it holds.
LEMMA EndSpends ==
    ASSUME InductiveInv, TypeOK', NEW s \in Slot, ForwardThrows(s) \/ Ack(s) \/ Nack(s),
           NEW t \in ValidTxn
    PROVE  Spends(t)
<1>1. TypeOK /\ SlotOK(s)
  BY DEF InductiveInv, SlotInv
<1>2. /\ charges' = charges /\ msg'[s] = None /\ ~held'[s] /\ pc'[s] = "idle"
      /\ \A x \in Slot \ {s} : pc'[x] = pc[x] /\ msg'[x] = msg[x] /\ held'[x] = held[x]
  BY <1>1 DEF ForwardThrows, Ack, Nack, Release, TypeOK, ledger
<1>3. /\ ready' = ready
      \/ /\ pc[s] = "nack" /\ held[s] /\ msg[s] \in Msg
         /\ ready' = [ready EXCEPT ![msg[s]] = @ + 1]
  BY <1>1 DEF ForwardThrows, Ack, Nack, SlotOK
<1>4. ASSUME NEW m \in Msg
      PROVE  /\ Copies(m)' <= Copies(m) /\ Open(m)' <= Open(m) /\ Due(m)' <= Due(m)
  <2>1. /\ Copies(m)' + ready[m] + Bit(s, Holders(m))
                = Copies(m) + ready'[m] + Bit(s, Holders(m)')
        /\ Open(m)' + ready[m] + Bit(s, Working(m))
               = Open(m) + ready'[m] + Bit(s, Working(m)')
        /\ Due(m)' + ready[m] + Bit(s, Charging(m))
               = Due(m) + ready'[m] + Bit(s, Charging(m)')
    BY <1>1, <1>2, CountStep
  <2>2. m # None
    BY PipelineAssumption
  <2>3. Bit(s, Holders(m)') = 0 /\ Bit(s, Working(m)') = 0 /\ Bit(s, Charging(m)') = 0
    BY <1>2, <2>2 DEF Bit, Holders, Working, Charging
  <2>4. /\ Bit(s, Holders(m)) \in {0, 1} /\ Bit(s, Working(m)) \in {0, 1}
        /\ Bit(s, Charging(m)) \in {0, 1}
        /\ pc[s] = "nack" /\ held[s] /\ msg[s] = m
             => Bit(s, Holders(m)) = 1 /\ Bit(s, Working(m)) = 1 /\ Bit(s, Charging(m)) = 1
    BY DEF Bit, Holders, Working, Charging, PassedPC
  <2>5. /\ Copies(m) \in Nat /\ Open(m) \in Nat /\ Due(m) \in Nat
        /\ Copies(m)' \in Nat /\ Open(m)' \in Nat /\ Due(m)' \in Nat
        /\ ready[m] \in Nat /\ ready'[m] \in Nat
    BY <1>1, CountType, CountTypeNext DEF TypeOK
  <2>6. CASE ready'[m] = ready[m]
    BY <2>1, <2>3, <2>4, <2>5, <2>6
  <2>7. CASE ready'[m] # ready[m]
    <3>1. pc[s] = "nack" /\ held[s] /\ msg[s] = m /\ ready'[m] = ready[m] + 1
      BY <1>1, <1>3, <2>7 DEF TypeOK
    <3> QED BY <2>1, <2>3, <2>4, <2>5, <3>1
  <2> QED BY <2>6, <2>7
<1>5. /\ Chargeable(t) \in Msg /\ charges[t] \in Nat
      /\ Due(Chargeable(t)) \in Nat /\ Due(Chargeable(t))' \in Nat
  BY <1>1, Stages, CountType, CountTypeNext, PipelineAssumption DEF TypeOK
<1> QED BY <1>1, <1>2, <1>4, <1>5, NoGrowth

-----------------------------------------------------------------------------
(* Faults *)

\* What a lost channel held goes back to its queue: no copy appears, and what
\* had been passed on or charged is to be done again.
LEMMA RequeueDoubles ==
    ASSUME InductiveInv, TypeOK', NEW r \in Replica, Crash(r) \/ Disconnect(r), NEW t \in ValidTxn
    PROVE  Doubles(t)
<1>1. TypeOK /\ SlotInv
  BY DEF InductiveInv
<1>2. charges' = charges /\ ready' = Requeued(r)
  BY DEF Crash, Disconnect, ledger
<1>3. \A x \in Slot : /\ Home[x] = r => ~held'[x]
                      /\ Home[x] # r => /\ held'[x] = held[x] /\ msg'[x] = msg[x]
                                        /\ pc'[x] = pc[x]
  <2>1. held' = OnReplica(r, held, FALSE)
    BY DEF Crash, Disconnect
  <2>2. \A x \in Slot : Home[x] # r => msg'[x] = msg[x] /\ pc'[x] = pc[x]
    <3>1. CASE Crash(r)
      <4>1. pc' = OnReplica(r, pc, "idle") /\ msg' = OnReplica(r, msg, None)
        BY <3>1 DEF Crash
      <4> QED BY <4>1, OtherReplicas, ZenonT(30)
    <3>2. CASE Disconnect(r)
      BY <3>2 DEF Disconnect
    <3> QED BY <3>1, <3>2
  <2> QED BY <2>1, <2>2, Zenon DEF OnReplica
<1>4. \A x \in Slot : Home[x] = r => \/ msg'[x] = None
                                     \/ msg'[x] = msg[x] /\ pc'[x] = pc[x]
  <2>1. CASE Crash(r)
    BY <2>1, Zenon DEF Crash, OnReplica
  <2>2. CASE Disconnect(r)
    BY <2>2 DEF Disconnect
  <2> QED BY <2>1, <2>2
<1>5. ASSUME NEW m \in Msg
      PROVE  /\ Copies(m)' <= Copies(m)
             /\ Open(m)' <= Open(m) + Copies(m)
             /\ Due(m)' <= Due(m) + Copies(m)
  <2> DEFINE U == Unacked(r, m)
  <2>1. m # None
    BY PipelineAssumption
  <2>2. /\ U \in SUBSET Holders(m) /\ Holders(m)' = Holders(m) \ U
        /\ Working(m)' \in SUBSET (Holders(m) \ U)
        /\ Charging(m)' \in SUBSET Charging(m)
    <3>1. U \in SUBSET Holders(m)
      BY DEF Unacked, Holders
    <3>2. \A x \in Slot : x \in Holders(m)' <=> x \in Holders(m) /\ x \notin U
      BY <1>3, <2>1 DEF Unacked, Holders
    <3>3. Holders(m)' \in SUBSET Slot /\ Holders(m) \in SUBSET Slot
      BY DEF Holders
    <3>4. Holders(m)' = Holders(m) \ U
      BY <3>2, <3>3
    <3>5. Working(m)' \in SUBSET Holders(m)'
      BY DEF Working
    <3>6. Charging(m)' \in SUBSET Charging(m)
      BY <1>3, <1>4, <2>1 DEF Charging
    <3> QED BY <3>1, <3>4, <3>5, <3>6
  <2>3. IsFiniteSet(Holders(m)) /\ IsFiniteSet(Charging(m)) /\ ready[m] \in Nat
    BY <1>1, CountType DEF TypeOK
  <2>4. /\ IsFiniteSet(U) /\ IsFiniteSet(Holders(m) \ U) /\ IsFiniteSet(Working(m)')
        /\ Cardinality(U) \in Nat /\ Cardinality(Holders(m) \ U) \in Nat
        /\ Cardinality(Holders(m)) \in Nat
        /\ Cardinality(U) <= Cardinality(Holders(m))
        /\ Cardinality(Working(m)') <= Cardinality(Holders(m) \ U)
        /\ Cardinality(Working(m)') \in Nat
        /\ Cardinality(Charging(m)') <= Cardinality(Charging(m))
        /\ Cardinality(Charging(m)') \in Nat /\ Cardinality(Charging(m)) \in Nat
    BY <2>2, <2>3, FS_Subset, FS_CardinalityType
  <2>5. Cardinality(Holders(m)) = Cardinality(U) + Cardinality(Holders(m) \ U)
    <3>1. U \cup (Holders(m) \ U) = Holders(m) /\ U \cap (Holders(m) \ U) = {}
      BY <2>2
    <3>2. Cardinality(U \cup (Holders(m) \ U)) = Cardinality(U)
              + Cardinality(Holders(m) \ U) - Cardinality(U \cap (Holders(m) \ U))
      BY <2>4, FS_Union
    <3>3. Cardinality(U \cap (Holders(m) \ U)) = 0
      BY <3>1, FS_EmptySet
    <3> HIDE DEF U
    <3> QED BY <2>4, <3>1, <3>2, <3>3
  <2>6. ready'[m] = ready[m] + Cardinality(U)
    BY <1>2 DEF Requeued
  <2>7. /\ Copies(m) = ready[m] + Cardinality(Holders(m))
        /\ Copies(m)' = ready'[m] + Cardinality(Holders(m) \ U)
        /\ Open(m)' = ready'[m] + Cardinality(Working(m)')
        /\ Due(m) = ready[m] + Cardinality(Charging(m))
        /\ Due(m)' = ready'[m] + Cardinality(Charging(m)')
    BY <2>2 DEF Copies, Open, Due
  <2>8. Open(m) \in Nat
    BY <1>1, CountType
  <2> HIDE DEF U
  <2> QED BY <2>3, <2>4, <2>5, <2>6, <2>7, <2>8
<1> QED BY <1>2, <1>5, Stages DEF Doubles

\* Handlers whose commands fail will return the messages they hold, at most.
LEMMA FailDoubles ==
    ASSUME InductiveInv, TypeOK', NEW r \in Replica, RedisFails(r), NEW t \in ValidTxn
    PROVE  Doubles(t)
<1>1. TypeOK /\ ConnInv /\ SlotInv
  BY DEF InductiveInv
<1>2. /\ UNCHANGED <<ready, msg, held, charges>>
      /\ \A x \in Slot : \/ pc'[x] = pc[x]
                         \/ pc'[x] = "nack" /\ pc[x] \notin {"notify", "ack"}
  BY <1>1, FailSplit DEF ledger
<1>6. ASSUME NEW m \in Msg
      PROVE  /\ Copies(m)' <= Copies(m)
             /\ Open(m)' <= Open(m) + Copies(m)
             /\ Due(m)' <= Due(m) + Copies(m)
  <2>1. Holders(m)' = Holders(m)
    BY <1>2 DEF Holders
  <2>2. Working(m)' = Working(m)
    BY <1>2, <2>1 DEF Working, Holders, PassedPC
  <2>3. Charging(m)' \in SUBSET (Charging(m) \cup Holders(m))
    BY <1>2 DEF Charging, Holders
  <2>4. /\ IsFiniteSet(Holders(m)) /\ IsFiniteSet(Charging(m)) /\ ready[m] \in Nat
        /\ Copies(m) \in Nat /\ Open(m) \in Nat
        /\ Cardinality(Holders(m)) \in Nat /\ Cardinality(Charging(m)) \in Nat
    BY <1>1, CountType DEF TypeOK
  <2>5. /\ IsFiniteSet(Charging(m) \cup Holders(m))
        /\ Cardinality(Charging(m) \cup Holders(m))
              <= Cardinality(Charging(m)) + Cardinality(Holders(m))
        /\ Cardinality(Charging(m) \cup Holders(m)) \in Nat
    <3>1. /\ IsFiniteSet(Charging(m) \cup Holders(m))
          /\ IsFiniteSet(Charging(m) \cap Holders(m))
          /\ Cardinality(Charging(m) \cup Holders(m))
                = Cardinality(Charging(m)) + Cardinality(Holders(m))
                     - Cardinality(Charging(m) \cap Holders(m))
      BY <2>4, FS_Union, FS_Subset
    <3>2. Cardinality(Charging(m) \cap Holders(m)) \in Nat
          /\ Cardinality(Charging(m) \cup Holders(m)) \in Nat
      BY <3>1, FS_CardinalityType
    <3> QED BY <2>4, <3>1, <3>2
  <2>6. /\ Cardinality(Charging(m)') <= Cardinality(Charging(m) \cup Holders(m))
        /\ Cardinality(Charging(m)') \in Nat
    BY <2>3, <2>5, FS_Subset, FS_CardinalityType
  <2>7. /\ Copies(m)' = Copies(m) /\ Open(m)' = Open(m)
        /\ Copies(m) = ready[m] + Cardinality(Holders(m))
        /\ Due(m) = ready[m] + Cardinality(Charging(m))
        /\ Due(m)' = ready[m] + Cardinality(Charging(m)')
    BY <1>2, <2>1, <2>2 DEF Copies, Open, Due
  <2> QED BY <2>4, <2>5, <2>6, <2>7
<1> QED BY <1>2, <1>6, Stages DEF Doubles

\* A command sent again and an expiry leave the deliveries alone.
LEMMA SilentDoubles ==
    ASSUME TypeOK, TypeOK', UNCHANGED <<ready, pc, msg, held, charges>>, NEW t \in ValidTxn
    PROVE  Doubles(t)
<1>1. \A m \in Msg : Copies(m)' = Copies(m) /\ Open(m)' = Open(m) /\ Due(m)' = Due(m)
  BY DEF Copies, Open, Due, Holders, Working, Charging
<1>2. \A m \in Msg : Copies(m) \in Nat /\ Open(m) \in Nat /\ Due(m) \in Nat
  BY CountType
<1> QED BY <1>1, <1>2, Stages DEF Doubles

-----------------------------------------------------------------------------
(* A valid payment is validated once per delivery *)

LEMMA FirstTryStays ==
    ASSUME InductiveInv, TypeOK', FirstTry, [Next]_vars
    PROVE  FirstTry'
<1> DEFINE QueueFirst == \A m \in Msg :
                ready[m] > 0 /\ m.queue = "validation" /\ m.txn \in ValidTxn => m.retry = 0
           HandlerFirst(x) ==
                pc[x] # "idle" /\ msg[x].queue = "validation" /\ msg[x].txn \in ValidTxn =>
                    /\ msg[x].retry = 0
                    /\ pc[x] \in DecidedPC => verdict[x] = "accept"
<1>1. TypeOK /\ SlotInv /\ ConnInv /\ QueueFirst /\ \A x \in Slot : HandlerFirst(x)
  BY DEF InductiveInv, FirstTry
<1>2. SUFFICES QueueFirst' /\ \A x \in Slot : HandlerFirst(x)'
  BY DEF FirstTry
<1>3. ASSUME NEW s \in Slot, NEW m \in Msg, Deliver(s, m)
      PROVE  QueueFirst' /\ \A x \in Slot : HandlerFirst(x)'
  <2>1. Take(s, m)
    BY <1>1, <1>3, DeliverKeepsOthers
  <2>2. /\ ready[m] > 0 /\ msg'[s] = m
        /\ ready' = [ready EXCEPT ![m] = @ - 1]
        /\ \A x \in Slot \ {s} : msg'[x] = msg[x]
    BY <1>1, <2>1 DEF Take, TypeOK
  <2>3. \A x \in Slot \ {s} : pc'[x] = pc[x] /\ verdict'[x] = verdict[x]
    BY <1>1, <1>3, DeliverKeepsOthers
  <2>4. m.queue = "validation" => verdict'[s] = Validated(m.txn)
    BY <1>1, <1>3 DEF Deliver, DeliverValidation, DeliverFraudCheck, DeliverProcessing,
                      DeliverSettlement, Decide, TypeOK
  <2>5. QueueFirst'
    <3>1. \A n \in Msg : ready'[n] > 0 => ready[n] > 0
      BY <1>1, <2>2 DEF TypeOK
    <3> QED BY <1>1, <3>1
  <2>6. HandlerFirst(s)'
    BY <1>1, <2>2, <2>4 DEF Validated
  <2> QED BY <1>1, <2>2, <2>3, <2>5, <2>6
<1>4. ASSUME NEW s \in Slot, HandlerStep(s)
      PROVE  QueueFirst' /\ \A x \in Slot : HandlerFirst(x)'
  <2>1. \A x \in Slot \ {s} : pc'[x] = pc[x] /\ verdict'[x] = verdict[x] /\ msg'[x] = msg[x]
    BY <1>1, <1>4, DecideKeeps
       DEF HandlerStep, FraudServiceAnswers, AcquirerAnswers, SettlementAnswers, Forward,
           ForwardThrows, Notify, Ack, Nack, Release, TypeOK
  <2>2. CASE \/ \E v \in Verdict : FraudServiceAnswers(s, v) \/ AcquirerAnswers(s, v)
             \/ SettlementAnswers(s)
    <3>1. UNCHANGED <<ready, msg>>
      BY <2>2 DEF FraudServiceAnswers, AcquirerAnswers, SettlementAnswers
    <3>2. msg[s].queue # "validation"
      BY <1>1, <2>2 DEF FraudServiceAnswers, AcquirerAnswers, SettlementAnswers,
                        SlotInv, SlotOK, FraudPC
    <3> QED BY <1>1, <2>1, <3>1, <3>2
  <2>3. CASE Forward(s)
    <3>1. /\ pc[s] = "publish" /\ msg[s] \in Msg /\ verdict[s] \in Verdict
          /\ ~Terminal(msg[s].queue, verdict[s]) /\ UNCHANGED <<msg, verdict>>
      BY <1>1, <2>3 DEF Forward, SlotInv, SlotOK, DecidedPC
    <3>2. HandlerFirst(s)'
      BY <1>1, <3>1 DEF DecidedPC
    <3>3. CASE ready' = ready
      BY <1>1, <2>1, <3>2, <3>3
    <3>4. CASE ready' # ready
      <4>1. /\ ~Buries(msg[s], verdict[s])
            /\ ready' = [ready EXCEPT ![Successor(msg[s], verdict[s])] = @ + 1]
        BY <2>3, <3>4 DEF Forward, Publish
      <4>2. Successor(msg[s], verdict[s]) \in Msg
            /\ Successor(msg[s], verdict[s]).txn = msg[s].txn
        BY <3>1, <4>1, SuccessorType
      <4>3. ~(Successor(msg[s], verdict[s]).queue = "validation" /\ msg[s].txn \in ValidTxn)
        <5>1. CASE msg[s].queue = "validation" /\ msg[s].txn \in ValidTxn
          <6>1. verdict[s] = "accept"
            BY <1>1, <3>1, <5>1 DEF DecidedPC
          <6> QED BY <5>1, <6>1 DEF Successor
        <5>2. CASE msg[s].queue # "validation"
          BY <3>1, <5>2, WorkerOfMsg DEF Successor, Worker, Terminal
        <5> QED BY <5>1, <5>2
      <4>4. \A n \in Msg : ready'[n] > 0 => ready[n] > 0 \/ n = Successor(msg[s], verdict[s])
        BY <1>1, <4>1, <4>2 DEF TypeOK
      <4> QED BY <1>1, <2>1, <3>2, <4>2, <4>3, <4>4
    <3> QED BY <3>3, <3>4
  <2>4. CASE Notify(s)
    <3>1. pc[s] = "notify" /\ UNCHANGED <<ready, msg, verdict>>
      BY <2>4 DEF Notify
    <3> QED BY <1>1, <2>1, <3>1 DEF DecidedPC
  <2>5. CASE ForwardThrows(s) \/ Ack(s) \/ Nack(s)
    <3>1. pc'[s] = "idle"
      BY <1>1, <2>5 DEF ForwardThrows, Ack, Nack, Release, TypeOK
    <3>2. ready' = ready
          \/ /\ pc[s] = "nack" /\ msg[s] \in Msg
             /\ ready' = [ready EXCEPT ![msg[s]] = @ + 1]
      BY <1>1, <2>5 DEF ForwardThrows, Ack, Nack, SlotInv, SlotOK
    <3>3. \A n \in Msg : ready'[n] > 0 => ready[n] > 0 \/ (n = msg[s] /\ pc[s] = "nack")
      BY <1>1, <3>2 DEF TypeOK
    <3> QED BY <1>1, <2>1, <3>1, <3>3
  <2> QED BY <1>4, <2>2, <2>3, <2>4, <2>5 DEF HandlerStep
<1>5. ASSUME NEW r \in Replica, RedisReply(r)
      PROVE  QueueFirst' /\ \A x \in Slot : HandlerFirst(x)'
  <2>1. conn[r] # <<>> /\ UNCHANGED <<ready, msg>>
    BY <1>5 DEF RedisReply, StoreReply, FraudLookupReply, FraudCacheReply, Outstanding
  <2>2. PICK c \in Cmd : c = Head(conn[r])
    BY <1>1, <2>1, HeadIsOnly
  <2>3. /\ c.by \in Slot \cup {None} /\ c.op \in {"set", "get", "cache"}
        /\ c.by # None => c.by \in Slot /\ pc[c.by] = Waiting(c.op)
    BY <1>1, <2>1, <2>2, HeadIsOnly DEF CmdAwaited, Cmd
  <2>4. CASE StoreReply(r)
    <3>1. /\ c.op = "set" /\ verdict' = verdict
          /\ \A x \in Slot : pc'[x] = pc[x] \/ pc[x] = "store"
      BY <1>1, <2>2, <2>3, <2>4 DEF StoreReply, Outstanding, TypeOK, Waiting
    <3> QED BY <1>1, <2>1, <3>1 DEF DecidedPC
  <2>5. CASE FraudLookupReply(r) \/ FraudCacheReply(r)
    <3>1. CASE c.by = None
      <4>1. UNCHANGED <<pc, verdict>>
        BY <1>1, <2>2, <2>5, <3>1, LookupSplit
      <4> QED BY <1>1, <2>1, <4>1
    <3>2. CASE c.by # None
      <4>1. /\ c.by \in Slot /\ pc[c.by] \in FraudPC
            /\ \/ \E v, q : Decide(c.by, msg[c.by], v, q)
               \/ pc' = [pc EXCEPT ![c.by] = "fraudCall"] /\ UNCHANGED verdict
        BY <1>1, <2>2, <2>5, <3>2, LookupSplit DEF FraudPC
      <4>2. msg[c.by].queue = "fraud_check"
        BY <1>1, <4>1 DEF SlotInv, SlotOK
      <4>3. \A x \in Slot \ {c.by} : pc'[x] = pc[x] /\ verdict'[x] = verdict[x]
        BY <1>1, <4>1, LookupKeeps
      <4>4. pc[c.by] # "idle"
        BY <4>1 DEF FraudPC
      <4> QED BY <1>1, <2>1, <4>1, <4>2, <4>3, <4>4
    <3> QED BY <3>1, <3>2
  <2> QED BY <1>5, <2>4, <2>5 DEF RedisReply
<1>12. ASSUME NEW r \in Replica, RedisFails(r)
       PROVE  QueueFirst' /\ \A x \in Slot : HandlerFirst(x)'
  <2>1. /\ UNCHANGED <<ready, msg, verdict>>
        /\ \A x \in Slot : pc'[x] = pc[x] \/ (pc'[x] = "nack" /\ pc[x] # "idle")
    BY <1>1, <1>12, FailSplit
  <2> QED BY <1>1, <2>1 DEF DecidedPC
<1>6. ASSUME NEW r \in Replica, Crash(r) \/ Disconnect(r)
      PROVE  QueueFirst' /\ \A x \in Slot : HandlerFirst(x)'
  <2>1. ready' = Requeued(r)
    BY <1>6 DEF Crash, Disconnect
  <2>2. \A x \in Slot : \/ pc'[x] = "idle"
                        \/ pc'[x] = pc[x] /\ msg'[x] = msg[x] /\ verdict'[x] = verdict[x]
    <3>1. CASE Crash(r)
      BY <3>1, Zenon DEF Crash, OnReplica
    <3>2. CASE Disconnect(r)
      BY <3>2 DEF Disconnect
    <3> QED BY <1>6, <3>1, <3>2
  <2>3. ASSUME NEW m \in Msg, ready'[m] > 0
        PROVE  ready[m] > 0 \/ \E x \in Slot : pc[x] # "idle" /\ msg[x] = m
    <3>1. CASE Unacked(r, m) = {}
      <4>1. ready'[m] = ready[m] + Cardinality(Unacked(r, m)) /\ ready[m] \in Nat
        BY <1>1, <2>1 DEF Requeued, TypeOK
      <4>2. Cardinality(Unacked(r, m)) = 0
        BY <3>1, FS_EmptySet
      <4> QED BY <2>3, <4>1, <4>2
    <3>2. CASE Unacked(r, m) # {}
      BY <1>1, <3>2 DEF Unacked, SlotInv, SlotOK
    <3> QED BY <3>1, <3>2
  <2> QED BY <1>1, <2>2, <2>3
<1>7. CASE UNCHANGED <<ready, pc, msg, verdict>>
  BY <1>1, <1>7
<1>8. ASSUME NEW s \in Slot, NEW m \in Msg, Throttle(s, m)
      PROVE  UNCHANGED <<ready, pc, msg, verdict>>
  BY <1>8 DEF Throttle, handlers
<1>9. ASSUME NEW r \in Replica, Restart(r) \/ WindowElapses(r) \/ RedisResends(r)
      PROVE  UNCHANGED <<ready, pc, msg, verdict>>
  BY <1>9 DEF Restart, WindowElapses, RedisResends, handlers
<1>10. ASSUME NEW t \in Txn, FraudResultExpires(t)
       PROVE  UNCHANGED <<ready, pc, msg, verdict>>
  BY <1>10 DEF FraudResultExpires, handlers
<1>11. CASE UNCHANGED vars
  BY <1>7, <1>11 DEF vars, handlers
<1> HIDE DEF QueueFirst, HandlerFirst
<1> QED BY <1>3, <1>4, <1>5, <1>6, <1>7, <1>8, <1>9, <1>10, <1>11, <1>12 DEF Next, RedisFails

\* Every step keeps the bounds.
LEMMA BudgetStays ==
    ASSUME InductiveInv, InductiveInv', BudgetInv, [Next]_vars
    PROVE  BudgetInv'
<1>1. TypeOK /\ TypeOK' /\ FirstTry
  BY DEF InductiveInv, BudgetInv
<1>2. FirstTry'
  BY <1>1, FirstTryStays
<1>3. SUFFICES ASSUME NEW t \in ValidTxn
               PROVE  Within(t, faults)'
  BY <1>2 DEF BudgetInv
<1>4. Within(t, faults)
  BY DEF BudgetInv
<1>5. CASE Spends(t) /\ faults' = faults
  BY <1>1, <1>4, <1>5, SpendKeeps
<1>6. CASE Doubles(t) /\ faults' = faults + 1
  BY <1>1, <1>4, <1>6, FaultKeeps
<1>7. ASSUME NEW s \in Slot, NEW m \in Msg, Deliver(s, m)
      PROVE  Spends(t) /\ faults' = faults
  BY <1>1, <1>7, DeliverSpends, DeliverKeepsOthers
<1>8. ASSUME NEW s \in Slot, NEW m \in Msg, Throttle(s, m)
      PROVE  Spends(t) /\ faults' = faults
  BY <1>1, <1>8, CountsSame DEF Throttle, handlers, ledger
<1>9. ASSUME NEW s \in Slot, HandlerStep(s)
      PROVE  Spends(t) /\ faults' = faults
  <2>1. faults' = faults
    BY <1>9 DEF HandlerStep, FraudServiceAnswers, AcquirerAnswers, SettlementAnswers,
                Forward, ForwardThrows, Notify, Ack, Nack
  <2>2. Spends(t)
    BY <1>1, <1>9, AnswerSpends, AcquirerSpends, ForwardSpends, EndSpends DEF HandlerStep
  <2> QED BY <2>1, <2>2
<1>10. ASSUME NEW r \in Replica, RedisReply(r)
       PROVE  Spends(t) /\ faults' = faults
  BY <1>1, <1>10, ReplySpends DEF RedisReply, StoreReply, FraudLookupReply, FraudCacheReply
<1>11. ASSUME NEW r \in Replica, Restart(r) \/ WindowElapses(r)
       PROVE  Spends(t) /\ faults' = faults
  BY <1>1, <1>11, CountsSame DEF Restart, WindowElapses, handlers, ledger
<1>12. ASSUME NEW r \in Replica, Crash(r) \/ Disconnect(r) \/ RedisFails(r)
       PROVE  Doubles(t) /\ faults' = faults + 1
  BY <1>1, <1>12, RequeueDoubles, FailDoubles
     DEF Crash, Disconnect, RedisFails, RedisRefuses, RedisRejects, Fault
<1>13. ASSUME NEW r \in Replica, RedisResends(r)
       PROVE  Doubles(t) /\ faults' = faults + 1
  BY <1>1, <1>13, SilentDoubles DEF RedisResends, handlers, ledger, Fault
<1>14. ASSUME NEW u \in Txn, FraudResultExpires(u)
       PROVE  Doubles(t) /\ faults' = faults + 1
  BY <1>1, <1>14, SilentDoubles DEF FraudResultExpires, handlers, ledger, Fault
<1>15. CASE UNCHANGED vars
  BY <1>1, <1>5, <1>15, CountsSame DEF vars, handlers, ledger
<1> QED BY <1>5, <1>6, <1>7, <1>8, <1>9, <1>10, <1>11, <1>12, <1>13, <1>14, <1>15 DEF Next, RedisFails

LEMMA BudgetInit == ASSUME Init PROVE BudgetInv
<1>1. FirstTry
  BY DEF Init, FirstTry
<1>2. ASSUME NEW t \in ValidTxn
      PROVE  Within(t, faults)
  <2>1. \A m \in Msg : Holders(m) = {} /\ Working(m) = {} /\ Charging(m) = {}
    BY DEF Init, Holders, Working, Charging
  <2>2. Fresh(t) \in Msg /\ Screenable(t) \in Msg /\ Chargeable(t) \in Msg /\ t \in Txn
    BY Stages, PipelineAssumption
  <2>3. /\ ready[Fresh(t)] = 1 /\ ready[Screenable(t)] = 0 /\ ready[Chargeable(t)] = 0
        /\ charges[t] = 0 /\ faults = 0
    BY <2>2 DEF Init, Fresh, Screenable, Chargeable
  <2>4. /\ Copies(Fresh(t)) = 1 /\ Open(Fresh(t)) = 1
        /\ Copies(Screenable(t)) = 0 /\ Open(Screenable(t)) = 0
        /\ Copies(Chargeable(t)) = 0 /\ Due(Chargeable(t)) = 0
    BY <2>1, <2>2, <2>3, FS_EmptySet DEF Copies, Open, Due
  <2> QED BY <2>3, <2>4 DEF Within, Upstream
<1> QED BY <1>1, <1>2 DEF BudgetInv

\* No number of copies, interleavings and redeliveries makes the acquirer grant
\* a payment more authorisations than (f + 1)(f + 2)(f + 3) / 6 after f faults;
\* so one at most without a fault, and none for a payment that is not valid.
THEOREM ChargesAreBounded == Spec => []ChargesBounded
<1>1. Init => BudgetInv
  BY BudgetInit
<1>2. InductiveInv /\ InductiveInv' /\ BudgetInv /\ [Next]_vars => BudgetInv'
  BY BudgetStays
<1>3. InductiveInv /\ BudgetInv => ChargesBounded
  <2> SUFFICES ASSUME InductiveInv, BudgetInv, NEW t \in Txn
               PROVE  6 * charges[t] <= (faults + 1) * (faults + 2) * (faults + 3)
    BY DEF ChargesBounded
  <2>1. TypeOK /\ charges[t] \in Nat /\ faults \in Nat
    BY PipelineAssumption DEF InductiveInv, TypeOK
  <2>2. TypeOK /\ charges[t] \in Nat /\ faults \in Nat
        /\ (faults + 1) * (faults + 2) * (faults + 3) \in Nat
    BY <2>1
  <2>3. CASE t \in ValidTxn
    <3>1. 6 * (Upstream(t) + Due(Chargeable(t)) + charges[t])
              <= (faults + 1) * (faults + 2) * (faults + 3)
      BY <2>3 DEF BudgetInv, Within
    <3>2. Upstream(t) \in Nat /\ Due(Chargeable(t)) \in Nat
      BY <2>2, <2>3, Stages, CountType DEF Upstream
    <3> QED BY <2>2, <3>1, <3>2
  <2>4. CASE t \notin ValidTxn
    <3>1. charges[t] = 0
      BY <2>2, <2>4 DEF InductiveInv, LedgerInv, MilestonesInOrder,
                            Lifecycle!MilestonesInOrder, Lifecycle!Charged
    <3> QED BY <2>2, <3>1
  <2> QED BY <2>3, <2>4
<1> QED BY <1>1, <1>2, <1>3, Invariance, PTL DEF Spec

-----------------------------------------------------------------------------
(* What Redis holds at rest, on one replica without faults *)

\* What stands under t's key once the commands in q have been applied to st.
SetsKey(c, t) == c.op = "set" /\ c.txn = t

Leaves(q, st, t, x) ==
    \/ st = x /\ \A i \in 1 .. Len(q) : ~SetsKey(q[i], t)
    \/ \E i \in 1 .. Len(q) :
           /\ SetsKey(q[i], t)
           /\ q[i].val = x
           /\ \A j \in i + 1 .. Len(q) : ~SetsKey(q[j], t)

\* What will be stored of t at rest, if nothing more is issued.
WillBe(r, t, x) == Leaves(conn[r], store[t], t, x)

\* Without faults the channel of the replica stays open and its Redis answers.
Unharmed(hub) ==
    /\ faults = 0
    /\ \A r \in Replica : link[r] = "open" /\ (r # hub => conn[r] = <<>>)
    /\ \A s \in Slot : pc[s] # "nack" /\ (pc[s] # "idle" => held[s])

\* A payment that is not over has one message, or one handler that answers for
\* it, and is not settled but by that handler.
InOnePlace ==
    /\ \A m \in Msg : ready[m] > 0 =>
           /\ ready[m] = 1
           /\ m.txn \notin dead \cup closed \cup settled
           /\ \A n \in Msg : ready[n] > 0 /\ n.txn = m.txn => n = m
           /\ \A s \in Slot : Answers(s) => msg[s].txn # m.txn
    /\ \A s \in Slot : Answers(s) =>
           /\ msg[s].txn \notin dead \cup closed
           /\ \A x \in Slot : Answers(x) /\ msg[x].txn = msg[s].txn => x = s
           /\ msg[s].txn \in settled =>
                  msg[s].queue = "settlement" /\ pc[s] \in {"store", "notify", "ack"}

Outcome(t) ==
    IF t \in dead THEN "FAILED" ELSE IF t \in settled THEN "SETTLED" ELSE "DECLINED"

\* What a handler has decided, and later the outcome, is the last thing written.
LastWords(hub) ==
    /\ \A s \in Slot : Answers(s) /\ pc[s] \in DecidedPC =>
           WillBe(hub, msg[s].txn, Written(msg[s].queue, verdict[s]))
    /\ \A t \in dead \cup closed : WillBe(hub, t, Outcome(t))

OutcomeInv(hub) == Unharmed(hub) /\ InOnePlace /\ LastWords(hub)

\* The slots belong to one replica.
SoleReplica(hub) == hub \in Replica /\ \A s \in Slot : Home[s] = hub

Stays(r, t) == \A x : WillBe(r, t, x) => WillBe(r, t, x)'

LEMMA AppendLeaves ==
    ASSUME NEW q \in Seq(Cmd), NEW c \in Cmd, NEW st, NEW t
    PROVE  /\ SetsKey(c, t) => Leaves(Append(q, c), st, t, c.val)
           /\ ~SetsKey(c, t) => \A x : Leaves(q, st, t, x) => Leaves(Append(q, c), st, t, x)
<1>1. /\ Len(q) \in Nat
      /\ Len(Append(q, c)) = Len(q) + 1
      /\ Append(q, c)[Len(q) + 1] = c
      /\ \A i \in 1 .. Len(q) : Append(q, c)[i] = q[i]
  BY AppendProperties, LenProperties
<1>2. ASSUME SetsKey(c, t)
      PROVE  Leaves(Append(q, c), st, t, c.val)
  <2>1. \A j \in Len(q) + 2 .. Len(q) + 1 : FALSE
    BY <1>1
  <2>2. Len(q) + 1 \in 1 .. Len(Append(q, c))
    BY <1>1
  <2>3. \A j \in (Len(q) + 1) + 1 .. Len(Append(q, c)) : ~SetsKey(Append(q, c)[j], t)
    BY <1>1
  <2> QED BY <1>1, <1>2, <2>2, <2>3 DEF Leaves
<1>3. ASSUME ~SetsKey(c, t), NEW x, Leaves(q, st, t, x)
      PROVE  Leaves(Append(q, c), st, t, x)
  <2>1. \A j \in 1 .. Len(Append(q, c)) : j \in 1 .. Len(q) \/ j = Len(q) + 1
    BY <1>1
  <2>2. CASE st = x /\ \A i \in 1 .. Len(q) : ~SetsKey(q[i], t)
    <3>1. \A i \in 1 .. Len(Append(q, c)) : ~SetsKey(Append(q, c)[i], t)
      BY <1>1, <1>3, <2>1, <2>2
    <3> QED BY <2>2, <3>1 DEF Leaves
  <2>3. ASSUME NEW i \in 1 .. Len(q), SetsKey(q[i], t), q[i].val = x,
               \A j \in i + 1 .. Len(q) : ~SetsKey(q[j], t)
        PROVE  Leaves(Append(q, c), st, t, x)
    <3>1. i \in 1 .. Len(Append(q, c)) /\ Append(q, c)[i] = q[i]
      BY <1>1
    <3>2. ASSUME NEW j \in i + 1 .. Len(Append(q, c))
          PROVE  ~SetsKey(Append(q, c)[j], t)
      <4>1. j \in i + 1 .. Len(q) \/ j = Len(q) + 1
        BY <1>1
      <4>2. j \in i + 1 .. Len(q) => j \in 1 .. Len(q)
        BY <1>1
      <4> QED BY <1>1, <1>3, <2>3, <4>1, <4>2
    <3> QED BY <2>3, <3>1, <3>2 DEF Leaves
  <2> QED BY <1>3, <2>2, <2>3 DEF Leaves
<1> QED BY <1>2, <1>3

LEMMA TailLeaves ==
    ASSUME NEW q \in Seq(Cmd), q # <<>>, NEW st, NEW t, NEW x, Leaves(q, st, t, x)
    PROVE  Leaves(Tail(q), IF SetsKey(Head(q), t) THEN Head(q).val ELSE st, t, x)
<1>1. /\ Len(q) \in Nat /\ Len(q) >= 1
      /\ Head(q) = q[1]
      /\ Len(Tail(q)) = Len(q) - 1
      /\ \A i \in 1 .. Len(Tail(q)) : Tail(q)[i] = q[i + 1]
  BY HeadTailProperties, EmptySeq, LenProperties
<1>2. CASE st = x /\ \A i \in 1 .. Len(q) : ~SetsKey(q[i], t)
  <2>1. \A i \in 1 .. Len(Tail(q)) : i + 1 \in 1 .. Len(q)
    BY <1>1
  <2>2. \A i \in 1 .. Len(Tail(q)) : ~SetsKey(Tail(q)[i], t)
    BY <1>1, <1>2, <2>1
  <2>3. ~SetsKey(Head(q), t)
    BY <1>1, <1>2
  <2> QED BY <1>2, <2>2, <2>3 DEF Leaves
<1>3. ASSUME NEW i \in 1 .. Len(q), SetsKey(q[i], t), q[i].val = x,
             \A j \in i + 1 .. Len(q) : ~SetsKey(q[j], t)
      PROVE  Leaves(Tail(q), IF SetsKey(Head(q), t) THEN Head(q).val ELSE st, t, x)
  <2>1. CASE i = 1
    <3>1. \A j \in 1 .. Len(Tail(q)) : j + 1 \in i + 1 .. Len(q)
      BY <1>1, <2>1
    <3>2. \A j \in 1 .. Len(Tail(q)) : ~SetsKey(Tail(q)[j], t)
      BY <1>1, <1>3, <3>1
    <3> QED BY <1>1, <1>3, <2>1, <3>2 DEF Leaves
  <2>2. CASE i # 1
    <3>1. i - 1 \in 1 .. Len(Tail(q)) /\ Tail(q)[i - 1] = q[i]
      BY <1>1, <2>2
    <3>2. ASSUME NEW j \in (i - 1) + 1 .. Len(Tail(q))
          PROVE  ~SetsKey(Tail(q)[j], t)
      <4>1. j + 1 \in i + 1 .. Len(q) /\ j \in 1 .. Len(Tail(q))
        BY <1>1, <2>2
      <4> QED BY <1>1, <1>3, <4>1
    <3> QED BY <1>3, <3>1, <3>2 DEF Leaves
  <2> QED BY <2>1, <2>2
<1> QED BY <1>2, <1>3 DEF Leaves

LEMMA EmptyLeaves ==
    ASSUME NEW st, NEW t, NEW x, Leaves(<<>>, st, t, x)
    PROVE  st = x
<1>1. \A i \in 1 .. Len(<<>>) : FALSE
  BY EmptySeq
<1> QED BY <1>1 DEF Leaves

\* The head of the pipeline is applied: the rest leaves what all of it did.
LEMMA HeadApplied ==
    ASSUME TypeOK, NEW r \in Replica, conn[r] # <<>>,
           store' = IF Head(conn[r]).op = "set"
                    THEN [store EXCEPT ![Head(conn[r]).txn] = Head(conn[r]).val] ELSE store
    PROVE  \A t \in Txn : \A x : WillBe(r, t, x) => Leaves(Tail(conn[r]), store'[t], t, x)
<1> SUFFICES ASSUME NEW t \in Txn, NEW x, WillBe(r, t, x)
             PROVE  Leaves(Tail(conn[r]), store'[t], t, x)
  OBVIOUS
<1>1. conn[r] \in Seq(Cmd) /\ store \in [Txn -> Status \cup {"NONE"}]
  BY DEF TypeOK
<1>2. Leaves(Tail(conn[r]), IF SetsKey(Head(conn[r]), t) THEN Head(conn[r]).val ELSE store[t], t, x)
  BY <1>1, TailLeaves DEF WillBe
<1>3. store'[t] = IF SetsKey(Head(conn[r]), t) THEN Head(conn[r]).val ELSE store[t]
  BY <1>1 DEF SetsKey
<1> QED BY <1>2, <1>3

\* What a new command behind the commands p means for each payment.
LEMMA Issued ==
    ASSUME NEW r \in Replica, NEW p \in Seq(Cmd), NEW c \in Cmd,
           conn'[r] = Append(p, c),
           \A t \in Txn : \A x : WillBe(r, t, x) => Leaves(p, store'[t], t, x)
    PROVE  \A t \in Txn : /\ SetsKey(c, t) => WillBe(r, t, c.val)'
                          /\ ~SetsKey(c, t) => Stays(r, t)
<1> SUFFICES ASSUME NEW t \in Txn
             PROVE  /\ SetsKey(c, t) => WillBe(r, t, c.val)'
                    /\ ~SetsKey(c, t) => Stays(r, t)
  OBVIOUS
<1>1. SetsKey(c, t) => Leaves(Append(p, c), store'[t], t, c.val)
  BY AppendLeaves
<1>2. ~SetsKey(c, t) => \A x : Leaves(p, store'[t], t, x) => Leaves(Append(p, c), store'[t], t, x)
  BY AppendLeaves
<1> QED BY <1>1, <1>2 DEF WillBe, Stays

\* Without a step of the replica's Redis everything stays as it is.
LEMMA NothingIssued ==
    ASSUME UNCHANGED <<conn, store>>, NEW r
    PROVE  \A t : Stays(r, t)
BY DEF Stays, WillBe

\* A decision is never refused by the state machine.
LEMMA NeverRefused ==
    ASSUME NEW q \in Worker
    PROVE  CanMove(Snapshot(q), Guarded(q))
BY DEF Worker, CanMove, Snapshot, Guarded, Transitions

\* So Decide issues the SET of its branch.
LEMMA DecideSets ==
    ASSUME TypeOK, NEW s \in Slot, NEW m \in Msg, NEW v \in Verdict, NEW q \in Seq(Cmd),
           Decide(s, m, v, q)
    PROVE  /\ pc'[s] = "store" /\ verdict'[s] = v
           /\ \A x \in Slot \ {s} : pc'[x] = pc[x] /\ verdict'[x] = verdict[x]
           /\ conn' = [conn EXCEPT ![Home[s]] = Append(q, Set(m.txn, Written(m.queue, v), s))]
           /\ Set(m.txn, Written(m.queue, v), s) \in Cmd
<1>1. m.queue \in Worker /\ m.txn \in Txn
  BY WorkerOfMsg
<1>2. CanMove(Snapshot(m.queue), Guarded(m.queue))
  BY <1>1, NeverRefused
<1>3. Set(m.txn, Written(m.queue, v), s) \in Cmd
  BY <1>1, WrittenType DEF Set, Cmd
<1> QED BY <1>2, <1>3 DEF Decide, TypeOK

\* The facts about a step of one handler that goes on with its message.
GoesOn(hub, s) ==
    /\ UNCHANGED <<ready, dead, msg, held, closed, link, faults>>
    /\ \A r \in Replica \ {hub} : conn'[r] = conn[r]
    /\ \A x \in Slot \ {s} : pc'[x] = pc[x] /\ verdict'[x] = verdict[x]
    /\ pc[s] # "idle" /\ pc'[s] \notin {"idle", "nack"}
    /\ Answers(s)' => Answers(s)
    /\ \/ settled' = settled
       \/ /\ settled' = settled \cup {msg[s].txn}
          /\ Answers(s) /\ msg[s].queue = "settlement"
    /\ msg[s].txn \in settled' => pc'[s] \in {"store", "notify", "ack"} \/ ~Answers(s)'
    /\ \A t \in Txn : (t = msg[s].txn /\ Answers(s)) \/ Stays(hub, t)
    /\ Answers(s)' /\ pc'[s] \in DecidedPC =>
           WillBe(hub, msg[s].txn, Written(msg[s].queue, verdict[s]))'

LEMMA GoingOnKeeps ==
    ASSUME InductiveInv, NEW hub, SoleReplica(hub), OutcomeInv(hub), NEW s \in Slot,
           GoesOn(hub, s)
    PROVE  OutcomeInv(hub)'
<1>1. TypeOK /\ SlotInv
  BY DEF InductiveInv
<1>2. \A x \in Slot : pc[x] # "idle" => msg[x] \in Msg /\ msg[x].txn \in Txn
  BY <1>1, WorkerOfMsg DEF SlotInv, SlotOK
<1>3. \A x \in Slot : /\ Answers(x) => pc[x] # "idle" /\ msg[x].txn \in Txn
                      /\ Answers(x)' => Answers(x)
                      /\ x # s => (Answers(x)' <=> Answers(x))
  BY <1>1, <1>2 DEF Answers, GoesOn, SlotInv, SlotOK
<1>4. Unharmed(hub)'
  BY DEF Unharmed, GoesOn, OutcomeInv
<1>5. InOnePlace'
  <2>1. ASSUME NEW m \in Msg, ready'[m] > 0
        PROVE  /\ ready'[m] = 1
               /\ m.txn \notin dead' \cup closed' \cup settled'
               /\ \A n \in Msg : ready'[n] > 0 /\ n.txn = m.txn => n = m
               /\ \A x \in Slot : Answers(x)' => msg'[x].txn # m.txn
    BY <1>3, <2>1 DEF InOnePlace, OutcomeInv, GoesOn
  <2>2. ASSUME NEW x \in Slot, Answers(x)'
        PROVE  /\ msg'[x].txn \notin dead' \cup closed'
               /\ \A y \in Slot : Answers(y)' /\ msg'[y].txn = msg'[x].txn => y = x
               /\ msg'[x].txn \in settled' =>
                      msg'[x].queue = "settlement" /\ pc'[x] \in {"store", "notify", "ack"}
    BY <1>3, <2>2 DEF InOnePlace, OutcomeInv, GoesOn
  <2> QED BY <2>1, <2>2 DEF InOnePlace
<1>6. LastWords(hub)'
  <2>1. ASSUME NEW x \in Slot, Answers(x)', pc'[x] \in DecidedPC
        PROVE  WillBe(hub, msg[x].txn, Written(msg[x].queue, verdict[x]))'
    <3>1. CASE x = s
      BY <2>1, <3>1 DEF GoesOn
    <3>2. CASE x # s
      <4>1. Answers(x) /\ pc[x] \in DecidedPC /\ verdict'[x] = verdict[x] /\ msg'[x] = msg[x]
        BY <1>3, <2>1, <3>2 DEF GoesOn
      <4>2. Stays(hub, msg[x].txn)
        BY <1>3, <3>2, <4>1 DEF GoesOn, OutcomeInv, InOnePlace
      <4> QED BY <4>1, <4>2 DEF Stays, OutcomeInv, LastWords
    <3> QED BY <3>1, <3>2
  <2>2. ASSUME NEW t \in dead \cup closed
        PROVE  WillBe(hub, t, Outcome(t))'
    <3>1. t \in Txn /\ WillBe(hub, t, Outcome(t))
      BY <1>1 DEF OutcomeInv, LastWords, TypeOK
    <3>2. ~(Answers(s) /\ msg[s].txn = t)
      BY DEF OutcomeInv, InOnePlace
    <3>3. Stays(hub, t) /\ Outcome(t)' = Outcome(t)
      BY <3>1, <3>2 DEF GoesOn, Outcome
    <3> QED BY <3>1, <3>3 DEF Stays
  <2>3. dead' = dead /\ closed' = closed
    BY DEF GoesOn
  <2> QED BY <2>1, <2>2, <2>3 DEF LastWords
<1> QED BY <1>4, <1>5, <1>6 DEF OutcomeInv

\* Nothing about a delivery changes and no command is issued or lost.
LEMMA NothingKeeps ==
    ASSUME InductiveInv, NEW hub, SoleReplica(hub), OutcomeInv(hub),
           UNCHANGED <<ready, dead, pc, msg, verdict, held, settled, closed, link, faults>>,
           \A r \in Replica \ {hub} : conn'[r] = conn[r],
           \A t \in Txn : Stays(hub, t)
    PROVE  OutcomeInv(hub)'
<1>1. TypeOK /\ SlotInv
  BY DEF InductiveInv
<1>2. \A x \in Slot : pc[x] # "idle" => msg[x].txn \in Txn
  BY <1>1, WorkerOfMsg DEF SlotInv, SlotOK
<1>3. \A x \in Slot : (Answers(x)' <=> Answers(x)) /\ (Answers(x) => pc[x] # "idle")
  BY <1>1 DEF Answers, SlotInv, SlotOK
<1>4. Unharmed(hub)'
  BY DEF Unharmed, OutcomeInv
<1>5. InOnePlace'
  BY <1>3 DEF InOnePlace, OutcomeInv
<1>6. LastWords(hub)'
  <2>1. \A t \in dead \cup closed : t \in Txn /\ Outcome(t)' = Outcome(t)
    BY <1>1 DEF TypeOK, Outcome
  <2> QED BY <1>2, <1>3, <2>1 DEF LastWords, OutcomeInv, Stays
<1> QED BY <1>4, <1>5, <1>6 DEF OutcomeInv

\* A delivery moves a payment from its queue into one handler.
LEMMA DeliverOutcome ==
    ASSUME InductiveInv, NEW hub, SoleReplica(hub), OutcomeInv(hub),
           NEW s \in Slot, NEW m \in Msg, Deliver(s, m)
    PROVE  OutcomeInv(hub)'
<1>1. TypeOK /\ SlotInv
  BY DEF InductiveInv
<1>2. Take(s, m) /\ UNCHANGED <<dead, charges, closed, faults>>
      /\ pc'[s] \notin {"notify", "ack"}
      /\ \A x \in Slot \ {s} : pc'[x] = pc[x] /\ verdict'[x] = verdict[x]
  BY <1>1, DeliverKeepsOthers
<1>3. m.txn \in Txn /\ m.queue \in Worker /\ Home[s] = hub /\ hub \in Replica
  BY WorkerOfMsg DEF SoleReplica
<1>4. /\ pc[s] = "idle" /\ ~held[s] /\ ready[m] > 0
      /\ msg'[s] = m /\ held'[s] /\ ready'[m] = ready[m] - 1
      /\ \A n \in Msg : n # m => ready'[n] = ready[n]
      /\ \A x \in Slot \ {s} : msg'[x] = msg[x] /\ held'[x] = held[x]
  BY <1>1, <1>2 DEF Take, TypeOK, SlotInv, SlotOK
<1>5. ready[m] = 1 /\ ready'[m] = 0
  BY <1>1, <1>4 DEF OutcomeInv, InOnePlace, TypeOK
<1>6. /\ pc'[s] \notin {"idle", "nack"}
      /\ settled' = settled /\ link' = link
      /\ \A r \in Replica \ {hub} : conn'[r] = conn[r]
      /\ \A t \in Txn : t = m.txn \/ Stays(hub, t)
      /\ pc'[s] \in DecidedPC => WillBe(hub, m.txn, Written(m.queue, verdict[s]))'
  <2>1. CASE DeliverValidation(s, m)
    <3>1. Validated(m.txn) \in Verdict /\ conn[hub] \in Seq(Cmd)
      BY <1>1, <1>3 DEF Validated, Verdict, TypeOK
    <3>2. /\ Decide(s, m, Validated(m.txn), conn[hub]) /\ store' = store
          /\ settled' = settled /\ link' = link
      BY <1>3, <2>1 DEF DeliverValidation, ledger
    <3> DEFINE c == Set(m.txn, Written(m.queue, Validated(m.txn)), s)
    <3>3. /\ pc'[s] = "store" /\ verdict'[s] = Validated(m.txn)
          /\ conn' = [conn EXCEPT ![hub] = Append(conn[hub], c)] /\ c \in Cmd
      BY <1>1, <1>3, <3>1, <3>2, DecideSets
    <3>4. /\ \A t \in Txn : SetsKey(c, t) <=> t = m.txn
          /\ c.val = Written(m.queue, Validated(m.txn))
      BY DEF SetsKey, Set
    <3> HIDE DEF c
    <3>5. conn'[hub] = Append(conn[hub], c)
      BY <1>1, <1>3, <3>3 DEF TypeOK
    <3>6. \A t \in Txn : \A x : WillBe(hub, t, x) => Leaves(conn[hub], store'[t], t, x)
      BY <3>2 DEF WillBe
    <3>7. \A t \in Txn : /\ SetsKey(c, t) => WillBe(hub, t, c.val)'
                         /\ ~SetsKey(c, t) => Stays(hub, t)
      BY <1>3, <3>1, <3>3, <3>5, <3>6, Issued
    <3> QED BY <1>1, <1>3, <3>2, <3>3, <3>4, <3>7 DEF TypeOK
  <2>2. CASE DeliverFraudCheck(s, m)
    <3> DEFINE c == Get(m.txn, s)
    <3>1. /\ c \in Cmd /\ conn' = [conn EXCEPT ![hub] = Append(conn[hub], c)]
          /\ pc'[s] = "fraudGet" /\ store' = store /\ settled' = settled /\ link' = link
          /\ conn[hub] \in Seq(Cmd)
      BY <1>1, <1>3, <2>2 DEF DeliverFraudCheck, Get, Cmd, ledger, TypeOK
    <3>2. \A t \in Txn : ~SetsKey(c, t)
      BY DEF SetsKey, Get
    <3> HIDE DEF c
    <3>3. conn'[hub] = Append(conn[hub], c)
      BY <1>1, <1>3, <3>1 DEF TypeOK
    <3>4. \A t \in Txn : \A x : WillBe(hub, t, x) => Leaves(conn[hub], store'[t], t, x)
      BY <3>1 DEF WillBe
    <3>5. \A t \in Txn : /\ SetsKey(c, t) => WillBe(hub, t, c.val)'
                         /\ ~SetsKey(c, t) => Stays(hub, t)
      BY <1>3, <3>1, <3>3, <3>4, Issued
    <3> QED BY <1>1, <1>3, <3>1, <3>2, <3>5 DEF TypeOK, DecidedPC
  <2>3. CASE DeliverProcessing(s, m)
    BY <1>1, <2>3, NothingIssued DEF DeliverProcessing, redis, ledger, TypeOK, DecidedPC
  <2>4. CASE DeliverSettlement(s, m)
    BY <1>1, <2>4, NothingIssued DEF DeliverSettlement, redis, ledger, TypeOK, DecidedPC
  <2> QED BY <2>1, <2>2, <2>3, <2>4 DEF Deliver
<1>7. \A x \in Slot \ {s} : (Answers(x)' <=> Answers(x)) /\ (Answers(x) => pc[x] # "idle" /\ msg[x].txn \in Txn)
  BY <1>1, <1>2, <1>4, WorkerOfMsg DEF Answers, SlotInv, SlotOK
<1>8. ~Answers(s) /\ Answers(s)'
  BY <1>2, <1>4 DEF Answers
<1>9. Unharmed(hub)'
  BY <1>2, <1>4, <1>6 DEF Unharmed, OutcomeInv
<1>10. InOnePlace'
  <2>1. ASSUME NEW n \in Msg, ready'[n] > 0
        PROVE  /\ ready'[n] = 1
               /\ n.txn \notin dead' \cup closed' \cup settled'
               /\ \A o \in Msg : ready'[o] > 0 /\ o.txn = n.txn => o = n
               /\ \A x \in Slot : Answers(x)' => msg'[x].txn # n.txn
    <3>1. n # m /\ ready[n] > 0 /\ ready'[n] = ready[n]
      BY <1>4, <1>5, <2>1
    <3>2. \A o \in Msg : ready'[o] > 0 => ready[o] > 0
      BY <1>4, <1>5
    <3>3. n.txn # m.txn
      BY <1>4, <3>1 DEF OutcomeInv, InOnePlace
    <3> QED BY <1>2, <1>4, <1>6, <1>7, <3>1, <3>2, <3>3 DEF OutcomeInv, InOnePlace
  <2>2. ASSUME NEW x \in Slot, Answers(x)'
        PROVE  /\ msg'[x].txn \notin dead' \cup closed'
               /\ \A y \in Slot : Answers(y)' /\ msg'[y].txn = msg'[x].txn => y = x
               /\ msg'[x].txn \in settled' =>
                      msg'[x].queue = "settlement" /\ pc'[x] \in {"store", "notify", "ack"}
    <3>1. \A y \in Slot \ {s} : Answers(y)' => msg'[y].txn # m.txn
      BY <1>4, <1>7 DEF OutcomeInv, InOnePlace
    <3>2. CASE x = s
      BY <1>2, <1>4, <1>6, <3>1, <3>2 DEF OutcomeInv, InOnePlace
    <3>3. CASE x # s
      BY <1>2, <1>4, <1>6, <1>7, <2>2, <3>1, <3>3 DEF OutcomeInv, InOnePlace
    <3> QED BY <3>2, <3>3
  <2> QED BY <2>1, <2>2 DEF InOnePlace
<1>11. LastWords(hub)'
  <2>1. ASSUME NEW x \in Slot, Answers(x)', pc'[x] \in DecidedPC
        PROVE  WillBe(hub, msg[x].txn, Written(msg[x].queue, verdict[x]))'
    <3>1. CASE x = s
      BY <1>4, <1>6, <2>1, <3>1
    <3>2. CASE x # s
      <4>1. /\ Answers(x) /\ pc[x] \in DecidedPC /\ verdict'[x] = verdict[x] /\ msg'[x] = msg[x]
            /\ msg[x].txn \in Txn /\ msg[x].txn # m.txn
        BY <1>2, <1>4, <1>7, <2>1, <3>2 DEF OutcomeInv, InOnePlace
      <4>2. Stays(hub, msg[x].txn)
        BY <1>6, <4>1
      <4> QED BY <4>1, <4>2 DEF Stays, OutcomeInv, LastWords
    <3> QED BY <3>1, <3>2
  <2>2. ASSUME NEW t \in dead \cup closed
        PROVE  WillBe(hub, t, Outcome(t))'
    <3>1. t \in Txn /\ WillBe(hub, t, Outcome(t)) /\ t # m.txn
      BY <1>1, <1>4 DEF OutcomeInv, InOnePlace, LastWords, TypeOK
    <3>2. Stays(hub, t) /\ Outcome(t)' = Outcome(t)
      BY <1>2, <1>6, <3>1 DEF Outcome
    <3> QED BY <3>1, <3>2 DEF Stays
  <2> QED BY <1>2, <2>1, <2>2 DEF LastWords
<1> QED BY <1>9, <1>10, <1>11 DEF OutcomeInv

\* A decision of s, taken behind the commands p, is what will be stored.
LEMMA DecideIsLast ==
    ASSUME InductiveInv, NEW hub, SoleReplica(hub), NEW s \in Slot, NEW v \in Verdict,
           NEW p \in Seq(Cmd), pc[s] # "idle", Decide(s, msg[s], v, p), msg' = msg,
           \A t \in Txn : \A x : WillBe(hub, t, x) => Leaves(p, store'[t], t, x)
    PROVE  /\ pc'[s] = "store" /\ verdict'[s] = v
           /\ \A x \in Slot \ {s} : pc'[x] = pc[x] /\ verdict'[x] = verdict[x]
           /\ \A r \in Replica \ {hub} : conn'[r] = conn[r]
           /\ WillBe(hub, msg[s].txn, Written(msg[s].queue, verdict[s]))'
           /\ \A t \in Txn : t = msg[s].txn \/ Stays(hub, t)
<1>1. TypeOK /\ Home[s] = hub /\ hub \in Replica
  BY DEF InductiveInv, SoleReplica
<1>2. PICK m \in Msg : m = msg[s]
  BY DEF InductiveInv, SlotInv, SlotOK
<1>3. m.txn \in Txn
  BY WorkerOfMsg
<1> DEFINE c == Set(m.txn, Written(m.queue, v), s)
<1>4. /\ pc'[s] = "store" /\ verdict'[s] = v
      /\ \A x \in Slot \ {s} : pc'[x] = pc[x] /\ verdict'[x] = verdict[x]
      /\ conn' = [conn EXCEPT ![hub] = Append(p, c)] /\ c \in Cmd
  BY <1>1, <1>2, DecideSets
<1>5. /\ \A t \in Txn : SetsKey(c, t) <=> t = m.txn
      /\ c.val = Written(m.queue, v)
  BY DEF SetsKey, Set
<1> HIDE DEF c
<1>6. conn'[hub] = Append(p, c) /\ \A r \in Replica \ {hub} : conn'[r] = conn[r]
  BY <1>1, <1>4 DEF TypeOK
<1>7. \A t \in Txn : /\ SetsKey(c, t) => WillBe(hub, t, c.val)'
                     /\ ~SetsKey(c, t) => Stays(hub, t)
  BY <1>1, <1>4, <1>6, Issued
<1>8. WillBe(hub, m.txn, Written(m.queue, v))'
  BY <1>3, <1>5, <1>7
<1>9. m = msg'[s] /\ verdict'[s] = v
  BY <1>2, <1>4
<1>10. WillBe(hub, msg[s].txn, Written(msg[s].queue, verdict[s]))'
  BY <1>8, <1>9
<1> QED BY <1>2, <1>4, <1>5, <1>6, <1>7, <1>10

\* The handler that waits for a reply holds its delivery and is at work on it.
LEMMA WaitsAndAnswers ==
    ASSUME InductiveInv, NEW hub, SoleReplica(hub), OutcomeInv(hub), NEW s \in Slot,
           pc[s] \notin {"idle", "notify", "ack"}
    PROVE  /\ Answers(s) /\ held[s] /\ msg[s] \in Msg /\ SlotOK(s)
           /\ msg[s].txn \in Txn /\ msg[s].queue \in Worker
           /\ msg[s].txn \in settled => pc[s] = "store"
<1>1. held[s] /\ SlotOK(s) /\ msg[s] \in Msg
  BY DEF OutcomeInv, Unharmed, InductiveInv, SlotInv, SlotOK
<1>2. Answers(s)
  BY <1>1 DEF Answers
<1> QED BY <1>1, <1>2, WorkerOfMsg DEF OutcomeInv, InOnePlace

LEMMA ReplyOutcome ==
    ASSUME InductiveInv, NEW hub, SoleReplica(hub), OutcomeInv(hub),
           NEW r \in Replica, RedisReply(r)
    PROVE  OutcomeInv(hub)'
<1>1. TypeOK /\ ConnInv /\ SlotInv
  BY DEF InductiveInv
<1>2. conn[r] # <<>>
  BY DEF RedisReply, StoreReply, FraudLookupReply, FraudCacheReply, Outstanding
<1>3. r = hub
  BY <1>2 DEF OutcomeInv, Unharmed
<1>4. PICK c \in Cmd : c = Head(conn[r]) /\ CmdAwaited(r, c) /\ Tail(conn[r]) \in Seq(Cmd)
  BY <1>1, <1>2, HeadIsOnly
<1>5. UNCHANGED <<ready, dead, closed, msg, held, settled, link, faults>>
  BY DEF RedisReply, StoreReply, FraudLookupReply, FraudCacheReply, ledger
<1>6. CASE StoreReply(r)
  <2>1. /\ c.op = "set" /\ c.by \in Slot \cup {None} /\ verdict' = verdict
        /\ store' = [store EXCEPT ![c.txn] = c.val]
        /\ conn' = [conn EXCEPT ![r] = Tail(conn[r])]
        /\ pc' = IF c.by = None THEN pc
                 ELSE [pc EXCEPT ![c.by] = AfterStore(msg[c.by].queue, verdict[c.by])]
    BY <1>4, <1>6 DEF StoreReply, Outstanding, Cmd
  <2>2. conn'[r] = Tail(conn[r]) /\ \A p \in Replica \ {hub} : conn'[p] = conn[p]
    BY <1>1, <1>3, <2>1 DEF TypeOK
  <2>3. \A t \in Txn : Stays(hub, t)
    <3>1. store' = IF Head(conn[r]).op = "set"
                   THEN [store EXCEPT ![Head(conn[r]).txn] = Head(conn[r]).val] ELSE store
      BY <1>4, <2>1
    <3>2. \A t \in Txn : \A x : WillBe(r, t, x) => Leaves(Tail(conn[r]), store'[t], t, x)
      BY <1>1, <1>2, <3>1, HeadApplied
    <3> QED BY <1>3, <2>2, <3>2 DEF Stays, WillBe
  <2>4. CASE c.by = None
    BY <1>5, <2>1, <2>2, <2>3, <2>4, NothingKeeps
  <2>5. CASE c.by # None
    <3>1. PICK s \in Slot : s = c.by /\ pc[s] = "store"
      BY <1>4, <2>1, <2>5 DEF CmdAwaited, Waiting
    <3>2. /\ Answers(s) /\ SlotOK(s) /\ msg[s] \in Msg /\ msg[s].queue \in Worker
          /\ msg[s].txn \in Txn /\ verdict[s] \in Verdict
      BY <3>1, WaitsAndAnswers DEF SlotOK, DecidedPC
    <3>3. /\ pc'[s] = AfterStore(msg[s].queue, verdict[s])
          /\ \A x \in Slot \ {s} : pc'[x] = pc[x]
      BY <1>1, <2>1, <2>5, <3>1 DEF TypeOK
    <3>4. /\ pc'[s] \in {"publish", "notify", "ack"}
          /\ pc'[s] = "publish" => ~Terminal(msg[s].queue, verdict[s])
      BY <3>2, <3>3, AfterStorePC
    <3>5. msg[s].txn \in settled => pc'[s] # "publish"
      <4>1. msg[s].txn \in settled => msg[s].queue = "settlement"
        BY <3>2 DEF OutcomeInv, InOnePlace
      <4> QED BY <3>4, <4>1 DEF Terminal
    <3>6. WillBe(hub, msg[s].txn, Written(msg[s].queue, verdict[s]))
      BY <3>1, <3>2 DEF OutcomeInv, LastWords, DecidedPC
    <3>7. WillBe(hub, msg[s].txn, Written(msg[s].queue, verdict[s]))'
      <4>1. PICK m, v : m = msg[s] /\ v = verdict[s] /\ m = msg'[s] /\ v = verdict'[s]
        BY <1>5, <2>1
      <4>2. WillBe(hub, m.txn, Written(m.queue, v))'
        BY <2>3, <3>2, <3>6, <4>1 DEF Stays
      <4> QED BY <4>1, <4>2
    <3>8. GoesOn(hub, s)
      BY <1>5, <2>1, <2>2, <2>3, <3>1, <3>2, <3>3, <3>4, <3>5, <3>7 DEF GoesOn
    <3> QED BY <3>8, GoingOnKeeps
  <2> QED BY <2>1, <2>4, <2>5
<1>7. CASE FraudLookupReply(r) \/ FraudCacheReply(r)
  <2>8. c.op # "set" /\ store' = store
    BY <1>4, <1>7 DEF FraudLookupReply, FraudCacheReply, Outstanding
  <2>4. \A t \in Txn : \A x : WillBe(hub, t, x) => Leaves(Tail(conn[r]), store'[t], t, x)
    BY <1>1, <1>2, <1>3, <1>4, <2>8, HeadApplied
  <2>9. CASE c.by = None
    <3>1. UNCHANGED <<pc, verdict>> /\ conn' = [conn EXCEPT ![r] = Tail(conn[r])]
      BY <1>1, <1>4, <1>7, <2>9, LookupSplit
    <3>2. /\ conn'[hub] = Tail(conn[r])
          /\ \A p \in Replica \ {hub} : conn'[p] = conn[p]
      BY <1>1, <1>3, <3>1 DEF TypeOK
    <3>3. \A t \in Txn : Stays(hub, t)
      BY <2>4, <3>2 DEF Stays, WillBe
    <3> QED BY <1>5, <3>1, <3>2, <3>3, NothingKeeps
  <2> SUFFICES ASSUME c.by # None
               PROVE  OutcomeInv(hub)'
    BY <2>9
  <2>1. PICK s \in Slot : s = c.by /\ pc[s] \in {"fraudGet", "fraudCache"} /\ c.op # "set"
    BY <1>1, <1>4, <1>7, <2>8, LookupSplit
  <2>2. /\ Answers(s) /\ SlotOK(s) /\ msg[s] \in Msg /\ msg[s].txn \in Txn
        /\ msg[s].txn \notin settled
    BY <2>1, WaitsAndAnswers
  <2>5. CASE pc' = [pc EXCEPT ![s] = "fraudCall"] /\ conn' = [conn EXCEPT ![r] = Tail(@)]
             /\ verdict' = verdict
    <3>1. /\ pc'[s] = "fraudCall" /\ \A x \in Slot \ {s} : pc'[x] = pc[x]
          /\ conn'[hub] = Tail(conn[r]) /\ \A p \in Replica \ {hub} : conn'[p] = conn[p]
      BY <1>1, <1>3, <2>5 DEF TypeOK
    <3>2. \A t \in Txn : Stays(hub, t)
      BY <2>4, <3>1 DEF Stays, WillBe
    <3>3. GoesOn(hub, s)
      BY <1>5, <2>1, <2>2, <2>5, <3>1, <3>2 DEF GoesOn, DecidedPC
    <3> QED BY <3>3, GoingOnKeeps
  <2>6. ASSUME NEW v \in Verdict, Decide(s, msg[s], v, Tail(conn[r]))
        PROVE  OutcomeInv(hub)'
    <3>1. /\ pc'[s] = "store" /\ verdict'[s] = v
          /\ \A x \in Slot \ {s} : pc'[x] = pc[x] /\ verdict'[x] = verdict[x]
          /\ \A p \in Replica \ {hub} : conn'[p] = conn[p]
          /\ WillBe(hub, msg[s].txn, Written(msg[s].queue, verdict[s]))'
          /\ \A t \in Txn : t = msg[s].txn \/ Stays(hub, t)
      <4>1. PICK p \in Seq(Cmd) : p = Tail(conn[r])
        BY <1>4
      <4>2. \A t \in Txn : \A x : WillBe(hub, t, x) => Leaves(p, store'[t], t, x)
        BY <2>4, <4>1
      <4>3. Decide(s, msg[s], v, p) /\ msg' = msg /\ pc[s] # "idle"
        BY <1>5, <2>1, <2>6, <4>1
      <4> QED BY <4>2, <4>3, DecideIsLast
    <3>2. GoesOn(hub, s)
      BY <1>5, <2>1, <2>2, <3>1 DEF GoesOn
    <3> QED BY <3>2, GoingOnKeeps
  <2>7. \/ /\ pc' = [pc EXCEPT ![s] = "fraudCall"] /\ conn' = [conn EXCEPT ![r] = Tail(@)]
           /\ verdict' = verdict
        \/ \E v \in Verdict : Decide(s, msg[s], v, Tail(conn[r]))
    BY <1>1, <1>4, <1>7, <2>1, LookupSplit
  <2> QED BY <2>5, <2>6, <2>7
<1> QED BY <1>6, <1>7 DEF RedisReply

\* The services answer a handler: it goes on.
LEMMA AnswerOutcome ==
    ASSUME InductiveInv, NEW hub, SoleReplica(hub), OutcomeInv(hub), NEW s \in Slot,
           \/ \E v \in Verdict : FraudServiceAnswers(s, v) \/ AcquirerAnswers(s, v)
           \/ SettlementAnswers(s)
    PROVE  OutcomeInv(hub)'
<1>1. TypeOK /\ Home[s] = hub /\ hub \in Replica /\ conn[hub] \in Seq(Cmd)
  BY DEF InductiveInv, SoleReplica, TypeOK
<1>2. pc[s] \in {"fraudCall", "acquirer", "settle"}
      /\ UNCHANGED <<ready, dead, msg, held, link, closed, faults, store>>
  BY DEF FraudServiceAnswers, AcquirerAnswers, SettlementAnswers
<1>3. /\ Answers(s) /\ SlotOK(s) /\ msg[s] \in Msg /\ msg[s].txn \in Txn
      /\ msg[s].txn \notin settled
  BY <1>2, WaitsAndAnswers
<1>4. \A t \in Txn : \A x : WillBe(hub, t, x) => Leaves(conn[hub], store'[t], t, x)
  BY <1>2 DEF WillBe
<1>5. ASSUME NEW v \in Verdict, FraudServiceAnswers(s, v)
      PROVE  OutcomeInv(hub)'
  <2>1. PICK m \in Msg : m = msg[s]
    BY <1>3
  <2> DEFINE c == Cache(m.txn, v, s)
  <2>2. /\ c \in Cmd /\ conn' = [conn EXCEPT ![hub] = Append(conn[hub], c)]
        /\ pc' = [pc EXCEPT ![s] = "fraudCache"]
        /\ UNCHANGED <<verdict, settled>>
    BY <1>1, <1>3, <1>5, <2>1 DEF FraudServiceAnswers, Cache, Cmd
  <2>3. \A t \in Txn : ~SetsKey(c, t)
    BY DEF SetsKey, Cache
  <2> HIDE DEF c
  <2>4. /\ conn'[hub] = Append(conn[hub], c)
        /\ \A r \in Replica \ {hub} : conn'[r] = conn[r]
        /\ pc'[s] = "fraudCache" /\ \A x \in Slot \ {s} : pc'[x] = pc[x]
    BY <1>1, <2>2 DEF TypeOK
  <2>5. \A t \in Txn : Stays(hub, t)
    BY <1>1, <1>4, <2>2, <2>3, <2>4, Issued
  <2>6. GoesOn(hub, s)
    BY <1>2, <1>3, <2>2, <2>4, <2>5 DEF GoesOn, DecidedPC
  <2> QED BY <2>6, GoingOnKeeps
<1>6. ASSUME NEW v \in Verdict, Decide(s, msg[s], v, conn[hub]),
             \/ settled' = settled
             \/ settled' = settled \cup {msg[s].txn} /\ msg[s].queue = "settlement"
      PROVE  OutcomeInv(hub)'
  <2>1. /\ pc'[s] = "store" /\ verdict'[s] = v
        /\ \A x \in Slot \ {s} : pc'[x] = pc[x] /\ verdict'[x] = verdict[x]
        /\ \A r \in Replica \ {hub} : conn'[r] = conn[r]
        /\ WillBe(hub, msg[s].txn, Written(msg[s].queue, verdict[s]))'
        /\ \A t \in Txn : t = msg[s].txn \/ Stays(hub, t)
    <3>1. PICK p \in Seq(Cmd) : p = conn[hub]
      BY <1>1
    <3>2. \A t \in Txn : \A x : WillBe(hub, t, x) => Leaves(p, store'[t], t, x)
      BY <1>4, <3>1
    <3>3. Decide(s, msg[s], v, p) /\ msg' = msg /\ pc[s] # "idle"
      BY <1>2, <1>6, <3>1
    <3> QED BY <3>2, <3>3, DecideIsLast
  <2>2. GoesOn(hub, s)
    BY <1>2, <1>3, <1>6, <2>1 DEF GoesOn
  <2> QED BY <2>2, GoingOnKeeps
<1>7. CASE \E v \in Verdict : AcquirerAnswers(s, v)
  BY <1>1, <1>6, <1>7 DEF AcquirerAnswers
<1>8. CASE SettlementAnswers(s)
  BY <1>1, <1>3, <1>6, <1>8 DEF SettlementAnswers, Verdict, SlotOK
<1> QED BY <1>5, <1>7, <1>8

\* A handler notifies: it goes on.
LEMMA NotifyOutcome ==
    ASSUME InductiveInv, NEW hub, SoleReplica(hub), OutcomeInv(hub), NEW s \in Slot, Notify(s)
    PROVE  OutcomeInv(hub)'
<1>1. TypeOK /\ SlotOK(s)
  BY DEF InductiveInv, SlotInv
<1>2. /\ pc[s] = "notify" /\ pc'[s] = "ack" /\ \A x \in Slot \ {s} : pc'[x] = pc[x]
      /\ UNCHANGED <<ready, dead, msg, verdict, held, conn, store, settled, link, closed, faults>>
  BY <1>1 DEF Notify, TypeOK, redis, ledger
<1>3. Answers(s)' <=> Answers(s)
  BY <1>2 DEF Answers
<1>4. \A t \in Txn : Stays(hub, t)
  BY <1>2, NothingIssued
<1>5. Answers(s) => WillBe(hub, msg[s].txn, Written(msg[s].queue, verdict[s]))'
  BY <1>2 DEF OutcomeInv, LastWords, DecidedPC, WillBe
<1>6. GoesOn(hub, s)
  BY <1>2, <1>3, <1>4, <1>5 DEF GoesOn
<1> QED BY <1>6, GoingOnKeeps

\* A handler gives its payment out of hand: to a queue, to the dead-letter
\* queue, or to nobody.
HandsOver(hub, s) ==
    /\ UNCHANGED <<settled, link, faults>>
    /\ \A r \in Replica \ {hub} : conn'[r] = conn[r]
    /\ \A x \in Slot \ {s} :
           /\ pc'[x] = pc[x] /\ verdict'[x] = verdict[x]
           /\ msg'[x] = msg[x] /\ held'[x] = held[x]
    /\ pc'[s] # "nack" /\ (pc'[s] # "idle" => held'[s]) /\ ~Answers(s)'
    /\ \A t \in Txn : (t = msg[s].txn /\ Answers(s)) \/ Stays(hub, t)
    /\ \/ ~Answers(s) /\ UNCHANGED <<ready, dead, closed>>
       \/ /\ Answers(s) /\ UNCHANGED ready
          /\ \/ dead' = dead \cup {msg[s].txn} /\ UNCHANGED closed
             \/ closed' = closed \cup {msg[s].txn} /\ UNCHANGED dead
          /\ \E t \in Txn : t = msg[s].txn /\ WillBe(hub, t, Outcome(t))'
       \/ /\ Answers(s) /\ msg[s].txn \notin settled /\ UNCHANGED <<dead, closed>>
          /\ \E n \in Msg : n.txn = msg[s].txn /\ ready' = [ready EXCEPT ![n] = @ + 1]

LEMMA HandingOverKeeps ==
    ASSUME InductiveInv, NEW hub, SoleReplica(hub), OutcomeInv(hub), NEW s \in Slot,
           HandsOver(hub, s)
    PROVE  OutcomeInv(hub)'
<1>1. TypeOK
  BY DEF InductiveInv
<1>2. \A x \in Slot : /\ Answers(x)' => x # s /\ Answers(x) /\ msg'[x] = msg[x]
                      /\ Answers(x) => msg[x] \in Msg /\ msg[x].txn \in Txn
  BY WorkerOfMsg DEF Answers, HandsOver, InductiveInv, SlotInv, SlotOK
<1>3. Unharmed(hub)'
  BY DEF Unharmed, HandsOver, OutcomeInv
<1>4. \A t \in dead' \cup closed' : t \in dead \cup closed \/ (t = msg[s].txn /\ Answers(s))
  BY DEF HandsOver
<1>5. InOnePlace'
  <2>1. ASSUME NEW m \in Msg, ready'[m] > 0
        PROVE  /\ ready'[m] = 1
               /\ m.txn \notin dead' \cup closed' \cup settled'
               /\ \A n \in Msg : ready'[n] > 0 /\ n.txn = m.txn => n = m
               /\ \A x \in Slot : Answers(x)' => msg'[x].txn # m.txn
    <3>1. CASE UNCHANGED ready
      BY <1>2, <1>4, <2>1, <3>1 DEF HandsOver, OutcomeInv, InOnePlace
    <3>2. ASSUME Answers(s), msg[s].txn \notin settled, UNCHANGED <<dead, closed>>,
                 NEW n \in Msg, n.txn = msg[s].txn, ready' = [ready EXCEPT ![n] = @ + 1]
          PROVE  /\ ready'[m] = 1
                 /\ m.txn \notin dead' \cup closed' \cup settled'
                 /\ \A o \in Msg : ready'[o] > 0 /\ o.txn = m.txn => o = m
                 /\ \A x \in Slot : Answers(x)' => msg'[x].txn # m.txn
      <4>1. \A o \in Msg : o.txn = n.txn => ready[o] = 0
        <5>1. \A o \in Msg : ready[o] \in Nat
          BY <1>1 DEF TypeOK
        <5>2. \A o \in Msg : o.txn = n.txn => ~(ready[o] > 0)
          BY <3>2 DEF OutcomeInv, InOnePlace
        <5> QED BY <5>1, <5>2
      <4>2. ready'[n] = 1 /\ \A o \in Msg : o # n => ready'[o] = ready[o]
        BY <1>1, <3>2, <4>1 DEF TypeOK
      <4>3. settled' = settled
        BY DEF HandsOver
      <4>4. CASE m = n
        BY <1>2, <3>2, <4>1, <4>2, <4>3, <4>4 DEF OutcomeInv, InOnePlace
      <4>5. CASE m # n
        <5>1. ready[m] > 0 /\ m.txn # n.txn
          BY <2>1, <4>1, <4>2, <4>5
        <5> QED BY <1>2, <3>2, <4>2, <4>3, <4>5, <5>1 DEF OutcomeInv, InOnePlace
      <4> QED BY <4>4, <4>5
    <3> QED BY <3>1, <3>2 DEF HandsOver
  <2>2. ASSUME NEW x \in Slot, Answers(x)'
        PROVE  /\ msg'[x].txn \notin dead' \cup closed'
               /\ \A y \in Slot : Answers(y)' /\ msg'[y].txn = msg'[x].txn => y = x
               /\ msg'[x].txn \in settled' =>
                      msg'[x].queue = "settlement" /\ pc'[x] \in {"store", "notify", "ack"}
    BY <1>2, <1>4, <2>2 DEF HandsOver, OutcomeInv, InOnePlace
  <2> QED BY <2>1, <2>2 DEF InOnePlace
<1>6. LastWords(hub)'
  <2>1. ASSUME NEW x \in Slot, Answers(x)', pc'[x] \in DecidedPC
        PROVE  WillBe(hub, msg[x].txn, Written(msg[x].queue, verdict[x]))'
    <3>1. /\ Answers(x) /\ pc[x] \in DecidedPC /\ verdict'[x] = verdict[x] /\ msg'[x] = msg[x]
          /\ msg[x].txn \in Txn /\ x # s
      BY <1>2, <2>1 DEF HandsOver
    <3>2. Stays(hub, msg[x].txn)
      BY <3>1 DEF HandsOver, OutcomeInv, InOnePlace
    <3> QED BY <3>1, <3>2 DEF Stays, OutcomeInv, LastWords
  <2>2. ASSUME NEW t \in dead' \cup closed'
        PROVE  WillBe(hub, t, Outcome(t))'
    <3>1. CASE t \in dead \cup closed
      <4>1. t \in Txn /\ WillBe(hub, t, Outcome(t)) /\ ~(Answers(s) /\ msg[s].txn = t)
        BY <1>1, <3>1 DEF OutcomeInv, LastWords, InOnePlace, TypeOK
      <4>2. Stays(hub, t) /\ Outcome(t)' = Outcome(t)
        BY <4>1 DEF HandsOver, Outcome
      <4> QED BY <4>1, <4>2 DEF Stays
    <3>2. CASE t \notin dead \cup closed
      BY <3>2 DEF HandsOver
    <3> QED BY <3>1, <3>2
  <2> QED BY <2>1, <2>2 DEF LastWords
<1> QED BY <1>3, <1>5, <1>6 DEF OutcomeInv

LEMMA ForwardOutcome ==
    ASSUME InductiveInv, NEW hub, SoleReplica(hub), OutcomeInv(hub), NEW s \in Slot, Forward(s)
    PROVE  OutcomeInv(hub)'
<1>1. TypeOK /\ Home[s] = hub /\ hub \in Replica /\ conn[hub] \in Seq(Cmd)
  BY DEF InductiveInv, SoleReplica, TypeOK
<1>2. /\ pc[s] = "publish" /\ Publish(s)
      /\ conn' = [conn EXCEPT ![hub] = Trailing(msg[s], conn[hub])]
      /\ pc' = [pc EXCEPT ![s] = AfterPublish(msg[s].queue)]
      /\ UNCHANGED <<msg, verdict, held, store, link, settled, closed, faults>>
  BY <1>1 DEF Forward, ledger
<1>3. /\ Answers(s) /\ held[s] /\ SlotOK(s) /\ msg[s].txn \notin settled
      /\ msg[s].queue \in Worker /\ msg[s].txn \in Txn
      /\ verdict[s] \in Verdict /\ ~Terminal(msg[s].queue, verdict[s])
  BY <1>2, WaitsAndAnswers DEF SlotOK, DecidedPC
<1>4. PICK m \in Msg : m = msg[s]
  BY <1>2, WaitsAndAnswers
<1>5. /\ pc'[s] \in {"notify", "ack"} /\ ~Answers(s)'
      /\ \A x \in Slot \ {s} : pc'[x] = pc[x]
      /\ \A r \in Replica \ {hub} : conn'[r] = conn[r]
      /\ conn'[hub] = Trailing(m, conn[hub])
  BY <1>1, <1>2, <1>3, <1>4 DEF TypeOK, AfterPublish, Answers
<1>6. /\ \A t \in Txn : t = m.txn \/ Stays(hub, t)
      /\ m.queue = "validation" => WillBe(hub, m.txn, "FAILED")'
  <2>1. CASE m.queue # "validation"
    BY <1>2, <1>5, <2>1 DEF Trailing, Stays, WillBe
  <2>2. CASE m.queue = "validation"
    <3> DEFINE c == Set(m.txn, "FAILED", None)
    <3>1. c \in Cmd /\ c.val = "FAILED" /\ \A t \in Txn : SetsKey(c, t) <=> t = m.txn
      BY <1>3, <1>4 DEF Set, Cmd, Status, SetsKey
    <3>2. conn'[hub] = Append(conn[hub], c)
      BY <1>5, <2>2 DEF Trailing
    <3> HIDE DEF c
    <3>3. \A t \in Txn : \A x : WillBe(hub, t, x) => Leaves(conn[hub], store'[t], t, x)
      BY <1>2 DEF WillBe
    <3>4. \A t \in Txn : /\ SetsKey(c, t) => WillBe(hub, t, c.val)'
                         /\ ~SetsKey(c, t) => Stays(hub, t)
      BY <1>1, <3>1, <3>2, <3>3, Issued
    <3>5. WillBe(hub, m.txn, c.val)' /\ c.val = "FAILED"
      BY <1>3, <1>4, <3>1, <3>4
    <3> QED BY <3>1, <3>4, <3>5
  <2> QED BY <2>1, <2>2
<1>7. CASE Buries(msg[s], verdict[s])
  <2>1. dead' = dead \cup {msg[s].txn} /\ UNCHANGED ready /\ m.queue = "validation"
    BY <1>2, <1>3, <1>4, <1>7 DEF Publish, Buries
  <2>2. Outcome(m.txn)' = "FAILED"
    BY <1>4, <2>1 DEF Outcome
  <2>3. \E t \in Txn : t = msg[s].txn /\ WillBe(hub, t, Outcome(t))'
    BY <1>3, <1>4, <1>6, <2>1, <2>2
  <2>4. HandsOver(hub, s)
    BY <1>2, <1>3, <1>4, <1>5, <1>6, <2>1, <2>3 DEF HandsOver
  <2> QED BY <2>4, HandingOverKeeps
<1>8. CASE ~Buries(msg[s], verdict[s])
  <2>1. /\ ready' = [ready EXCEPT ![Successor(msg[s], verdict[s])] = @ + 1]
        /\ dead' = dead
    BY <1>2, <1>3, <1>8 DEF Publish
  <2>2. Successor(msg[s], verdict[s]) \in Msg
        /\ Successor(msg[s], verdict[s]).txn = msg[s].txn
    BY <1>3, <1>4, <1>8, SuccessorType
  <2>3. HandsOver(hub, s)
    BY <1>2, <1>3, <1>4, <1>5, <1>6, <2>1, <2>2 DEF HandsOver
  <2> QED BY <2>3, HandingOverKeeps
<1> QED BY <1>7, <1>8

LEMMA AckOutcome ==
    ASSUME InductiveInv, NEW hub, SoleReplica(hub), OutcomeInv(hub), NEW s \in Slot, Ack(s)
    PROVE  OutcomeInv(hub)'
<1>1. TypeOK /\ SlotOK(s)
  BY DEF InductiveInv, SlotInv
<1>2. /\ pc[s] = "ack" /\ held[s] /\ msg[s] \in Msg /\ msg[s].txn \in Txn
      /\ msg[s].queue \in Worker /\ verdict[s] \in Verdict
  BY <1>1, WorkerOfMsg DEF Ack, OutcomeInv, Unharmed, SlotOK, DecidedPC
<1>3. /\ pc'[s] = "idle" /\ ~held'[s]
      /\ \A x \in Slot \ {s} : /\ pc'[x] = pc[x] /\ verdict'[x] = verdict[x]
                               /\ msg'[x] = msg[x] /\ held'[x] = held[x]
      /\ UNCHANGED <<ready, dead, conn, store, settled, link, faults>>
  BY <1>1 DEF Ack, Release, TypeOK, redis, ledger
<1>4. ~Answers(s)' /\ \A t \in Txn : Stays(hub, t)
  BY <1>3, NothingIssued DEF Answers
<1>5. CASE Terminal(msg[s].queue, verdict[s])
  <2>1. Answers(s) /\ closed' = closed \cup {msg[s].txn}
    BY <1>2, <1>5 DEF Answers, Ack
  <2>2. PICK t \in Txn : t = msg[s].txn /\ t \notin dead
    BY <1>2, <2>1 DEF OutcomeInv, InOnePlace
  <2>3. WillBe(hub, t, Written(msg[s].queue, verdict[s]))
    BY <1>2, <2>1, <2>2 DEF OutcomeInv, LastWords, DecidedPC
  <2>4. t \in settled <=> msg[s].queue = "settlement"
    BY <1>1, <1>2, <2>1, <2>2 DEF SlotOK, DecidedPC, Supported, OutcomeInv, InOnePlace
  <2>5. Written(msg[s].queue, verdict[s]) = Outcome(t)
    BY <1>2, <1>5, <2>2, <2>4 DEF Written, Outcome, Terminal
  <2>6. Outcome(t)' = Outcome(t)
    BY <1>3 DEF Outcome
  <2>7. WillBe(hub, t, Outcome(t))'
    BY <1>4, <2>3, <2>5, <2>6 DEF Stays
  <2>8. HandsOver(hub, s)
    BY <1>3, <1>4, <2>1, <2>2, <2>7 DEF HandsOver
  <2> QED BY <2>8, HandingOverKeeps
<1>6. CASE ~Terminal(msg[s].queue, verdict[s])
  <2>1. ~Answers(s) /\ closed' = closed
    BY <1>2, <1>6 DEF Answers, Ack
  <2>2. HandsOver(hub, s)
    BY <1>3, <1>4, <2>1 DEF HandsOver
  <2> QED BY <2>2, HandingOverKeeps
<1> QED BY <1>5, <1>6

\* Nothing else can happen to a replica without faults but its window passing.
LEMMA OutcomeStays ==
    ASSUME InductiveInv, NEW hub, SoleReplica(hub), OutcomeInv(hub), MaxFaults = 0, [Next]_vars
    PROVE  OutcomeInv(hub)'
<1>1. /\ ~Fault
      /\ \A r \in Replica : link[r] = "open"
      /\ \A s \in Slot : pc[s] # "nack" /\ Home[s] \in Replica
  BY DEF Fault, OutcomeInv, Unharmed, SoleReplica
<1>2. CASE UNCHANGED <<ready, dead, handlers, redis, link, ledger, closed, faults>>
  BY <1>2, NothingKeeps, NothingIssued DEF handlers, redis, ledger
<1>3. ASSUME NEW s \in Slot, HandlerStep(s)
      PROVE  OutcomeInv(hub)'
  <2>1. ~ForwardThrows(s) /\ ~Nack(s)
    BY <1>1 DEF ForwardThrows, Nack
  <2> QED BY <1>3, <2>1, AnswerOutcome, ForwardOutcome, NotifyOutcome, AckOutcome DEF HandlerStep
<1>4. ASSUME NEW r \in Replica
      PROVE  /\ ~Restart(r) /\ ~Crash(r) /\ ~Disconnect(r)
             /\ ~RedisRefuses(r) /\ ~RedisRejects(r) /\ ~RedisResends(r)
  BY <1>1 DEF Restart, Crash, Disconnect, RedisRefuses, RedisRejects, RedisResends
<1>5. \A t \in Txn : ~FraudResultExpires(t)
  BY <1>1 DEF FraudResultExpires
<1>6. ASSUME NEW s \in Slot, NEW m \in Msg, Throttle(s, m)
      PROVE  UNCHANGED <<ready, dead, handlers, redis, link, ledger, closed, faults>>
  BY <1>6 DEF Throttle
<1>7. ASSUME NEW r \in Replica, WindowElapses(r)
      PROVE  UNCHANGED <<ready, dead, handlers, redis, link, ledger, closed, faults>>
  BY <1>7 DEF WindowElapses
<1>8. CASE UNCHANGED vars
  BY <1>2, <1>8 DEF vars
<1> QED BY <1>2, <1>3, <1>4, <1>5, <1>6, <1>7, <1>8, DeliverOutcome, ReplyOutcome DEF Next

LEMMA OutcomeInit == ASSUME Init, NEW hub, SoleReplica(hub) PROVE OutcomeInv(hub)
<1>1. \A s \in Slot : ~Answers(s)
  BY DEF Init, Answers
<1>2. Unharmed(hub) /\ LastWords(hub)
  BY <1>1 DEF Init, Unharmed, LastWords
<1>3. InOnePlace
  <2>1. \A m \in Msg : ready[m] > 0 => m.queue = "validation" /\ m.retry = 0 /\ ready[m] = 1
    BY DEF Init
  <2>2. \A m, n \in Msg : m.queue = "validation" /\ n.queue = "validation"
                          /\ m.retry = 0 /\ n.retry = 0 /\ m.txn = n.txn => m = n
    BY DEF Msg
  <2> QED BY <1>1, <2>1, <2>2 DEF Init, InOnePlace
<1> QED BY <1>2, <1>3 DEF OutcomeInv

\* On one replica without faults, whatever the interleaving of its handlers and
\* their Redis commands, Redis at rest holds the outcome of every payment: the
\* trailing FAILED of the validation worker never overtakes a later stage.
THEOREM OutcomesAreStored ==
    ASSUME MaxFaults = 0, NEW hub, SoleReplica(hub)
    PROVE  Spec => []QuietStoreIsOutcome
<1>1. Init => OutcomeInv(hub)
  BY OutcomeInit
<1>2. InductiveInv /\ OutcomeInv(hub) /\ [Next]_vars => OutcomeInv(hub)'
  BY OutcomeStays
<1>3. InductiveInv /\ NoPaymentLost /\ OutcomeInv(hub) => QuietStoreIsOutcome
  <2> SUFFICES ASSUME InductiveInv, NoPaymentLost, OutcomeInv(hub), Quiet, NEW t \in Txn
               PROVE  store[t] = Outcome(t)
    BY DEF QuietStoreIsOutcome, Outcome
  <2>1. conn[hub] = <<>>
    BY DEF Quiet, SoleReplica
  <2>2. t \in dead \cup closed
    <3>1. \A m \in Msg : ~(ready[m] > 0)
      BY DEF Quiet
    <3>2. \A s \in Slot : ~Answers(s)
      BY DEF Quiet, Answers, InductiveInv, SlotInv, SlotOK
    <3> QED BY <3>1, <3>2 DEF NoPaymentLost
  <2>3. Leaves(<<>>, store[t], t, Outcome(t))
    BY <2>1, <2>2 DEF OutcomeInv, LastWords, WillBe
  <2> QED BY <2>3, EmptyLeaves
<1> QED BY <1>1, <1>2, <1>3, Invariance, NothingIsLost, PTL DEF Spec

-----------------------------------------------------------------------------
(* SETTLED stays SETTLED, on one replica without faults *)

\* No SETTLED is stored for t or among the commands in q.
NoneSettled(q, st, t) ==
    st # "SETTLED" /\ \A i \in 1 .. Len(q) : SetsKey(q[i], t) => q[i].val # "SETTLED"

\* Behind a SETTLED, stored or in q, only SETTLED is written for t.
NothingBehind(q, st, t) ==
    /\ st = "SETTLED" => \A i \in 1 .. Len(q) : SetsKey(q[i], t) => q[i].val = "SETTLED"
    /\ \A i, j \in 1 .. Len(q) :
           i < j /\ SetsKey(q[i], t) /\ SetsKey(q[j], t) /\ q[i].val = "SETTLED"
               => q[j].val = "SETTLED"

FinalInv(hub) == \A t \in Txn : NothingBehind(conn[hub], store[t], t)

LEMMA BehindAppended ==
    ASSUME NEW q \in Seq(Cmd), NEW c \in Cmd, NEW st, NEW t, NothingBehind(q, st, t),
           SetsKey(c, t) => c.val = "SETTLED" \/ NoneSettled(q, st, t)
    PROVE  NothingBehind(Append(q, c), st, t)
<1> DEFINE p == Append(q, c)
<1>1. /\ Len(q) \in Nat /\ Len(p) = Len(q) + 1
      /\ p[Len(q) + 1] = c
      /\ \A i \in 1 .. Len(q) : p[i] = q[i]
  BY AppendProperties, LenProperties
<1>2. \A i \in 1 .. Len(p) : i \in 1 .. Len(q) \/ i = Len(q) + 1
  BY <1>1
<1> HIDE DEF p
<1>3. st = "SETTLED" => \A i \in 1 .. Len(p) : SetsKey(p[i], t) => p[i].val = "SETTLED"
  BY <1>1, <1>2 DEF NothingBehind, NoneSettled
<1>4. ASSUME NEW i \in 1 .. Len(p), NEW j \in 1 .. Len(p), i < j,
             SetsKey(p[i], t), SetsKey(p[j], t), p[i].val = "SETTLED"
      PROVE  p[j].val = "SETTLED"
  <2>1. i \in 1 .. Len(q)
    BY <1>1, <1>2, <1>4
  <2>2. CASE j \in 1 .. Len(q)
    BY <1>1, <1>4, <2>1, <2>2 DEF NothingBehind
  <2>3. CASE j = Len(q) + 1
    BY <1>1, <1>4, <2>1, <2>3 DEF NoneSettled
  <2> QED BY <1>2, <2>2, <2>3
<1> QED BY <1>3, <1>4 DEF NothingBehind, p

LEMMA BehindTail ==
    ASSUME NEW q \in Seq(Cmd), q # <<>>, NEW st, NEW t, NothingBehind(q, st, t)
    PROVE  NothingBehind(Tail(q), IF SetsKey(Head(q), t) THEN Head(q).val ELSE st, t)
<1> DEFINE p == Tail(q)
<1>1. /\ Len(q) \in Nat /\ Len(q) >= 1
      /\ Head(q) = q[1]
      /\ Len(p) = Len(q) - 1
      /\ \A i \in 1 .. Len(p) : p[i] = q[i + 1]
  BY HeadTailProperties, EmptySeq, LenProperties
<1> HIDE DEF p
<1>2. \A i \in 1 .. Len(p) : i + 1 \in 1 .. Len(q) /\ 1 < i + 1
  BY <1>1
<1>3. 1 \in 1 .. Len(q)
  BY <1>1
<1>4. ASSUME NEW i \in 1 .. Len(p), SetsKey(p[i], t),
             (IF SetsKey(Head(q), t) THEN Head(q).val ELSE st) = "SETTLED"
      PROVE  p[i].val = "SETTLED"
  BY <1>1, <1>2, <1>3, <1>4 DEF NothingBehind
<1>5. ASSUME NEW i \in 1 .. Len(p), NEW j \in 1 .. Len(p), i < j,
             SetsKey(p[i], t), SetsKey(p[j], t), p[i].val = "SETTLED"
      PROVE  p[j].val = "SETTLED"
  <2>1. i + 1 \in 1 .. Len(q) /\ j + 1 \in 1 .. Len(q) /\ i + 1 < j + 1
    BY <1>2, <1>5
  <2>2. p[i] = q[i + 1] /\ p[j] = q[j + 1]
    BY <1>1
  <2> QED BY <1>5, <2>1, <2>2 DEF NothingBehind
<1> QED BY <1>4, <1>5 DEF NothingBehind, p

\* Before the settlement service has answered nothing is stored as SETTLED.
LEMMA NotYetSettled ==
    ASSUME InductiveInv, NEW r \in Replica, NEW t \in Txn, t \notin settled
    PROVE  NoneSettled(conn[r], store[t], t)
<1>1. store[t] # "SETTLED"
  BY DEF InductiveInv, LedgerInv, StoreTellsNoLie, Lifecycle!StoreTellsNoLie, Lifecycle!Justified
<1>2. ASSUME NEW i \in 1 .. Len(conn[r]), SetsKey(conn[r][i], t)
      PROVE  conn[r][i].val # "SETTLED"
  <2>1. CmdJustified(conn[r][i])
    BY DEF InductiveInv, ConnInv, ConnOK
  <2> QED BY <1>2, <2>1 DEF CmdJustified, SetsKey, Lifecycle!Justified
<1> QED BY <1>1, <1>2 DEF NoneSettled

LEMMA NoneSettledTail ==
    ASSUME NEW q \in Seq(Cmd), q # <<>>, NEW st, NEW t, NoneSettled(q, st, t)
    PROVE  NoneSettled(Tail(q), st, t)
<1>1. /\ Len(q) \in Nat /\ Len(Tail(q)) = Len(q) - 1
      /\ \A i \in 1 .. Len(Tail(q)) : Tail(q)[i] = q[i + 1]
  BY HeadTailProperties, EmptySeq, LenProperties
<1>2. \A i \in 1 .. Len(Tail(q)) : i + 1 \in 1 .. Len(q)
  BY <1>1
<1> QED BY <1>1, <1>2 DEF NoneSettled

\* A new command behind those in p.
LEMMA FinalIssued ==
    ASSUME NEW hub, NEW p \in Seq(Cmd), NEW c \in Cmd,
           \A t \in Txn : NothingBehind(p, store[t], t),
           store' = store, conn'[hub] = Append(p, c),
           \/ c.op # "set"
           \/ c.val = "SETTLED"
           \/ NoneSettled(p, store[c.txn], c.txn)
    PROVE  FinalInv(hub)'
<1>1. ASSUME NEW t \in Txn PROVE NothingBehind(Append(p, c), store[t], t)
  <2>1. SetsKey(c, t) => c.val = "SETTLED" \/ NoneSettled(p, store[t], t)
    BY DEF SetsKey
  <2> QED BY <2>1, BehindAppended
<1> QED BY <1>1 DEF FinalInv

\* A handler that answers for its message on the way to settlement is about a
\* payment not yet settled.
LEMMA OnTheWay ==
    ASSUME SlotInv, NEW hub, OutcomeInv(hub), NEW s \in Slot,
           pc[s] \in {"fraudGet", "fraudCall", "fraudCache", "acquirer"}
               \/ (pc[s] = "publish" /\ msg[s].queue = "validation")
    PROVE  msg[s].txn \notin settled
<1>1. Answers(s)
  BY DEF Answers, OutcomeInv, Unharmed
<1>2. msg[s].queue # "settlement"
  BY DEF SlotInv, SlotOK, FraudPC
<1> QED BY <1>1, <1>2 DEF OutcomeInv, InOnePlace

LEMMA FinalDelivered ==
    ASSUME InductiveInv, NEW hub, SoleReplica(hub), OutcomeInv(hub), FinalInv(hub),
           NEW s \in Slot, NEW m \in Msg, Deliver(s, m)
    PROVE  FinalInv(hub)'
<1>1. TypeOK /\ m.txn \in Txn /\ m.queue \in Worker /\ Home[s] = hub /\ hub \in Replica
  BY WorkerOfMsg DEF InductiveInv, SoleReplica
<1>2. conn[hub] \in Seq(Cmd) /\ conn \in [Replica -> Seq(Cmd)]
  BY <1>1 DEF TypeOK
<1>3. CASE DeliverValidation(s, m)
  <2>1. ready[m] > 0 /\ Decide(s, m, Validated(m.txn), conn[hub]) /\ store' = store
    BY <1>1, <1>3 DEF DeliverValidation, Take
  <2>2. Validated(m.txn) \in Verdict
    BY DEF Validated, Verdict
  <2>3. PICK c \in Cmd : conn'[hub] = Append(conn[hub], c) /\ c.txn = m.txn
    <3>1. /\ conn' = [conn EXCEPT ![hub] =
                       Append(conn[hub], Set(m.txn, Written(m.queue, Validated(m.txn)), s))]
          /\ Set(m.txn, Written(m.queue, Validated(m.txn)), s) \in Cmd
      BY <1>1, <1>2, <2>1, <2>2, DecideSets
    <3> QED BY <1>1, <1>2, <3>1 DEF Set
  <2>4. NoneSettled(conn[hub], store[m.txn], m.txn)
    BY <1>1, <2>1, NotYetSettled DEF OutcomeInv, InOnePlace
  <2> QED BY <1>2, <2>1, <2>3, <2>4, FinalIssued DEF FinalInv
<1>4. CASE DeliverFraudCheck(s, m)
  <2>1. Get(m.txn, s) \in Cmd /\ Get(m.txn, s).op # "set"
    BY <1>1 DEF Get, Cmd
  <2>2. conn'[hub] = Append(conn[hub], Get(m.txn, s)) /\ store' = store
    BY <1>1, <1>2, <1>4 DEF DeliverFraudCheck
  <2> QED BY <1>2, <2>1, <2>2, FinalIssued DEF FinalInv
<1>5. CASE DeliverProcessing(s, m) \/ DeliverSettlement(s, m)
  BY <1>5 DEF DeliverProcessing, DeliverSettlement, redis, FinalInv
<1> QED BY <1>3, <1>4, <1>5 DEF Deliver

LEMMA FinalReplied ==
    ASSUME InductiveInv, NEW hub, SoleReplica(hub), OutcomeInv(hub), FinalInv(hub),
           NEW r \in Replica, RedisReply(r)
    PROVE  FinalInv(hub)'
<1>1. TypeOK /\ ConnInv /\ SlotInv
  BY DEF InductiveInv
<1>2. conn[r] # <<>>
  BY DEF RedisReply, StoreReply, FraudLookupReply, FraudCacheReply, Outstanding
<1>3. r = hub
  BY <1>2 DEF OutcomeInv, Unharmed
<1>4. PICK c \in Cmd : c = Head(conn[r]) /\ CmdAwaited(r, c) /\ Tail(conn[r]) \in Seq(Cmd)
  BY <1>1, <1>2, HeadIsOnly
<1>5. conn[hub] \in Seq(Cmd) /\ conn \in [Replica -> Seq(Cmd)]
      /\ store \in [Txn -> Status \cup {"NONE"}]
  BY <1>1, <1>3 DEF TypeOK
<1>6. \A t \in Txn : NothingBehind(Tail(conn[hub]),
                                   IF SetsKey(c, t) THEN c.val ELSE store[t], t)
  BY <1>2, <1>3, <1>4, <1>5, BehindTail DEF FinalInv
<1>7. CASE StoreReply(r)
  <2>1. /\ c.op = "set" /\ store' = [store EXCEPT ![c.txn] = c.val]
        /\ conn'[hub] = Tail(conn[hub])
    BY <1>3, <1>4, <1>5, <1>7 DEF StoreReply, Outstanding
  <2>2. \A t \in Txn : store'[t] = IF SetsKey(c, t) THEN c.val ELSE store[t]
    BY <1>5, <2>1 DEF SetsKey
  <2> QED BY <1>6, <2>1, <2>2 DEF FinalInv
<1>8. CASE FraudLookupReply(r) \/ FraudCacheReply(r)
  <2>1. c.op # "set" /\ store' = store
    BY <1>4, <1>8 DEF FraudLookupReply, FraudCacheReply, Outstanding
  <2>2. \A t \in Txn : NothingBehind(Tail(conn[hub]), store[t], t)
    BY <1>6, <2>1 DEF SetsKey
  <2>3. CASE conn'[hub] = Tail(conn[hub])
    BY <2>1, <2>2, <2>3 DEF FinalInv
  <2>4. CASE conn'[hub] # Tail(conn[hub])
    <3>a. \/ conn' = [conn EXCEPT ![r] = Tail(conn[r])]
          \/ /\ c.by \in Slot /\ pc[c.by] \in {"fraudGet", "fraudCache"}
             /\ \E v \in Verdict : Decide(c.by, msg[c.by], v, Tail(conn[r]))
      BY <1>1, <1>4, <1>8, LookupSplit
    <3>1. PICK s \in Slot : /\ s = c.by /\ pc[s] \in {"fraudGet", "fraudCache"}
                           /\ \E v \in Verdict : Decide(s, msg[s], v, Tail(conn[r]))
      BY <1>3, <1>5, <2>4, <3>a
    <3>2. /\ msg[s] \in Msg /\ msg[s].txn \in Txn /\ msg[s].txn \notin settled /\ Home[s] = hub
      BY <1>1, <3>1, OnTheWay, WorkerOfMsg DEF SlotInv, SlotOK, SoleReplica
    <3>3. PICK v \in Verdict : Decide(s, msg[s], v, Tail(conn[hub]))
      BY <1>3, <3>1
    <3>4. PICK n \in Cmd : conn'[hub] = Append(Tail(conn[hub]), n) /\ n.txn = msg[s].txn
      <4>1. /\ conn' = [conn EXCEPT ![hub] =
                        Append(Tail(conn[hub]), Set(msg[s].txn, Written(msg[s].queue, v), s))]
            /\ Set(msg[s].txn, Written(msg[s].queue, v), s) \in Cmd
        BY <1>1, <1>3, <1>4, <3>2, <3>3, DecideSets
      <4> QED BY <1>3, <1>5, <4>1 DEF Set
    <3>5. NoneSettled(Tail(conn[hub]), store[msg[s].txn], msg[s].txn)
      BY <1>2, <1>3, <1>5, <3>2, NotYetSettled, NoneSettledTail
    <3> QED BY <1>3, <1>4, <2>1, <2>2, <3>4, <3>5, FinalIssued
  <2> QED BY <2>3, <2>4
<1> QED BY <1>7, <1>8 DEF RedisReply

LEMMA FinalAnswered ==
    ASSUME InductiveInv, NEW hub, SoleReplica(hub), OutcomeInv(hub), FinalInv(hub),
           NEW s \in Slot, HandlerStep(s)
    PROVE  FinalInv(hub)'
<1>1. TypeOK /\ SlotInv /\ SlotOK(s) /\ Home[s] = hub /\ hub \in Replica
  BY DEF InductiveInv, SoleReplica, SlotInv
<1>2. conn[hub] \in Seq(Cmd) /\ conn \in [Replica -> Seq(Cmd)]
  BY <1>1 DEF TypeOK
<1>3. \A t \in Txn : NothingBehind(conn[hub], store[t], t)
  BY DEF FinalInv
<1>4. pc[s] # "idle" => msg[s] \in Msg /\ msg[s].txn \in Txn /\ msg[s].queue \in Worker
  BY <1>1, WorkerOfMsg DEF SlotOK
<1>5. ASSUME NEW v \in Verdict, FraudServiceAnswers(s, v)
      PROVE  FinalInv(hub)'
  <2>1. PICK c \in Cmd : c.op # "set" /\ conn'[hub] = Append(conn[hub], c)
    <3>1. Cache(msg[s].txn, v, s) \in Cmd /\ Cache(msg[s].txn, v, s).op # "set"
      BY <1>4, <1>5 DEF FraudServiceAnswers, Cache, Cmd
    <3> QED BY <1>1, <1>2, <1>5, <3>1 DEF FraudServiceAnswers
  <2>2. store' = store
    BY <1>5 DEF FraudServiceAnswers
  <2> QED BY <1>2, <1>3, <2>1, <2>2, FinalIssued
<1>6. ASSUME NEW v \in Verdict, AcquirerAnswers(s, v) \/ SettlementAnswers(s)
      PROVE  FinalInv(hub)'
  <2>1. PICK w \in Verdict : Decide(s, msg[s], w, conn[hub])
    BY <1>1, <1>6 DEF AcquirerAnswers, SettlementAnswers, Verdict
  <2>2. pc[s] \in {"acquirer", "settle"} /\ store' = store
    BY <1>6 DEF AcquirerAnswers, SettlementAnswers
  <2>3. PICK c \in Cmd : /\ conn'[hub] = Append(conn[hub], c)
                         /\ c = Set(msg[s].txn, Written(msg[s].queue, w), s)
    <3>1. /\ conn' = [conn EXCEPT ![hub] =
                       Append(conn[hub], Set(msg[s].txn, Written(msg[s].queue, w), s))]
          /\ Set(msg[s].txn, Written(msg[s].queue, w), s) \in Cmd
      BY <1>1, <1>2, <1>4, <2>1, <2>2, DecideSets
    <3> QED BY <1>1, <1>2, <3>1
  <2>4. CASE pc[s] = "acquirer"
    <3>1. NoneSettled(conn[hub], store[msg[s].txn], msg[s].txn)
      BY <1>1, <1>4, <2>4, OnTheWay, NotYetSettled
    <3>2. c.txn = msg[s].txn
      BY <2>3 DEF Set
    <3> QED BY <1>2, <1>3, <2>2, <2>3, <3>1, <3>2, FinalIssued
  <2>5. CASE pc[s] = "settle"
    <3>1. c.val = "SETTLED"
      BY <1>1, <2>3, <2>5 DEF SlotOK, Set, Written
    <3> QED BY <1>2, <1>3, <2>2, <2>3, <3>1, FinalIssued
  <2> QED BY <2>2, <2>4, <2>5
<1>7. CASE Forward(s)
  <2>1. pc[s] = "publish" /\ store' = store /\ conn'[hub] = Trailing(msg[s], conn[hub])
    BY <1>1, <1>2, <1>7 DEF Forward
  <2>2. CASE msg[s].queue = "validation"
    <3>1. NoneSettled(conn[hub], store[msg[s].txn], msg[s].txn)
      BY <1>1, <1>4, <2>1, <2>2, OnTheWay, NotYetSettled
    <3>2. PICK c \in Cmd : conn'[hub] = Append(conn[hub], c) /\ c.txn = msg[s].txn
      <4>1. Set(msg[s].txn, "FAILED", None) \in Cmd
        BY <1>4, <2>1 DEF Set, Cmd, Status
      <4> QED BY <2>1, <2>2, <4>1 DEF Trailing, Set
    <3> QED BY <1>2, <1>3, <2>1, <3>1, <3>2, FinalIssued
  <2>3. CASE msg[s].queue # "validation"
    BY <1>3, <2>1, <2>3 DEF Trailing, FinalInv
  <2> QED BY <2>2, <2>3
<1>8. CASE ForwardThrows(s) \/ Notify(s) \/ Ack(s) \/ Nack(s)
  BY <1>8 DEF ForwardThrows, Notify, Ack, Nack, redis, FinalInv
<1> QED BY <1>5, <1>6, <1>7, <1>8 DEF HandlerStep, Verdict

\* A step writes over what is stored only when Redis answers.
LEMMA FinalStays ==
    ASSUME InductiveInv, NEW hub, SoleReplica(hub), OutcomeInv(hub), FinalInv(hub),
           MaxFaults = 0, [Next]_vars
    PROVE  /\ FinalInv(hub)'
           /\ \A t \in Txn : store[t] = "SETTLED" => store'[t] \in {"SETTLED", "REFUNDED"}
<1>1. ~Fault
  BY DEF Fault, OutcomeInv, Unharmed
<1>2. CASE UNCHANGED <<conn, store>>
  BY <1>2 DEF FinalInv
<1>3. ASSUME NEW s \in Slot, NEW m \in Msg, Deliver(s, m)
      PROVE  FinalInv(hub)' /\ store' = store
  BY <1>3, FinalDelivered
     DEF Deliver, DeliverValidation, DeliverFraudCheck, DeliverProcessing, DeliverSettlement, redis
<1>4. ASSUME NEW s \in Slot, HandlerStep(s)
      PROVE  FinalInv(hub)' /\ store' = store
  BY <1>4, FinalAnswered
     DEF HandlerStep, FraudServiceAnswers, AcquirerAnswers, SettlementAnswers, Forward,
         ForwardThrows, Notify, Ack, Nack, redis
<1>5. ASSUME NEW r \in Replica, RedisReply(r)
      PROVE  /\ FinalInv(hub)'
             /\ \A t \in Txn : store[t] = "SETTLED" => store'[t] = "SETTLED"
  <2>1. CASE store' = store
    BY <1>5, <2>1, FinalReplied
  <2>2. CASE StoreReply(r)
    <3>1. conn[r] # <<>> /\ store' = [store EXCEPT ![Head(conn[r]).txn] = Head(conn[r]).val]
          /\ Head(conn[r]).op = "set"
      BY <2>2 DEF StoreReply, Outstanding
    <3>2. r = hub /\ hub \in Replica
      BY <3>1 DEF OutcomeInv, Unharmed
    <3>3. conn[hub] \in Seq(Cmd) /\ store \in [Txn -> Status \cup {"NONE"}]
      BY <3>2 DEF InductiveInv, TypeOK
    <3>4. Head(conn[hub]) = conn[hub][1] /\ 1 \in 1 .. Len(conn[hub])
      BY <3>1, <3>2, <3>3, HeadTailProperties, EmptySeq, LenProperties
    <3>5. \A t \in Txn : store[t] = "SETTLED" => store'[t] = "SETTLED"
      BY <3>1, <3>2, <3>3, <3>4 DEF FinalInv, NothingBehind, SetsKey
    <3> QED BY <1>5, <3>5, FinalReplied
  <2>3. StoreReply(r) \/ store' = store
    BY <1>5 DEF RedisReply, FraudLookupReply, FraudCacheReply
  <2> QED BY <2>1, <2>2, <2>3
<1>6. ASSUME NEW r \in Replica
      PROVE  /\ ~Crash(r) /\ ~Disconnect(r)
             /\ ~RedisRefuses(r) /\ ~RedisRejects(r) /\ ~RedisResends(r)
             /\ Restart(r) \/ WindowElapses(r) => UNCHANGED <<conn, store>>
  BY <1>1 DEF Restart, Crash, Disconnect, RedisRefuses, RedisRejects, RedisResends,
              WindowElapses, redis
<1>7. \A t \in Txn : ~FraudResultExpires(t)
  BY <1>1 DEF FraudResultExpires
<1>8. \A s \in Slot, m \in Msg : Throttle(s, m) => UNCHANGED <<conn, store>>
  BY DEF Throttle, redis
<1>9. CASE UNCHANGED vars
  BY <1>2, <1>9 DEF vars, redis
<1> QED BY <1>2, <1>3, <1>4, <1>5, <1>6, <1>7, <1>8, <1>9 DEF Next

\* SettledIsFinal, which two replicas break (run settled_final), holds on one
\* replica without faults: no handler's write comes behind the settlement's.
THEOREM SettledStaysSettled ==
    ASSUME MaxFaults = 0, NEW hub, SoleReplica(hub)
    PROVE  Spec => SettledIsFinal
<1>1. Init => OutcomeInv(hub)
  BY OutcomeInit
<1>2. InductiveInv /\ OutcomeInv(hub) /\ [Next]_vars => OutcomeInv(hub)'
  BY OutcomeStays
<1>3. Init => FinalInv(hub)
  <2>1. \A i \in 1 .. Len(<<>>) : FALSE
    BY EmptySeq
  <2> QED BY <2>1 DEF Init, FinalInv, NothingBehind, SoleReplica
<1>4. InductiveInv /\ OutcomeInv(hub) /\ FinalInv(hub) /\ [Next]_vars => FinalInv(hub)'
  BY FinalStays
<1>5. InductiveInv /\ OutcomeInv(hub) /\ FinalInv(hub) /\ [Next]_vars
      => [\A t \in Txn : store[t] = "SETTLED" => store'[t] \in {"SETTLED", "REFUNDED"}]_store
  BY FinalStays
<1> QED BY <1>1, <1>2, <1>3, <1>4, <1>5, Invariance, PTL DEF Spec, SettledIsFinal

-----------------------------------------------------------------------------
(* No handler waits for a reply that cannot come *)

Awaited(q, s) == \E i \in 1 .. Len(q) : q[i].by = s

\* A handler that waits for Redis has its command outstanding on its replica.
NoHandlerHangs ==
    \A s \in Slot : pc[s] \in WaitingPC => Awaited(conn[Home[s]], s)

LEMMA AppendAwaited ==
    ASSUME NEW q \in Seq(Cmd), NEW c \in Cmd, NEW s, Awaited(q, s) \/ c.by = s
    PROVE  Awaited(Append(q, c), s)
<1>1. /\ Len(q) \in Nat /\ Len(Append(q, c)) = Len(q) + 1
      /\ Append(q, c)[Len(q) + 1] = c
      /\ \A i \in 1 .. Len(q) : Append(q, c)[i] = q[i]
  BY AppendProperties, LenProperties
<1>2. CASE Awaited(q, s)
  <2>1. PICK i \in 1 .. Len(q) : q[i].by = s
    BY <1>2 DEF Awaited
  <2>2. i \in 1 .. Len(Append(q, c))
    BY <1>1
  <2> QED BY <1>1, <2>1, <2>2 DEF Awaited
<1>3. CASE c.by = s
  <2>1. Len(q) + 1 \in 1 .. Len(Append(q, c))
    BY <1>1
  <2> QED BY <1>1, <1>3, <2>1 DEF Awaited
<1> QED BY <1>2, <1>3

LEMMA TailAwaited ==
    ASSUME NEW q \in Seq(Cmd), q # <<>>, NEW s, Awaited(q, s), Head(q).by # s
    PROVE  Awaited(Tail(q), s)
<1>1. /\ Len(q) \in Nat /\ Head(q) = q[1] /\ Len(Tail(q)) = Len(q) - 1
      /\ \A i \in 1 .. Len(Tail(q)) : Tail(q)[i] = q[i + 1]
  BY HeadTailProperties, EmptySeq, LenProperties
<1>2. PICK i \in 1 .. Len(q) : q[i].by = s
  BY DEF Awaited
<1>3. i # 1
  BY <1>1, <1>2
<1>4. i - 1 \in 1 .. Len(Tail(q)) /\ (i - 1) + 1 = i
  BY <1>1, <1>3
<1> QED BY <1>1, <1>2, <1>4 DEF Awaited

\* A step on the pipeline of r that concerns the handler s, or none.
LEMMA ServedStep ==
    ASSUME TypeOK, NoHandlerHangs, NEW r \in Replica, NEW s, NEW p \in Seq(Cmd),
           p = conn[r] \/ (conn[r] # <<>> /\ p = Tail(conn[r]) /\ Head(conn[r]).by \in {s, None}),
           conn'[r] = p \/ \E c \in Cmd : conn'[r] = Append(p, c),
           \A x \in Replica \ {r} : conn'[x] = conn[x],
           \A x \in Slot \ {s} : pc'[x] = pc[x],
           s \in Slot /\ pc'[s] \in WaitingPC => Awaited(conn'[Home[s]], s)
    PROVE  NoHandlerHangs'
<1> SUFFICES ASSUME NEW x \in Slot, pc'[x] \in WaitingPC
             PROVE  Awaited(conn'[Home[x]], x)
  BY DEF NoHandlerHangs
<1>1. CASE x = s
  BY <1>1
<1>2. CASE x # s
  <2>1. Awaited(conn[Home[x]], x) /\ Home[x] \in Replica /\ x # None
    BY <1>2, PipelineAssumption DEF NoHandlerHangs
  <2>2. CASE Home[x] # r
    BY <2>1, <2>2
  <2>3. CASE Home[x] = r
    <3>1. conn[r] \in Seq(Cmd)
      BY DEF TypeOK
    <3>2. Awaited(p, x)
      BY <1>2, <2>1, <2>3, <3>1, TailAwaited
    <3>3. \A c \in Cmd : Awaited(Append(p, c), x)
      BY <3>2, AppendAwaited
    <3> QED BY <2>3, <3>2, <3>3
  <2> QED BY <2>2, <2>3
<1> QED BY <1>1, <1>2

\* A handler that issues a command is served by it.
LEMMA IssuedServed ==
    ASSUME TypeOK, NoHandlerHangs, NEW s \in Slot, NEW c \in Cmd, c.by = s,
           NEW p \in Seq(Cmd),
           \/ p = conn[Home[s]]
           \/ conn[Home[s]] # <<>> /\ p = Tail(conn[Home[s]]) /\ Head(conn[Home[s]]).by = s,
           conn' = [conn EXCEPT ![Home[s]] = Append(p, c)],
           \A x \in Slot \ {s} : pc'[x] = pc[x]
    PROVE  NoHandlerHangs'
<1>1. Home[s] \in Replica /\ conn \in [Replica -> Seq(Cmd)]
  BY PipelineAssumption DEF TypeOK
<1>2. conn'[Home[s]] = Append(p, c) /\ \A x \in Replica \ {Home[s]} : conn'[x] = conn[x]
  BY <1>1
<1>3. Awaited(Append(p, c), s)
  BY AppendAwaited
<1>4. PICK r \in Replica : r = Home[s]
  BY <1>1
<1>5. /\ conn'[r] = p \/ \E d \in Cmd : conn'[r] = Append(p, d)
      /\ \A x \in Replica \ {r} : conn'[x] = conn[x]
      /\ s \in Slot /\ pc'[s] \in WaitingPC => Awaited(conn'[Home[s]], s)
      /\ p = conn[r] \/ (conn[r] # <<>> /\ p = Tail(conn[r]) /\ Head(conn[r]).by \in {s, None})
  BY <1>2, <1>3, <1>4
<1> QED BY <1>5, ServedStep

\* A decision leaves its handler with the command it has just issued.
LEMMA DecideServed ==
    ASSUME TypeOK, NoHandlerHangs, NEW s \in Slot, NEW m \in Msg, NEW v \in Verdict,
           NEW p \in Seq(Cmd), Decide(s, m, v, p),
           \/ p = conn[Home[s]]
           \/ conn[Home[s]] # <<>> /\ p = Tail(conn[Home[s]]) /\ Head(conn[Home[s]]).by = s
    PROVE  NoHandlerHangs'
<1> DEFINE c == Set(m.txn, Written(m.queue, v), s)
<1>1. /\ c \in Cmd /\ conn' = [conn EXCEPT ![Home[s]] = Append(p, c)]
      /\ \A x \in Slot \ {s} : pc'[x] = pc[x]
  BY DecideSets
<1>2. c.by = s
  BY DEF Set
<1> HIDE DEF c
<1> QED BY <1>1, <1>2, IssuedServed

LEMMA DeliverServed ==
    ASSUME InductiveInv, NoHandlerHangs, NEW s \in Slot, NEW m \in Msg, Deliver(s, m)
    PROVE  NoHandlerHangs'
<1>1. TypeOK /\ m.txn \in Txn /\ Home[s] \in Replica /\ conn \in [Replica -> Seq(Cmd)]
      /\ pc \in [Slot -> PC]
  BY WorkerOfMsg, PipelineAssumption DEF InductiveInv, TypeOK
<1>2. CASE DeliverValidation(s, m)
  <2>1. Validated(m.txn) \in Verdict
    BY DEF Validated, Verdict
  <2> QED BY <1>1, <1>2, <2>1, DecideServed DEF DeliverValidation
<1>3. CASE DeliverFraudCheck(s, m)
  <2>1. PICK c \in Cmd : c.by = s /\ conn' = [conn EXCEPT ![Home[s]] = Append(@, c)]
    <3>1. Get(m.txn, s) \in Cmd /\ Get(m.txn, s).by = s
      BY <1>1 DEF Get, Cmd
    <3> QED BY <1>3, <3>1 DEF DeliverFraudCheck
  <2>2. conn[Home[s]] \in Seq(Cmd) /\ \A x \in Slot \ {s} : pc'[x] = pc[x]
    BY <1>1, <1>3 DEF DeliverFraudCheck
  <2> QED BY <1>1, <2>1, <2>2, IssuedServed
<1>4. CASE DeliverProcessing(s, m) \/ DeliverSettlement(s, m)
  <2>1. conn' = conn /\ pc' = [pc EXCEPT ![s] = IF DeliverProcessing(s, m) THEN "acquirer" ELSE "settle"]
    BY <1>4 DEF DeliverProcessing, DeliverSettlement, redis
  <2>2. \A x \in Slot : pc'[x] \in WaitingPC => pc'[x] = pc[x]
    BY <1>1, <2>1 DEF WaitingPC
  <2> QED BY <2>1, <2>2 DEF NoHandlerHangs
<1> QED BY <1>2, <1>3, <1>4 DEF Deliver

LEMMA ReplyServed ==
    ASSUME InductiveInv, NoHandlerHangs, NEW r \in Replica, RedisReply(r) \/ RedisRefuses(r)
    PROVE  NoHandlerHangs'
<1>1. TypeOK /\ ConnInv /\ SlotInv /\ conn \in [Replica -> Seq(Cmd)] /\ pc \in [Slot -> PC]
  BY DEF InductiveInv, TypeOK
<1>2. conn[r] # <<>>
  BY DEF RedisReply, StoreReply, FraudLookupReply, FraudCacheReply, Outstanding, RedisRefuses
<1>3. PICK c \in Cmd : c = Head(conn[r]) /\ CmdAwaited(r, c) /\ Tail(conn[r]) \in Seq(Cmd)
  BY <1>1, <1>2, HeadIsOnly
<1>4. c.by \in Slot \cup {None}
  BY DEF Cmd
<1>5. ASSUME conn' = [conn EXCEPT ![r] = Tail(@)],
             \/ c.by = None /\ pc' = pc
             \/ c.by \in Slot /\ \E w \in PC \ WaitingPC : pc' = [pc EXCEPT ![c.by] = w]
      PROVE  NoHandlerHangs'
  <2>1. conn'[r] = Tail(conn[r]) /\ \A x \in Replica \ {r} : conn'[x] = conn[x]
    BY <1>1, <1>5
  <2>2. \A x \in Slot \ {c.by} : pc'[x] = pc[x]
    BY <1>1, <1>5
  <2>3. c.by \in Slot => pc'[c.by] \notin WaitingPC
    BY <1>1, <1>5, PipelineAssumption
  <2> QED BY <1>1, <1>2, <1>3, <2>1, <2>2, <2>3, ServedStep
<1>6. CASE StoreReply(r)
  <2>1. /\ c.op = "set" /\ conn' = [conn EXCEPT ![r] = Tail(@)]
        /\ pc' = IF c.by = None THEN pc
                 ELSE [pc EXCEPT ![c.by] = AfterStore(msg[c.by].queue, verdict[c.by])]
    BY <1>3, <1>6 DEF StoreReply, Outstanding
  <2>2. ASSUME c.by # None
        PROVE  AfterStore(msg[c.by].queue, verdict[c.by]) \in PC \ WaitingPC
    <3>1. PICK s \in Slot : s = c.by /\ pc[s] = "store" /\ SlotOK(s)
      BY <1>1, <1>3, <1>4, <2>1, <2>2 DEF CmdAwaited, Waiting, SlotInv
    <3>2. msg[s].queue \in Worker /\ verdict[s] \in Verdict
      BY <3>1, WorkerOfMsg DEF SlotOK, DecidedPC
    <3> QED BY <3>1, <3>2, AfterStorePC DEF PC, WaitingPC
  <2> QED BY <1>4, <1>5, <2>1, <2>2
<1>7. CASE RedisRefuses(r)
  <2>1. /\ conn' = [conn EXCEPT ![r] = Tail(@)]
        /\ pc' = IF c.by = None THEN pc ELSE [pc EXCEPT ![c.by] = "nack"]
    BY <1>3, <1>7 DEF RedisRefuses
  <2>2. "nack" \in PC \ WaitingPC
    BY DEF PC, WaitingPC
  <2> QED BY <1>4, <1>5, <2>1, <2>2
<1>8. CASE FraudLookupReply(r) \/ FraudCacheReply(r)
  <2>1. CASE c.by = None
    <3>1. UNCHANGED pc /\ conn' = [conn EXCEPT ![r] = Tail(conn[r])]
      BY <1>1, <1>3, <1>8, <2>1, LookupSplit
    <3> QED BY <1>5, <2>1, <3>1
  <2>2. CASE c.by # None
    <3>1. PICK s \in Slot : s = c.by /\ Home[s] = r /\ pc[s] \in {"fraudGet", "fraudCache"}
      BY <1>1, <1>3, <1>8, <2>2, LookupSplit
    <3>2. msg[s] \in Msg
      BY <1>1, <3>1 DEF SlotInv, SlotOK
    <3>3. \/ /\ pc' = [pc EXCEPT ![s] = "fraudCall"]
             /\ conn' = [conn EXCEPT ![r] = Tail(conn[r])]
          \/ \E v \in Verdict : Decide(s, msg[s], v, Tail(conn[r]))
      BY <1>1, <1>3, <1>8, <2>2, <3>1, LookupSplit
    <3>4. "fraudCall" \in PC \ WaitingPC
      BY DEF PC, WaitingPC
    <3>5. ASSUME NEW v \in Verdict, Decide(s, msg[s], v, Tail(conn[r]))
          PROVE  NoHandlerHangs'
      BY <1>1, <1>2, <1>3, <3>1, <3>2, <3>5, DecideServed
    <3> QED BY <1>5, <3>1, <3>3, <3>4, <3>5
  <2> QED BY <2>1, <2>2
<1> QED BY <1>6, <1>7, <1>8 DEF RedisReply

\* Whoever waited for a client that gives up waits no more.
LEMMA RejectServed ==
    ASSUME InductiveInv, NoHandlerHangs, NEW r \in Replica, RedisRejects(r)
    PROVE  NoHandlerHangs'
<1>1. TypeOK /\ conn \in [Replica -> Seq(Cmd)]
  BY DEF InductiveInv, TypeOK
<1>2. /\ \A x \in Slot : pc'[x] = IF x \in Awaiters(r) THEN "nack" ELSE pc[x]
      /\ \A x \in Replica \ {r} : conn'[x] = conn[x]
  BY <1>1 DEF RedisRejects
<1>3. ASSUME NEW x \in Slot, Awaited(conn[r], x)
      PROVE  x \in Awaiters(r)
  <2>1. x # None /\ conn[r] \in Seq(Cmd)
    BY <1>1, PipelineAssumption
  <2>2. PICK i \in 1 .. Len(conn[r]) : conn[r][i].by = x
    BY <1>3 DEF Awaited
  <2>3. i \in DOMAIN conn[r]
    BY <2>1, LenProperties
  <2> QED BY <2>1, <2>2, <2>3 DEF Awaiters
<1> SUFFICES ASSUME NEW x \in Slot, pc'[x] \in WaitingPC
             PROVE  Awaited(conn'[Home[x]], x)
  BY DEF NoHandlerHangs
<1>4. x \notin Awaiters(r) /\ pc[x] \in WaitingPC
  BY <1>2 DEF WaitingPC
<1>5. Awaited(conn[Home[x]], x) /\ Home[x] \in Replica
  BY <1>4, PipelineAssumption DEF NoHandlerHangs
<1> QED BY <1>2, <1>3, <1>4, <1>5

\* What is sent again is still there to be answered.
LEMMA ResendServed ==
    ASSUME InductiveInv, NoHandlerHangs, NEW r \in Replica, RedisResends(r)
    PROVE  NoHandlerHangs'
<1>1. TypeOK /\ ConnInv /\ conn \in [Replica -> Seq(Cmd)]
  BY DEF InductiveInv, TypeOK
<1>2. PICK n \in 1 .. Len(conn[r]) : conn' = [conn EXCEPT ![r] = Orphaned(r, n) \o @]
  BY DEF RedisResends
<1>3. /\ conn'[r] = Orphaned(r, n) \o conn[r] /\ pc' = pc
      /\ \A x \in Replica \ {r} : conn'[x] = conn[x]
  BY <1>1, <1>2 DEF RedisResends, handlers
<1>4. PICK q \in Seq(Cmd) : q = Orphaned(r, n)
  BY <1>1, OrphansOK
<1>5. PICK l \in Seq(Cmd) : l = conn[r]
  BY <1>1
<1>6. ASSUME NEW x, Awaited(l, x)
      PROVE  Awaited(q \o l, x)
  <2>1. PICK i \in 1 .. Len(l) : l[i].by = x
    BY <1>6 DEF Awaited
  <2>2. Len(q) \in Nat /\ Len(l) \in Nat
    BY LenProperties
  <2>3. /\ Len(q \o l) = Len(q) + Len(l)
        /\ \A j \in 1 .. Len(q) + Len(l) :
               (q \o l)[j] = IF j <= Len(q) THEN q[j] ELSE l[j - Len(q)]
    BY ConcatProperties
  <2>4. PICK k \in 1 .. Len(q \o l) : k = Len(q) + i
    BY <2>2, <2>3
  <2>5. k > Len(q) /\ k - Len(q) = i /\ k \in 1 .. Len(q) + Len(l)
    BY <2>2, <2>3, <2>4
  <2>6. (q \o l)[k] = l[i]
    BY <2>2, <2>3, <2>5
  <2> QED BY <2>1, <2>4, <2>6 DEF Awaited
<1> SUFFICES ASSUME NEW x \in Slot, pc'[x] \in WaitingPC
             PROVE  Awaited(conn'[Home[x]], x)
  BY DEF NoHandlerHangs
<1>7. Awaited(conn[Home[x]], x) /\ Home[x] \in Replica
  BY <1>3, PipelineAssumption DEF NoHandlerHangs
<1> QED BY <1>3, <1>4, <1>5, <1>6, <1>7

LEMMA AnswerServed ==
    ASSUME InductiveInv, NoHandlerHangs, NEW s \in Slot, HandlerStep(s)
    PROVE  NoHandlerHangs'
<1>1. /\ TypeOK /\ SlotOK(s) /\ Home[s] \in Replica
      /\ conn \in [Replica -> Seq(Cmd)] /\ pc \in [Slot -> PC]
  BY PipelineAssumption DEF InductiveInv, TypeOK, SlotInv
<1>2. pc[s] # "idle" => msg[s] \in Msg /\ msg[s].txn \in Txn /\ msg[s].queue \in Worker
  BY <1>1, WorkerOfMsg DEF SlotOK
<1>3. ASSUME NEW v \in Verdict, FraudServiceAnswers(s, v)
      PROVE  NoHandlerHangs'
  <2>1. PICK c \in Cmd : c.by = s /\ conn' = [conn EXCEPT ![Home[s]] = Append(@, c)]
    <3>1. Cache(msg[s].txn, v, s) \in Cmd /\ Cache(msg[s].txn, v, s).by = s
      BY <1>2, <1>3 DEF FraudServiceAnswers, Cache, Cmd
    <3> QED BY <1>3, <3>1 DEF FraudServiceAnswers
  <2>2. conn[Home[s]] \in Seq(Cmd) /\ \A x \in Slot \ {s} : pc'[x] = pc[x]
    BY <1>1, <1>3 DEF FraudServiceAnswers
  <2> QED BY <1>1, <2>1, <2>2, IssuedServed
<1>4. ASSUME NEW v \in Verdict, AcquirerAnswers(s, v) PROVE NoHandlerHangs'
  BY <1>1, <1>2, <1>4, DecideServed DEF AcquirerAnswers
<1>5. CASE SettlementAnswers(s)
  BY <1>1, <1>2, <1>5, DecideServed DEF SettlementAnswers, Verdict
<1>6. CASE Forward(s)
  <2>1. /\ conn' = [conn EXCEPT ![Home[s]] = Trailing(msg[s], @)]
        /\ pc' = [pc EXCEPT ![s] = AfterPublish(msg[s].queue)] /\ pc[s] = "publish"
    BY <1>6 DEF Forward
  <2>2. AfterPublish(msg[s].queue) \notin WaitingPC
    BY DEF AfterPublish, WaitingPC
  <2>3. Set(msg[s].txn, "FAILED", None) \in Cmd
    BY <1>2, <2>1 DEF Set, Cmd, Status
  <2>4. /\ conn'[Home[s]] = conn[Home[s]]
              \/ \E c \in Cmd : conn'[Home[s]] = Append(conn[Home[s]], c)
        /\ \A x \in Replica \ {Home[s]} : conn'[x] = conn[x]
        /\ \A x \in Slot \ {s} : pc'[x] = pc[x]
        /\ pc'[s] \notin WaitingPC
    BY <1>1, <2>1, <2>2, <2>3 DEF Trailing
  <2>5. conn[Home[s]] \in Seq(Cmd)
    BY <1>1
  <2>6. PICK r \in Replica, p \in Seq(Cmd) : r = Home[s] /\ p = conn[r]
    BY <1>1, <2>5
  <2>7. /\ conn'[r] = p \/ \E c \in Cmd : conn'[r] = Append(p, c)
        /\ \A x \in Replica \ {r} : conn'[x] = conn[x]
    BY <2>4, <2>6
  <2> QED BY <1>1, <2>4, <2>6, <2>7, ServedStep
<1>7. CASE ForwardThrows(s) \/ Notify(s) \/ Ack(s) \/ Nack(s)
  <2>1. conn' = conn /\ \E w \in {"idle", "ack"} : pc' = [pc EXCEPT ![s] = w]
    BY <1>7 DEF ForwardThrows, Notify, Ack, Nack, Release, redis
  <2>2. \A x \in Slot : pc'[x] \in WaitingPC => pc'[x] = pc[x]
    BY <1>1, <2>1 DEF WaitingPC
  <2> QED BY <2>1, <2>2 DEF NoHandlerHangs
<1> QED BY <1>3, <1>4, <1>5, <1>6, <1>7 DEF HandlerStep

LEMMA ServedStays ==
    ASSUME InductiveInv, NoHandlerHangs, [Next]_vars
    PROVE  NoHandlerHangs'
<1>1. CASE UNCHANGED <<pc, conn>>
  BY <1>1 DEF NoHandlerHangs
<1>2. ASSUME NEW s \in Slot, NEW m \in Msg, Throttle(s, m) PROVE UNCHANGED <<pc, conn>>
  BY <1>2 DEF Throttle, handlers, redis
<1>3. ASSUME NEW r \in Replica, Restart(r) \/ WindowElapses(r) \/ Disconnect(r)
      PROVE  UNCHANGED <<pc, conn>>
  BY <1>3 DEF Restart, WindowElapses, Disconnect, handlers, redis
<1>4. ASSUME NEW t \in Txn, FraudResultExpires(t) PROVE UNCHANGED <<pc, conn>>
  BY <1>4 DEF FraudResultExpires, handlers
<1>5. ASSUME NEW r \in Replica, Crash(r) PROVE NoHandlerHangs'
  <2>1. \A x \in Slot : pc'[x] = IF Home[x] = r THEN "idle" ELSE pc[x]
    BY <1>5 DEF Crash, OnReplica
  <2>2. \A x \in Slot : Home[x] # r => conn'[Home[x]] = conn[Home[x]]
    BY <1>5, PipelineAssumption DEF Crash, InductiveInv, TypeOK
  <2> QED BY <2>1, <2>2 DEF NoHandlerHangs, WaitingPC
<1>6. CASE UNCHANGED vars
  BY <1>1, <1>6 DEF vars, handlers, redis
<1> QED BY <1>1, <1>2, <1>3, <1>4, <1>5, <1>6, DeliverServed, ReplyServed, RejectServed,
           ResendServed, AnswerServed DEF Next

\* Whatever crashes, disconnects or fails, a handler that awaits Redis has its
\* command outstanding on its replica's client: with PaymentsFinish, which runs
\* check under fairness, this is what keeps a delivery from being held for ever.
THEOREM HandlersDoNotHang == Spec => []NoHandlerHangs
<1>1. Init => NoHandlerHangs
  BY DEF Init, NoHandlerHangs, WaitingPC
<1>2. InductiveInv /\ NoHandlerHangs /\ [Next]_vars => NoHandlerHangs'
  BY ServedStays
<1> QED BY <1>1, <1>2, Invariance, PTL DEF Spec
=============================================================================
