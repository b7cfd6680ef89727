------------------------- MODULE PaymentPipelineInv -------------------------
(***************************************************************************)
(* The inductive invariant behind the safety properties of                 *)
(* PaymentPipeline: what a message, a handler, an outstanding Redis command*)
(* and a cached fraud decision each tell about the payment's history.      *)
(***************************************************************************)
EXTENDS PaymentPipeline

\* What must have happened to t before a message about it is in queue q.
Earned(q, t) ==
    /\ q = "fraud_check" => t \in ValidTxn
    /\ q = "processing" => t \in cleared
    /\ q = "settlement" => t \in Lifecycle!Charged

\* What must have happened to t once worker q has taken branch v.
Supported(q, v, t) ==
    /\ q = "validation" /\ v = "accept" => t \in ValidTxn
    /\ q = "fraud_check" /\ v = "accept" => t \in cleared
    /\ q = "processing" /\ v = "accept" => t \in Lifecycle!Charged
    /\ q = "settlement" => t \in settled

QueueInv == \A m \in Msg : ready[m] > 0 => Earned(m.queue, m.txn)

FraudPC   == {"fraudGet", "fraudCall", "fraudCache"}
DecidedPC == {"store", "publish", "notify", "ack"}

\* A handler at work on s has a message that earned its queue, waits where its
\* worker can wait, and after its decision has what the decision stands for.
SlotOK(s) ==
    /\ pc[s] = "idle" => ~held[s]
    /\ pc[s] # "idle" => msg[s] \in Msg /\ Earned(msg[s].queue, msg[s].txn)
    /\ pc[s] \in FraudPC => msg[s].queue = "fraud_check"
    /\ pc[s] = "acquirer" => msg[s].queue = "processing"
    /\ pc[s] = "settle" => msg[s].queue = "settlement"
    /\ pc[s] \in DecidedPC => /\ verdict[s] \in Verdict
                              /\ Supported(msg[s].queue, verdict[s], msg[s].txn)
    /\ pc[s] = "publish" => ~Terminal(msg[s].queue, verdict[s])

SlotInv == \A s \in Slot : SlotOK(s)

\* What an outstanding command will store is already justified.
CmdJustified(c) ==
    /\ c.op = "set" => Lifecycle!Justified(c.txn, c.val)
    /\ c.op = "cache" /\ c.val = "accept" => c.txn \in cleared

Waiting(op) ==
    CASE op = "set" -> "store" [] op = "get" -> "fraudGet" [] op = "cache" -> "fraudCache"

\* The handler a command belongs to runs on the same replica and awaits it.
CmdAwaited(r, c) ==
    c.by # None => /\ Home[c.by] = r
                   /\ pc[c.by] = Waiting(c.op)
                   /\ msg[c.by].txn = c.txn

\* A handler has one command outstanding at most.
OneEach(q) ==
    \A i, j \in 1 .. Len(q) : i # j /\ q[i].by # None => q[i].by # q[j].by

ConnOK(r, q) ==
    /\ \A i \in 1 .. Len(q) : CmdJustified(q[i]) /\ CmdAwaited(r, q[i])
    /\ OneEach(q)

ConnInv == \A r \in Replica : ConnOK(r, conn[r])

CacheInv == \A t \in Txn : fraudCache[t] = "accept" => t \in cleared

LedgerInv == MilestonesInOrder /\ StoreTellsNoLie

\* All of it together is preserved by every step.
InductiveInv ==
    TypeOK /\ QueueInv /\ SlotInv /\ ConnInv /\ CacheInv /\ LedgerInv
=============================================================================
