---------------------------- MODULE ProcessorStart ----------------------------
(***************************************************************************)
(* The life of transaction-processor pods on one broker: main() connects,  *)
(* opens its channel, declares the topology and starts the four consumers, *)
(* one awaited command after the other; connect() is called again by the   *)
(* close handler of the connection; a failure before the end of main()     *)
(* exits.                                                                  *)
(*                                                                         *)
(* Operators carry the prefix Pod: MCServices puts this module beside      *)
(* others.                                                                 *)
(***************************************************************************)
EXTENDS Naturals, SequencesExt

CONSTANTS Pod,          \* replicas of the transaction processor
          MaxAttempts,  \* config.rabbitmq.maxReconnectAttempts
          MaxBreaks     \* bound: commands that fail, connections lost, exits

ASSUME PodAssumption == MaxAttempts \in Nat \ {0} /\ MaxBreaks \in Nat

-----------------------------------------------------------------------------
(* The topology; every queue is bound by its own name *)

EXCHANGES == <<"payments.topic", "payments.dlx">>

QUEUES == <<"validation", "fraud_check", "processing", "settlement",
            "validation.dlq", "processing.dlq", "settlement.dlq", "fraud_check.dlq",
            "priority", "delayed">>

Bindings ==
    <<<<"validation", "payments.topic">>, <<"fraud_check", "payments.topic">>,
      <<"processing", "payments.topic">>, <<"settlement", "payments.topic">>,
      <<"priority", "payments.topic">>, <<"delayed", "payments.topic">>,
      <<"validation.dlq", "payments.dlx">>, <<"processing.dlq", "payments.dlx">>,
      <<"settlement.dlq", "payments.dlx">>, <<"fraud_check.dlq", "payments.dlx">>>>

Each(kind, s) == [i \in 1 .. Len(s) |-> [do |-> kind, of |-> s[i]]]

setupQueueTopology ==
    Each("exchange", EXCHANGES) \o Each("queue", QUEUES) \o Each("bind", Bindings)

Workers == <<"validation", "fraud_check", "processing", "settlement">>

\* A slip: the workers are started before the topology is declared.
MainWorkersFirst == Each("consume", Workers) \o setupQueueTopology

\* What main() awaits one after the other once it has its channel.
Main == setupQueueTopology \o Each("consume", Workers)

\* Where the worker of each queue publishes, by routing key and exchange.
Publishes(q) ==
    CASE q = "validation" -> {<<"fraud_check", "payments.topic">>, <<"validation", "payments.topic">>,
                              <<"validation.dlq", "payments.dlx">>}
      [] q = "fraud_check" -> {<<"processing", "payments.topic">>}
      [] q = "processing" -> {<<"settlement", "payments.topic">>}
      [] q = "settlement" -> {<<"settlement", "payments.topic">>,
                              <<"settlement.dlq", "payments.dlx">>}

-----------------------------------------------------------------------------

VARIABLES
    pod,        \* main() of each: "down", "connect", "channel", "commands", "serving"
    done,       \* commands of Main that were answered
    calls,      \* calls of connect() under way
    conns,      \* open connections
    attempts,   \* reconnectAttempts
    consuming,  \* queues its consumers get deliveries from
    declared,   \* what the broker knows
    breaks      \* faults so far

podVars == <<pod, done, calls, conns, attempts, consuming, declared, breaks>>

PodInit ==
    /\ pod = [p \in Pod |-> "down"]
    /\ done = [p \in Pod |-> 0]
    /\ calls = [p \in Pod |-> 0]
    /\ conns = [p \in Pod |-> 0]
    /\ attempts = [p \in Pod |-> 0]
    /\ consuming = [p \in Pod |-> {}]
    /\ declared = {}
    /\ breaks = 0

PodStarts(p) ==
    /\ pod[p] = "down"
    /\ pod' = [pod EXCEPT ![p] = "connect"]
    /\ calls' = [calls EXCEPT ![p] = 1]
    /\ UNCHANGED <<done, conns, attempts, consuming, declared, breaks>>

\* process.exit(), in the pods of P: whatever was under way ends.
Exit(P) ==
    /\ pod' = [p \in Pod |-> IF p \in P THEN "down" ELSE pod[p]]
    /\ done' = [p \in Pod |-> IF p \in P THEN 0 ELSE done[p]]
    /\ attempts' = [p \in Pod |-> IF p \in P THEN 0 ELSE attempts[p]]

-----------------------------------------------------------------------------
(* connect() *)

\* After a reconnection nobody opens a channel.
PodConnects(p) ==
    /\ calls[p] > 0
    /\ calls' = [calls EXCEPT ![p] = @ - 1]
    /\ conns' = [conns EXCEPT ![p] = @ + 1]
    /\ attempts' = [attempts EXCEPT ![p] = 0]
    /\ pod' = [pod EXCEPT ![p] = IF @ = "connect" THEN "channel" ELSE @]
    /\ UNCHANGED <<done, consuming, declared, breaks>>

\* The last attempt's error ends a starting pod; behind a close handler it is
\* only logged.
PodConnectFails(p) ==
    /\ calls[p] > 0
    /\ IF attempts[p] + 1 < MaxAttempts
       THEN /\ attempts' = [attempts EXCEPT ![p] = @ + 1]
            /\ UNCHANGED <<pod, done, calls>>
       ELSE /\ calls' = [calls EXCEPT ![p] = @ - 1]
            /\ IF pod[p] = "connect" THEN Exit({p})
               ELSE /\ attempts' = [attempts EXCEPT ![p] = @ + 1]
                    /\ UNCHANGED <<pod, done>>
    /\ UNCHANGED <<conns, consuming, declared, breaks>>

-----------------------------------------------------------------------------
(* main() *)

PodOpensChannel(p) ==
    /\ pod[p] = "channel"
    /\ pod' = [pod EXCEPT ![p] = "commands"]
    /\ UNCHANGED <<done, calls, conns, attempts, consuming, declared, breaks>>

PodCommand(p) ==
    /\ pod[p] = "commands"
    /\ done' = [done EXCEPT ![p] = @ + 1]
    /\ LET c == Main[done[p] + 1] IN
         IF c.do = "consume"
         THEN consuming' = [consuming EXCEPT ![p] = @ \cup {c.of}] /\ UNCHANGED declared
         ELSE declared' = declared \cup {c} /\ UNCHANGED consuming
    /\ pod' = [pod EXCEPT ![p] = IF done[p] + 1 = Len(Main) THEN "serving" ELSE @]
    /\ UNCHANGED <<calls, conns, attempts, breaks>>

-----------------------------------------------------------------------------
(* Faults *)

Break == breaks < MaxBreaks /\ breaks' = breaks + 1

\* The pod dies, is told to stop, or a command of main() fails.
PodEnds(p) ==
    /\ pod[p] # "down"
    /\ Break
    /\ Exit({p})
    /\ calls' = [calls EXCEPT ![p] = 0]
    /\ conns' = [conns EXCEPT ![p] = 0]
    /\ consuming' = [consuming EXCEPT ![p] = {}]
    /\ UNCHANGED declared

\* A slip: the handler of the connection's errors reconnects like that of its
\* close.
HandlersTwo == 2
Handlers == 1

\* The pods of P lose their connection.  A command under way fails, and the pod
\* with it; one that serves calls connect() again.
Lose(P) ==
    LET hit == {p \in P : conns[p] > 0}
        over == {p \in hit : pod[p] \in {"channel", "commands"}}
    IN /\ Exit(over)
       /\ conns' = [p \in Pod |-> IF p \in over THEN 0
                                  ELSE IF p \in hit THEN conns[p] - 1 ELSE conns[p]]
       /\ calls' = [p \in Pod |-> IF p \in over THEN 0
                                  ELSE IF p \in hit THEN calls[p] + Handlers ELSE calls[p]]
       /\ consuming' = [p \in Pod |-> IF p \in hit THEN {} ELSE consuming[p]]

PodLoses(p) ==
    /\ conns[p] > 0
    /\ Break
    /\ Lose({p})
    /\ UNCHANGED declared

\* The broker closes the channel of a pod that serves: the handler logs it.
PodDeafens(p) ==
    /\ pod[p] = "serving"
    /\ conns[p] > 0
    /\ Break
    /\ consuming' = [consuming EXCEPT ![p] = {}]
    /\ UNCHANGED <<pod, done, calls, conns, attempts, declared>>

\* The broker's pod has no volume: another one begins empty.
BrokerReplaced ==
    /\ Break
    /\ Lose(Pod)
    /\ declared' = {}

PodNext ==
    \/ \E p \in Pod : \/ PodStarts(p) \/ PodConnects(p) \/ PodConnectFails(p)
                      \/ PodOpensChannel(p) \/ PodCommand(p) \/ PodEnds(p) \/ PodLoses(p)
                      \/ PodDeafens(p)
    \/ BrokerReplaced

PodSpec == PodInit /\ [][PodNext]_podVars

-----------------------------------------------------------------------------

PodTypeOK ==
    /\ pod \in [Pod -> {"down", "connect", "channel", "commands", "serving"}]
    /\ done \in [Pod -> 0 .. Len(Main)]
    /\ calls \in [Pod -> Nat]
    /\ conns \in [Pod -> Nat]
    /\ attempts \in [Pod -> 0 .. MaxAttempts]
    /\ consuming \in [Pod -> SUBSET ToSet(Workers)]
    /\ declared \subseteq {c \in ToSet(Main) : c.do # "consume"}
    /\ breaks \in 0 .. MaxBreaks

Routed(b) ==
    /\ [do |-> "exchange", of |-> b[2]] \in declared
    /\ [do |-> "queue", of |-> b[1]] \in declared
    /\ [do |-> "bind", of |-> b] \in declared

\* A worker gets deliveries only where the broker has what it may publish to,
\* whichever pods start, lose their connections or find another broker: RabbitMQ
\* drops a message it cannot route.
ConsumersRouted == \A p \in Pod : \A q \in consuming[p] : \A b \in Publishes(q) : Routed(b)

\* A pod has one connection, or one call of connect() to get it, or has tried
\* as often as it may; never two.
OneLink ==
    \A p \in Pod : \/ pod[p] = "down" /\ calls[p] + conns[p] = 0
                   \/ pod[p] # "down" /\ calls[p] + conns[p] = 1
                   \/ pod[p] = "serving" /\ calls[p] + conns[p] = 0 /\ attempts[p] >= MaxAttempts
=============================================================================
