----------------------------- MODULE MCServices -----------------------------
(***************************************************************************)
(* The components that share nothing, checked side by side in one run: the *)
(* fraud analysis, the gateway's webhooks and circuit breaker, the saga    *)
(* orchestrator, the start and the reconnecting of two services and the    *)
(* parser's algorithms.  A behaviour is of one part, and the variables of  *)
(* the others rest.                                                        *)
(***************************************************************************)
EXTENDS BankStatementParser, CircuitBreaker, FraudDetection, WebhookDelivery,
        SagaOrchestrator, NotificationConnection, ProcessorStart

MCAmount == [p1 |-> 15, p2 |-> 60]
MCPayment == DOMAIN MCAmount
MCLocation == [p1 |-> "home", p2 |-> "abroad"]
MCSubscribed == [h1 |-> {"created", "captured", "refunded"},
                 h2 |-> {"created", "cancelled"}]
MCHook == DOMAIN MCSubscribed

VARIABLES part,    \* the component this behaviour is about
          input    \* what the parser is given

services == <<part, input, breakerVars, fraudVars, hookVars, sagaVars,
              linkVars, podVars>>

Words == UNION {[1 .. n -> {"a", "b"}] : n \in 0 .. 3}

NoInput == [kind |-> "none"]
Inputs == [kind : {"words"}, first : Words, second : Words]
              \cup [kind : {"tags"}, first : TagOrders, second : TagOrders]

Init ==
    /\ \/ /\ part \in {"breaker", "fraud", "webhooks", "saga", "link", "pods"}
          /\ input = NoInput
       \/ part = "parser" /\ input \in Inputs
    /\ part # "fraud" => client = "none"
    /\ BreakerInit
    /\ FraudInit
    /\ HookInit
    /\ SagaInit
    /\ LinkInit
    /\ PodInit

Next ==
    /\ UNCHANGED <<part, input>>
    /\ part # "breaker" => UNCHANGED breakerVars
    /\ part # "fraud" => UNCHANGED fraudVars
    /\ part # "webhooks" => UNCHANGED hookVars
    /\ part # "saga" => UNCHANGED sagaVars
    /\ part # "link" => UNCHANGED linkVars
    /\ part # "pods" => UNCHANGED podVars
    /\ \/ part = "breaker" /\ BreakerNext
       \/ part = "fraud" /\ FraudNext
       \/ part = "webhooks" /\ HookNext
       \/ part = "saga" /\ SagaNext
       \/ part = "link" /\ LinkNext
       \/ part = "pods" /\ PodNext

\* Nothing of a part that rests is enabled: its fairness asks nothing.
Spec == Init /\ [][Next]_services /\ FraudFairness /\ HookFairness /\ SagaFairness

-----------------------------------------------------------------------------

\* Every component's variables keep their types.
ServicesTypeOK ==
    BreakerTypeOK /\ FraudTypeOK /\ HookTypeOK /\ SagaTypeOK /\ LinkTypeOK /\ PodTypeOK

\* Again and again everything has ended that had begun: every analysis is
\* answered, every notification ends and so does every saga, unless its process
\* dies.
ServicesEnd == []<>(PaymentsAnswered /\ NotificationsEnded /\ SagasEnded)

\* The table of the dynamic program computes the least number of insertions,
\* deletions and substitutions that turn one text into the other.
LevenshteinIsEditDistance ==
    input.kind = "words" => DistanceIsLeastEdits(input.first, input.second)

\* In a file of two complete entries, every statement has the reference, the
\* amount and the date of one entry, whatever the order of the tags, and a memo
\* strays to the next statement only if it is the last tag of its entry.
OFXEntriesKeepTogether ==
    input.kind = "tags" =>
        EntriesKeepTogether(<<input.first, input.second>>, <<"s1", "s2">>)
=============================================================================
