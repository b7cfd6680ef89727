-------------------------- MODULE SagaOrchestrator --------------------------
(***************************************************************************)
(* SagaOrchestrator of the transaction processor: executeSaga() for one    *)
(* transaction, by several callers at once.  Every step ends in a SET of   *)
(* the whole transaction, built from what the execution carries and not    *)
(* from what is stored.  A step that throws starts the compensation, from  *)
(* that step down; errors of compensations are swallowed.                  *)
(*                                                                         *)
(* Names that other modules use too carry the prefix Saga.                 *)
(***************************************************************************)
EXTENDS Naturals, FiniteSets, Sequences

CONSTANTS Execution,    \* calls of executeSaga for the transaction
          NoExecution,
          MaxLosses     \* bound: SETs that raise, and crashes

ASSUME SagaAssumption ==
    /\ NoExecution \notin Execution
    /\ MaxLosses \in Nat

VARIABLES
    mode,       \* where each execution is
    step,       \* index of its step, from 1
    carried,    \* status of its currentTxn
    stored,     \* status under the key txn:<id>
    writer,     \* history: whose SET that was
    entry,      \* the execution whose saga the Map sagas holds
    wrote,      \* history: statuses each execution has stored
    swallowed,  \* history: steps whose compensation raised
    losses      \* SETs that raised, and crashes, so far

sagaVars == <<mode, step, carried, stored, writer, entry, wrote, swallowed, losses>>

SagaInit ==
    /\ mode = [x \in Execution |-> "new"]
    /\ step = [x \in Execution |-> 1]
    /\ carried = [x \in Execution |-> "PENDING"]
    /\ stored = "PENDING"
    /\ writer = NoExecution
    /\ entry = NoExecution
    /\ wrote = [x \in Execution |-> {}]
    /\ swallowed = [x \in Execution |-> {}]
    /\ losses = 0

-----------------------------------------------------------------------------

\* The four steps, validate, fraud_check, process and notify: what the state
\* machine is asked for, what the step stores and what its compensation does.
Steps ==
    <<[asks |-> "VALIDATING", does |-> "VALIDATING", undo |-> "CANCELLED"],
      [asks |-> "FRAUD_CHECK", does |-> "FRAUD_CHECK", undo |-> "DECLINED"],
      [asks |-> "PROCESSING", does |-> "APPROVED", undo |-> "REFUNDED"],
      [asks |-> "none", does |-> "SETTLED", undo |-> "none"]>>

\* The state machine's answer to what the steps ask for; a status is always
\* reached from itself.
MayTransition(from, asked) ==
    \/ asked \in {"none", from}
    \/ <<from, asked>> \in {<<"PENDING", "VALIDATING">>, <<"VALIDATING", "FRAUD_CHECK">>,
                            <<"FRAUD_CHECK", "PROCESSING">>}

\* A SET: it succeeds, or raises having been applied or not.
Store(x, status) ==
    /\ stored' = status
    /\ writer' = x
    /\ wrote' = [wrote EXCEPT ![x] = @ \cup {status}]

StoreRaises(x, status) ==
    /\ losses < MaxLosses
    /\ losses' = losses + 1
    /\ Store(x, status) \/ UNCHANGED <<stored, writer, wrote>>

\* The caller passes the transaction as it finds it.
SagaStart(x) ==
    /\ mode[x] = "new"
    /\ mode' = [mode EXCEPT ![x] = "forward"]
    /\ carried' = [carried EXCEPT ![x] = stored]
    /\ entry' = x
    /\ UNCHANGED <<step, stored, writer, wrote, swallowed, losses>>

\* The execution leaves with its result; the entry goes, whosever it is.
Leave(x, result) ==
    /\ mode' = [mode EXCEPT ![x] = result]
    /\ entry' = NoExecution

StepSucceeds(x) ==
    /\ mode[x] = "forward"
    /\ MayTransition(carried[x], Steps[step[x]].asks)
    /\ Store(x, Steps[step[x]].does)
    /\ carried' = [carried EXCEPT ![x] = Steps[step[x]].does]
    /\ IF step[x] < Len(Steps)
       THEN step' = [step EXCEPT ![x] = @ + 1] /\ UNCHANGED <<mode, entry>>
       ELSE Leave(x, "completed") /\ UNCHANGED step
    /\ UNCHANGED <<swallowed, losses>>

\* A refused transition, a fraud score over 0.85, or a SET that raises.
StepFails(x) ==
    /\ mode[x] = "forward"
    /\ \/ /\ \/ ~MayTransition(carried[x], Steps[step[x]].asks)
             \/ Steps[step[x]].asks = "FRAUD_CHECK"
          /\ UNCHANGED <<stored, writer, wrote, losses>>
       \/ /\ MayTransition(carried[x], Steps[step[x]].asks)
          /\ StoreRaises(x, Steps[step[x]].does)
    /\ mode' = [mode EXCEPT ![x] = "backward"]
    /\ UNCHANGED <<step, carried, entry, swallowed>>

\* A slip: the loop ends before the first step.
StepsBackLessOne(x) == step[x] > 2
StepsBack(x) == step[x] > 1

Compensate(x) ==
    /\ mode[x] = "backward"
    /\ LET undo == Steps[step[x]].undo
       IN \/ /\ undo = "none"
             /\ UNCHANGED <<stored, writer, wrote, carried, swallowed, losses>>
          \/ /\ undo # "none"
             /\ Store(x, undo)
             /\ carried' = [carried EXCEPT ![x] = undo]
             /\ UNCHANGED <<swallowed, losses>>
          \/ /\ undo # "none"
             /\ StoreRaises(x, undo)
             /\ swallowed' = [swallowed EXCEPT ![x] = @ \cup {undo}]
             /\ UNCHANGED carried
    /\ IF StepsBack(x)
       THEN step' = [step EXCEPT ![x] = @ - 1] /\ UNCHANGED <<mode, entry>>
       ELSE Leave(x, "failed") /\ UNCHANGED step

\* The process dies with its executions and their entries; nothing resumes
\* them.
SagaCrash ==
    /\ losses < MaxLosses
    /\ losses' = losses + 1
    /\ mode' = [x \in Execution |->
                   IF mode[x] \in {"forward", "backward"} THEN "dead" ELSE mode[x]]
    /\ entry' = NoExecution
    /\ UNCHANGED <<step, carried, stored, writer, wrote, swallowed>>

SagaStep(x) == StepSucceeds(x) \/ StepFails(x) \/ Compensate(x)

SagaNext ==
    \/ \E x \in Execution : SagaStart(x) \/ SagaStep(x)
    \/ SagaCrash

SagaSpec == SagaInit /\ [][SagaNext]_sagaVars

\* A step returns or throws: timers fire and Redis commands come back.
SagaFairness == WF_sagaVars(\E x \in Execution : SagaStep(x))

-----------------------------------------------------------------------------

SagaStatus == {"PENDING"} \cup ({Steps[i].does : i \in 1 .. 4} \cup {Steps[i].undo : i \in 1 .. 3})

SagaTypeOK ==
    /\ mode \in [Execution -> {"new", "forward", "backward", "completed", "failed", "dead"}]
    /\ step \in [Execution -> 1 .. 4]
    /\ carried \in [Execution -> SagaStatus]
    /\ stored \in SagaStatus
    /\ writer \in Execution \cup {NoExecution}
    /\ entry \in Execution \cup {NoExecution}
    /\ wrote \in [Execution -> SUBSET SagaStatus]
    /\ swallowed \in [Execution -> SUBSET SagaStatus]
    /\ losses \in 0 .. MaxLosses

\* A saga that completed has authorised and settled, and where nobody wrote
\* after it the transaction is SETTLED.
Completed(x) ==
    /\ {"APPROVED", "SETTLED"} \subseteq wrote[x]
    /\ writer = x => stored = "SETTLED"

\* A saga that failed has refunded what it had authorised, and where nobody
\* wrote after it the transaction is CANCELLED, the compensation of the first
\* step being the last, unless the SET in question raised.
Compensated(x) ==
    /\ "APPROVED" \in wrote[x] => "REFUNDED" \in wrote[x] \cup swallowed[x]
    /\ writer = x => stored = "CANCELLED" \/ "CANCELLED" \in swallowed[x]

\* How sagas end, whatever other executions of the transaction do meanwhile;
\* and the Map keeps nothing of those that have ended.
SagaOutcome ==
    /\ \A x \in Execution : mode[x] = "completed" => Completed(x)
    /\ \A x \in Execution : mode[x] = "failed" => Compensated(x)
    /\ entry # NoExecution => mode[entry] \in {"forward", "backward"}

\* The sagas of a living process are completed or compensated to the last step.
SagasEnded == \A x \in Execution : mode[x] \notin {"forward", "backward"}
=============================================================================
