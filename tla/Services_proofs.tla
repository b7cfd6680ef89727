--------------------------- MODULE Services_proofs ---------------------------
(***************************************************************************)
(* Proofs about the components that MCServices checks side by side: for the*)
(* circuit breaker, the saga orchestrator, the webhook deliveries, the     *)
(* connections of the notification service and the start of the processor  *)
(* an inductive invariant each and the properties it carries; the fraud    *)
(* analysis has a module of its own.  No constant but the part that is     *)
(* looked at is bound: Spec implies the specification of every component.  *)
(***************************************************************************)
EXTENDS MCServices, FraudDetection_proofs, BankStatementParser_proofs


-----------------------------------------------------------------------------
(***************************************************************************)
(* CircuitBreaker.  What BreakerInv says of the two counters while the     *)
(* breaker is CLOSED and HALF_OPEN is what makes its transitions earned.   *)
(***************************************************************************)

\* The invariant holds initially: the constructor's state.
LEMMA BreakerInitial == BreakerInit => BreakerInv
BY BreakerAssumption DEF BreakerInit, BreakerInv, BreakerTypeOK

\* Letting a call through keeps it: a probe starts with both counters at 0.
LEMMA ExecuteKeeps ==
    ASSUME BreakerInv, NEW c \in Call, BreakerExecute(c)
    PROVE  BreakerInv'
BY BreakerAssumption DEF BreakerInv, BreakerTypeOK, BreakerExecute

\* A success keeps it, in whatever state it is reported.
LEMMA SuccessKeeps ==
    ASSUME BreakerInv, NEW c \in Call, BreakerSuccess(c)
    PROVE  BreakerInv'
<1>1. CASE breaker = "HALF_OPEN" /\ Closes
  BY <1>1, BreakerAssumption DEF BreakerInv, BreakerTypeOK, BreakerSuccess
<1>2. CASE breaker = "HALF_OPEN" /\ ~Closes
  BY <1>2, BreakerAssumption DEF BreakerInv, BreakerTypeOK, BreakerSuccess, Closes
<1>3. CASE breaker # "HALF_OPEN"
  BY <1>3, BreakerAssumption DEF BreakerInv, BreakerTypeOK, BreakerSuccess
<1> QED BY <1>1, <1>2, <1>3

\* A failure keeps it: the counter that reaches the threshold opens the breaker.
LEMMA FailureKeeps ==
    ASSUME BreakerInv, NEW c \in Call, BreakerFailure(c)
    PROVE  BreakerInv'
<1>1. OneMore(failureCount, FailureThreshold) \in 0 .. FailureThreshold
      /\ OneMore(streak, FailureThreshold) \in 0 .. FailureThreshold
  BY BreakerAssumption DEF BreakerInv, BreakerTypeOK, OneMore
<1>2. BreakerTypeOK'
  BY <1>1 DEF BreakerInv, BreakerTypeOK, BreakerFailure
<1>3. breaker' = "CLOSED" => failureCount' = streak' /\ streak' < FailureThreshold
  <2> SUFFICES ASSUME breaker' = "CLOSED"
               PROVE  failureCount' = streak' /\ streak' < FailureThreshold
    OBVIOUS
  <2>1. breaker = "CLOSED" /\ ~(failureCount' >= FailureThreshold)
    BY DEF BreakerFailure, BreakerInv, BreakerTypeOK
  <2>2. failureCount' = streak'
    BY <2>1 DEF BreakerFailure, BreakerInv
  <2> QED BY <1>1, <2>1, <2>2, BreakerAssumption DEF BreakerFailure
<1>4. breaker' # "HALF_OPEN"
  BY DEF BreakerFailure, BreakerInv, BreakerTypeOK
<1> QED BY <1>2, <1>3, <1>4 DEF BreakerInv

\* Every step keeps it.
LEMMA BreakerStepKeeps ==
    ASSUME BreakerInv, [BreakerNext]_breakerVars
    PROVE  BreakerInv'
<1>1. ASSUME NEW c \in Call, BreakerExecute(c) PROVE BreakerInv'
  BY <1>1, ExecuteKeeps
<1>2. ASSUME NEW c \in Call, BreakerSuccess(c) PROVE BreakerInv'
  BY <1>2, SuccessKeeps
<1>3. ASSUME NEW c \in Call, BreakerFailure(c) PROVE BreakerInv'
  BY <1>3, FailureKeeps
<1>4. CASE BreakerTimeout
  BY <1>4 DEF BreakerInv, BreakerTypeOK, BreakerTimeout
<1>5. CASE UNCHANGED breakerVars
  BY <1>5 DEF BreakerInv, BreakerTypeOK, breakerVars
<1> QED BY <1>1, <1>2, <1>3, <1>4, <1>5 DEF BreakerNext

\* The counters of the class mean what they are compared for, in every state.
THEOREM BreakerInvariant == BreakerSpec => []BreakerInv
<1>1. BreakerInv /\ [BreakerNext]_breakerVars => BreakerInv'
  BY BreakerStepKeeps
<1> QED BY <1>1, BreakerInitial, PTL DEF BreakerSpec

\* What one step may do to the breaker.
Earned ==
    /\ breaker = "CLOSED" /\ breaker' # "CLOSED" =>
           breaker' = "OPEN" /\ streak' = FailureThreshold
    /\ breaker = "OPEN" /\ breaker' # "OPEN" => breaker' = "HALF_OPEN" /\ cooled
    /\ breaker = "HALF_OPEN" /\ breaker' = "CLOSED" => probes' >= SuccessThreshold

\* Every step of the breaker is earned, from the invariant.
LEMMA StepEarned ==
    ASSUME BreakerInv, [BreakerNext]_breakerVars
    PROVE  Earned
<1>1. ASSUME NEW c \in Call, BreakerExecute(c) PROVE Earned
  BY <1>1 DEF BreakerExecute, Earned
<1>2. ASSUME NEW c \in Call, BreakerSuccess(c) PROVE Earned
  BY <1>2, BreakerAssumption DEF BreakerInv, BreakerTypeOK, BreakerSuccess, Closes, Earned
<1>3. ASSUME NEW c \in Call, BreakerFailure(c) PROVE Earned
  BY <1>3, BreakerAssumption
     DEF BreakerInv, BreakerTypeOK, BreakerFailure, OneMore, Earned
<1>4. CASE BreakerTimeout
  BY <1>4 DEF BreakerTimeout, Earned
<1>5. CASE UNCHANGED breakerVars
  BY <1>5 DEF breakerVars, Earned
<1> QED BY <1>1, <1>2, <1>3, <1>4, <1>5 DEF BreakerNext

\* The breaker opens, half opens and closes only on what it is documented to,
\* for any number of overlapping calls and any thresholds.
THEOREM TransitionsAreEarned == BreakerSpec => TransitionsEarned
<1>1. BreakerInv /\ [BreakerNext]_breakerVars => [Earned]_breakerVars
  BY StepEarned
<1> QED BY <1>1, BreakerInvariant, PTL DEF BreakerSpec, TransitionsEarned, Earned

-----------------------------------------------------------------------------
(***************************************************************************)
(* SagaOrchestrator.  The outcome of a saga is a fact about its history;   *)
(* Progress ties that history to the step the execution is at.             *)
(***************************************************************************)

\* Where an execution is and what it has stored go together: going forward it
\* has authorised exactly when only the notification is left; going backward
\* from an authorisation it has not passed the refund, or has done it.
Progress(x) ==
    /\ mode[x] = "new" => step[x] = 1 /\ "APPROVED" \notin wrote[x]
    /\ mode[x] = "forward" => ("APPROVED" \in wrote[x] <=> step[x] = 4)
    /\ mode[x] = "backward" =>
           ("APPROVED" \in wrote[x] =>
                step[x] >= 3 \/ "REFUNDED" \in wrote[x] \cup swallowed[x])

\* The inductive invariant.
SagaInv ==
    /\ SagaTypeOK
    /\ SagaOutcome
    /\ \A x \in Execution : Progress(x)

\* The table of steps, entry by entry: what a step stores authorises only in
\* the third, and only a compensation of the third refunds.
LEMMA TheSteps ==
    /\ Len(Steps) = 4
    /\ \A i \in 1 .. 4 :
           /\ Steps[i].does \in SagaStatus
           /\ Steps[i].undo \in SagaStatus \cup {"none"}
           /\ Steps[i].does = "APPROVED" <=> i = 3
           /\ Steps[i].undo # "APPROVED"
           /\ Steps[i].undo # "none" => i # 4
    /\ Steps[1].undo = "CANCELLED"
    /\ Steps[3].undo = "REFUNDED"
    /\ Steps[4].does = "SETTLED"
    /\ Steps[4].undo = "none"
    /\ "PENDING" \in SagaStatus
<1>1. Len(Steps) = 4
  BY DEF Steps
<1>2. /\ Steps[1] = [asks |-> "VALIDATING", does |-> "VALIDATING", undo |-> "CANCELLED"]
      /\ Steps[2] = [asks |-> "FRAUD_CHECK", does |-> "FRAUD_CHECK", undo |-> "DECLINED"]
      /\ Steps[3] = [asks |-> "PROCESSING", does |-> "APPROVED", undo |-> "REFUNDED"]
      /\ Steps[4] = [asks |-> "none", does |-> "SETTLED", undo |-> "none"]
  BY DEF Steps
<1>3. \A i \in 1 .. 4 : i = 1 \/ i = 2 \/ i = 3 \/ i = 4
  OBVIOUS
<1>4. \A i \in 1 .. 4 : Steps[i].does \in SagaStatus
  BY DEF SagaStatus
<1>5. \A i \in 1 .. 3 : Steps[i].undo \in SagaStatus
  BY DEF SagaStatus
<1>6. "PENDING" \in SagaStatus
  BY DEF SagaStatus
<1>7. \A i \in 1 .. 4 : Steps[i].undo \in SagaStatus \cup {"none"}
  BY <1>2, <1>3, <1>5
<1> QED BY <1>1, <1>2, <1>3, <1>4, <1>6, <1>7

\* Nobody has called yet.
LEMMA SagaInitial == SagaInit => SagaInv
BY SagaAssumption, TheSteps
   DEF SagaInit, SagaInv, SagaTypeOK, SagaOutcome, Progress

\* A call that begins has stored nothing.
LEMMA SagaStartKeeps ==
    ASSUME SagaInv, NEW x \in Execution, SagaStart(x)
    PROVE  SagaInv'
<1>1. SagaTypeOK'
  BY SagaAssumption DEF SagaInv, SagaTypeOK, SagaStart
<1>2. \A y \in Execution : y # x => mode'[y] = mode[y]
  BY DEF SagaInv, SagaTypeOK, SagaStart
<1>3. mode'[x] = "forward"
  BY DEF SagaInv, SagaTypeOK, SagaStart
<1>4. SagaOutcome'
  BY <1>2, <1>3, SagaAssumption
     DEF SagaInv, SagaOutcome, Completed, Compensated, SagaStart
<1>5. \A y \in Execution : Progress(y)'
  BY <1>2, <1>3 DEF SagaInv, Progress, SagaStart
<1> QED BY <1>1, <1>4, <1>5 DEF SagaInv

\* Going forward: the third step authorises, the fourth completes.
LEMMA StepSucceedsKeeps ==
    ASSUME SagaInv, NEW x \in Execution, StepSucceeds(x)
    PROVE  SagaInv'
<1> DEFINE does == Steps[step[x]].does
<1>1. step[x] \in 1 .. 4 /\ does \in SagaStatus /\ (does = "APPROVED" <=> step[x] = 3)
      /\ (step[x] = 4 => does = "SETTLED") /\ Len(Steps) = 4
  BY TheSteps DEF SagaInv, SagaTypeOK
<1>2. /\ stored' = does /\ writer' = x
      /\ wrote' = [wrote EXCEPT ![x] = @ \cup {does}]
      /\ carried' = [carried EXCEPT ![x] = does]
      /\ swallowed' = swallowed /\ losses' = losses
  BY DEF StepSucceeds, Store
<1> HIDE DEF does
<1>3. mode[x] = "forward"
  BY DEF StepSucceeds
<1>4. CASE step[x] < 4
  <2>1. step' = [step EXCEPT ![x] = @ + 1] /\ mode' = mode /\ entry' = entry
    BY <1>1, <1>4 DEF StepSucceeds
  <2>2. SagaTypeOK'
    BY <1>1, <1>2, <1>4, <2>1 DEF SagaInv, SagaTypeOK
  <2>3. SagaOutcome'
    BY <1>2, <1>3, <2>1, SagaAssumption
       DEF SagaInv, SagaTypeOK, SagaOutcome, Completed, Compensated
  <2>4. \A y \in Execution : Progress(y)'
    BY <1>1, <1>2, <1>3, <1>4, <2>1 DEF SagaInv, SagaTypeOK, Progress
  <2> QED BY <2>2, <2>3, <2>4 DEF SagaInv
<1>5. CASE step[x] = 4
  <2>1. step' = step /\ mode' = [mode EXCEPT ![x] = "completed"] /\ entry' = NoExecution
    BY <1>1, <1>5 DEF StepSucceeds, Leave
  <2>2. SagaTypeOK'
    BY <1>1, <1>2, <2>1 DEF SagaInv, SagaTypeOK
  <2>3. Completed(x)'
    BY <1>1, <1>2, <1>3, <1>5 DEF SagaInv, SagaTypeOK, Completed, Progress
  <2>4. SagaOutcome'
    BY <1>2, <1>3, <2>1, <2>3, SagaAssumption
       DEF SagaInv, SagaTypeOK, SagaOutcome, Completed, Compensated
  <2>5. \A y \in Execution : Progress(y)'
    BY <1>2, <2>1 DEF SagaInv, SagaTypeOK, Progress
  <2> QED BY <2>2, <2>4, <2>5 DEF SagaInv
<1> QED BY <1>1, <1>4, <1>5

\* Turning round: after an authorisation only the last step is left to fail,
\* and a SET that raised may itself have authorised, in the third.
LEMMA StepFailsKeeps ==
    ASSUME SagaInv, NEW x \in Execution, StepFails(x)
    PROVE  SagaInv'
<1> DEFINE does == Steps[step[x]].does
<1>1. step[x] \in 1 .. 4 /\ does \in SagaStatus /\ (does = "APPROVED" <=> step[x] = 3)
  BY TheSteps DEF SagaInv, SagaTypeOK
<1>2. \/ UNCHANGED <<stored, writer, wrote>>
      \/ /\ stored' = does /\ writer' = x
         /\ wrote' = [wrote EXCEPT ![x] = @ \cup {does}]
  BY DEF StepFails, StoreRaises, Store
<1>3. losses' \in 0 .. MaxLosses
  BY SagaAssumption DEF StepFails, StoreRaises, SagaInv, SagaTypeOK
<1> HIDE DEF does
<1>4. /\ mode[x] = "forward" /\ mode' = [mode EXCEPT ![x] = "backward"]
      /\ UNCHANGED <<step, carried, entry, swallowed>>
  BY DEF StepFails
<1>5. SagaTypeOK'
  BY <1>1, <1>2, <1>3, <1>4 DEF SagaInv, SagaTypeOK
<1>6. SagaOutcome'
  BY <1>2, <1>4, SagaAssumption
     DEF SagaInv, SagaTypeOK, SagaOutcome, Completed, Compensated
<1>7. \A y \in Execution : Progress(y)'
  BY <1>1, <1>2, <1>4 DEF SagaInv, SagaTypeOK, Progress
<1> QED BY <1>5, <1>6, <1>7 DEF SagaInv

\* Going backward past the third step refunds, or has swallowed the refund's
\* error; the first step's compensation is the last SET.
LEMMA CompensateKeeps ==
    ASSUME SagaInv, NEW x \in Execution, Compensate(x)
    PROVE  SagaInv'
<1> DEFINE undo == Steps[step[x]].undo
<1>1. /\ step[x] \in 1 .. 4 /\ undo \in SagaStatus \cup {"none"}
      /\ undo # "APPROVED"
      /\ step[x] = 1 => undo = "CANCELLED"
      /\ step[x] = 3 => undo = "REFUNDED"
  BY TheSteps DEF SagaInv, SagaTypeOK
<1>2. mode[x] = "backward"
  BY DEF Compensate
<1>3. \/ /\ undo = "none"
         /\ UNCHANGED <<stored, writer, wrote, carried, swallowed, losses>>
      \/ /\ undo # "none"
         /\ stored' = undo /\ writer' = x
         /\ wrote' = [wrote EXCEPT ![x] = @ \cup {undo}]
         /\ carried' = [carried EXCEPT ![x] = undo]
         /\ UNCHANGED <<swallowed, losses>>
      \/ /\ undo # "none"
         /\ \/ UNCHANGED <<stored, writer, wrote>>
            \/ /\ stored' = undo /\ writer' = x
               /\ wrote' = [wrote EXCEPT ![x] = @ \cup {undo}]
         /\ swallowed' = [swallowed EXCEPT ![x] = @ \cup {undo}]
         /\ carried' = carried
         /\ losses' \in 0 .. MaxLosses
  BY SagaAssumption DEF Compensate, Store, StoreRaises, SagaInv, SagaTypeOK
<1>4. \/ /\ step[x] > 1
         /\ step' = [step EXCEPT ![x] = @ - 1] /\ mode' = mode /\ entry' = entry
      \/ /\ step[x] = 1
         /\ mode' = [mode EXCEPT ![x] = "failed"] /\ entry' = NoExecution /\ step' = step
  BY <1>1 DEF Compensate, StepsBack, Leave
<1> HIDE DEF undo
<1>5. SagaTypeOK'
  <2>1. carried' \in [Execution -> SagaStatus] /\ stored' \in SagaStatus
        /\ writer' \in Execution \cup {NoExecution}
        /\ wrote' \in [Execution -> SUBSET SagaStatus]
        /\ swallowed' \in [Execution -> SUBSET SagaStatus]
        /\ losses' \in 0 .. MaxLosses
    BY <1>1, <1>3 DEF SagaInv, SagaTypeOK
  <2>2. step' \in [Execution -> 1 .. 4]
    BY <1>1, <1>4 DEF SagaInv, SagaTypeOK
  <2>3. mode' \in [Execution -> {"new", "forward", "backward", "completed", "failed", "dead"}]
        /\ entry' \in Execution \cup {NoExecution}
    BY <1>4 DEF SagaInv, SagaTypeOK
  <2> QED BY <2>1, <2>2, <2>3 DEF SagaTypeOK
<1>6. \A y \in Execution :
          /\ wrote[y] \subseteq wrote'[y] /\ swallowed[y] \subseteq swallowed'[y]
          /\ y # x => wrote'[y] = wrote[y] /\ swallowed'[y] = swallowed[y]
          /\ "APPROVED" \in wrote'[y] => "APPROVED" \in wrote[y]
          /\ writer' = y => (writer = y /\ stored' = stored) \/ y = x
  BY <1>1, <1>3 DEF SagaInv, SagaTypeOK
<1>7. step[x] = 3 => "REFUNDED" \in wrote'[x] \cup swallowed'[x]
  BY <1>1, <1>3 DEF SagaInv, SagaTypeOK
<1>8. CASE step[x] > 1
  <2>1. step' = [step EXCEPT ![x] = @ - 1] /\ mode' = mode /\ entry' = entry
    BY <1>4, <1>8, <1>1
  <2>2. SagaOutcome'
    <3>1. \A y \in Execution : mode'[y] = "completed" => Completed(y)'
      BY <1>2, <1>6, <2>1 DEF SagaInv, SagaOutcome, Completed
    <3>2. \A y \in Execution : mode'[y] = "failed" => Compensated(y)'
      BY <1>2, <1>6, <2>1 DEF SagaInv, SagaOutcome, Compensated
    <3> QED BY <2>1, <3>1, <3>2 DEF SagaInv, SagaOutcome
  <2>3. ASSUME NEW y \in Execution PROVE Progress(y)'
    <3>1. CASE y # x
      <4>1. step'[y] = step[y] /\ mode'[y] = mode[y] /\ wrote'[y] = wrote[y]
            /\ swallowed'[y] = swallowed[y]
        BY <1>6, <2>1, <3>1 DEF SagaInv, SagaTypeOK
      <4> QED BY <4>1 DEF SagaInv, Progress
    <3>2. CASE y = x
      <4>1. step'[x] = step[x] - 1 /\ mode'[x] = "backward"
        BY <1>2, <2>1 DEF SagaInv, SagaTypeOK
      <4>2. "APPROVED" \in wrote'[x] =>
                step'[x] >= 3 \/ "REFUNDED" \in wrote'[x] \cup swallowed'[x]
        BY <1>1, <1>2, <1>6, <1>7, <4>1 DEF SagaInv, Progress
      <4> QED BY <3>2, <4>1, <4>2 DEF Progress
    <3> QED BY <3>1, <3>2
  <2> QED BY <1>5, <2>2, <2>3 DEF SagaInv
<1>9. CASE step[x] = 1
  <2>1. mode' = [mode EXCEPT ![x] = "failed"] /\ entry' = NoExecution /\ step' = step
    BY <1>4, <1>9, <1>1
  <2>2. /\ mode'[x] = "failed"
        /\ \A y \in Execution : y # x => mode'[y] = mode[y]
    BY <2>1 DEF SagaInv, SagaTypeOK
  <2>3. writer' = x => stored' = "CANCELLED" \/ "CANCELLED" \in swallowed'[x]
    BY <1>1, <1>3, <1>9 DEF SagaInv, SagaTypeOK
  <2>4. "APPROVED" \in wrote'[x] => "REFUNDED" \in wrote'[x] \cup swallowed'[x]
    BY <1>2, <1>6, <1>9 DEF SagaInv, Progress
  <2>5. SagaOutcome'
    <3>1. \A y \in Execution : mode'[y] = "completed" => Completed(y)'
      BY <2>2, <1>6 DEF SagaInv, SagaOutcome, Completed
    <3>2. \A y \in Execution : mode'[y] = "failed" => Compensated(y)'
      BY <2>2, <2>3, <2>4, <1>6 DEF SagaInv, SagaOutcome, Compensated
    <3> QED BY <2>1, <3>1, <3>2 DEF SagaOutcome
  <2>6. \A y \in Execution : Progress(y)'
    BY <2>1, <2>2, <1>6 DEF SagaInv, Progress
  <2> QED BY <1>5, <2>5, <2>6 DEF SagaInv
<1> QED BY <1>1, <1>8, <1>9

\* The dead owe nothing.
LEMMA SagaCrashKeeps ==
    ASSUME SagaInv, SagaCrash
    PROVE  SagaInv'
<1>1. losses' \in 0 .. MaxLosses
  BY SagaAssumption DEF SagaInv, SagaTypeOK, SagaCrash
<1>2. mode' = [x \in Execution |->
                   IF mode[x] \in {"forward", "backward"} THEN "dead" ELSE mode[x]]
      /\ entry' = NoExecution
      /\ UNCHANGED <<step, carried, stored, writer, wrote, swallowed>>
  BY DEF SagaCrash
<1>3. SagaTypeOK'
  BY <1>1, <1>2 DEF SagaInv, SagaTypeOK
<1>4. \A x \in Execution :
          mode'[x] # "dead" => mode'[x] = mode[x] /\ mode[x] \notin {"forward", "backward"}
  BY <1>2
<1>5. SagaOutcome'
  BY <1>2, <1>4 DEF SagaInv, SagaOutcome, Completed, Compensated
<1>6. \A x \in Execution : Progress(x)'
  BY <1>2, <1>4 DEF SagaInv, Progress
<1> QED BY <1>3, <1>5, <1>6 DEF SagaInv

\* Every step keeps it.
LEMMA SagaStepKeeps ==
    ASSUME SagaInv, [SagaNext]_sagaVars
    PROVE  SagaInv'
<1>1. ASSUME NEW x \in Execution, SagaStart(x) PROVE SagaInv'
  BY <1>1, SagaStartKeeps
<1>2. ASSUME NEW x \in Execution, StepSucceeds(x) PROVE SagaInv'
  BY <1>2, StepSucceedsKeeps
<1>3. ASSUME NEW x \in Execution, StepFails(x) PROVE SagaInv'
  BY <1>3, StepFailsKeeps
<1>4. ASSUME NEW x \in Execution, Compensate(x) PROVE SagaInv'
  BY <1>4, CompensateKeeps
<1>5. CASE SagaCrash
  BY <1>5, SagaCrashKeeps
<1>6. CASE UNCHANGED sagaVars
  BY <1>6 DEF sagaVars, SagaInv, SagaTypeOK, SagaOutcome, Completed, Compensated, Progress
<1> QED BY <1>1, <1>2, <1>3, <1>4, <1>5, <1>6 DEF SagaNext, SagaStep

\* Where each execution is and what it has stored, in every state.
THEOREM SagaInvariant == SagaSpec => []SagaInv
<1>1. SagaInv /\ [SagaNext]_sagaVars => SagaInv'
  BY SagaStepKeeps
<1> QED BY <1>1, SagaInitial, PTL DEF SagaSpec

\* SagaOutcome: executeSaga ends settled, or with every authorisation refunded,
\* whatever other executions of the transaction store in between.
THEOREM SagasEndRight == SagaSpec => []SagaOutcome
<1>1. SagaInv => SagaOutcome
  BY DEF SagaInv
<1> QED BY <1>1, SagaInvariant, PTL

-----------------------------------------------------------------------------
(***************************************************************************)
(* WebhookDelivery.  The webhooks a notification owes stand in its queue,  *)
(* and the status only goes on to statuses its event allows.               *)
(***************************************************************************)

\* What is owed has happened, and a notification that still has webhooks to
\* serve finds the transaction in a status its event allows.
HookInv ==
    /\ HookTypeOK
    /\ ReceiversAreTold
    /\ \A w \in owed : w[2] \in happened
    /\ \A e \in Event : queue[e] # <<>> => txnStatus \in Later(e)

\* A sequence without the entry at i.
LEMMA RemoveAtIsSeq ==
    ASSUME NEW S, NEW s \in Seq(S), NEW i \in 1 .. Len(s)
    PROVE  RemoveAt(s, i) \in Seq(S)
<1>1. SubSeq(s, 1, i - 1) \in Seq(S) /\ SubSeq(s, i + 1, Len(s)) \in Seq(S)
  BY SubSeqProperties, LenProperties
<1> QED BY <1>1, ConcatProperties DEF RemoveAt

\* What notifications go through are sequences of webhooks.
LEMMA RelevantIsSeq ==
    ASSUME registry \in Seq(Hook), NEW e \in Event, NEW q \in RelevantWebhooks(e)
    PROVE  q \in Seq(Hook) /\ ToSet(q) \subseteq Hook
<1>1. ToSet(registry) \subseteq Hook
  BY ElementOfSeq DEF ToSet
<1>2. PICK n \in 0 .. Len(registry) : q \in [1 .. n -> ToSet(registry)]
  BY DEF RelevantWebhooks, BoundedSeq, SeqOf
<1>3. n \in Nat /\ q \in [1 .. n -> Hook]
  BY <1>1, <1>2
<1>4. q \in Seq(Hook)
  BY <1>3, IsASeq
<1> QED BY <1>3, <1>4 DEF ToSet

\* What is in a sequence and not at its head is in its tail.
LEMMA TailContains ==
    ASSUME NEW S, NEW s \in Seq(S), s # <<>>, NEW x, Contains(s, x), x # Head(s)
    PROVE  Contains(Tail(s), x)
<1>1. PICK i \in 1 .. Len(s) : s[i] = x
  BY DEF Contains
<1>2. i # 1
  BY <1>1 DEF Head
<1>3. Len(Tail(s)) = Len(s) - 1 /\ \A j \in 1 .. Len(Tail(s)) : Tail(s)[j] = s[j + 1]
  BY HeadTailProperties
<1>4. i - 1 \in 1 .. Len(Tail(s)) /\ Tail(s)[i - 1] = x
  BY <1>1, <1>2, <1>3, LenProperties
<1> QED BY <1>4 DEF Contains

\* Nothing is registered and nothing has happened.
LEMMA HookInitial == HookInit => HookInv
BY HookAssumption DEF HookInit, HookInv, HookTypeOK, ReceiversAreTold

\* Registrations and deletions do not touch what notifications have found.
LEMMA RegisterKeeps ==
    ASSUME HookInv, NEW h \in Hook, RegisterWebhook(h)
    PROVE  HookInv'
<1>1. registry' \in Seq(Hook)
  BY AppendProperties DEF HookInv, HookTypeOK, RegisterWebhook
<1> QED BY <1>1
   DEF HookInv, HookTypeOK, ReceiversAreTold, RegisterWebhook

\* A deletion takes one entry out of the registry.
LEMMA DeleteKeeps ==
    ASSUME HookInv, NEW h \in Hook, DeleteWebhook(h)
    PROVE  HookInv'
<1>1. PICK i \in DOMAIN registry : registry' = RemoveAt(registry, i)
  BY DEF DeleteWebhook
<1>2. registry \in Seq(Hook) /\ i \in 1 .. Len(registry)
  BY <1>1, LenProperties DEF HookInv, HookTypeOK
<1>3. registry' \in Seq(Hook)
  BY <1>1, <1>2, RemoveAtIsSeq
<1>4. deletes' \in 0 .. MaxDeletes
  BY HookAssumption DEF HookInv, HookTypeOK, DeleteWebhook
<1> QED BY <1>3, <1>4
   DEF HookInv, HookTypeOK, ReceiversAreTold, DeleteWebhook

\* No operation takes the transaction back behind an event of its past.
LEMMA OperationsGoOn ==
    ASSUME NEW o \in Operations
    PROVE  /\ o.event \in Event
           /\ o.to \in Status
           /\ o.says \in Status
           /\ o.to \in Later(o.event)
           /\ o.says \in Later(o.event)
           /\ \A e \in Event : o.from \in Later(e) => o.to \in Later(e)
BY DEF Operations, Event, Status, Later

\* An operation: its webhooks are in line from the start, and the webhooks of
\* earlier notifications stay in line.
LEMMA OperateKeeps ==
    ASSUME HookInv, NEW o \in Operations, Operate(o)
    PROVE  HookInv'
<1> DEFINE e == o.event
<1>1. PICK q \in RelevantWebhooks(e) :
          /\ queue' = [queue EXCEPT ![e] = q]
          /\ attempt' = [attempt EXCEPT ![e] = 1]
          /\ body' = [body EXCEPT ![e] = IF q = <<>> THEN "none" ELSE o.says]
          /\ owed' = owed \cup {<<h, e>> : h \in ToSet(q)}
          /\ happened' = happened \cup {e}
          /\ UNCHANGED <<registry, deletes>>
  BY DEF Operate, SendWebhookNotification, Says
<1>2. txnStatus = o.from /\ txnStatus' = o.to /\ e \notin happened
  BY DEF Operate
<1>3. e \in Event /\ o.to \in Status /\ o.says \in Status /\ o.to \in Later(e)
      /\ o.says \in Later(e) /\ \A f \in Event : o.from \in Later(f) => o.to \in Later(f)
  BY OperationsGoOn
<1>4. q \in Seq(Hook) /\ ToSet(q) \subseteq Hook
  BY <1>3, RelevantIsSeq DEF HookInv, HookTypeOK
<1> HIDE DEF e
<1>5. HookTypeOK'
  BY <1>1, <1>2, <1>3, <1>4, HookAssumption DEF HookInv, HookTypeOK
<1>6. ASSUME NEW w \in owed' PROVE Contains(queue'[w[2]], w[1]) /\ w[2] \in happened'
  <2>1. CASE w \in owed
    <3>1. w[2] \in happened /\ w[2] # e /\ w[2] \in Event
      BY <1>2, <2>1 DEF HookInv, HookTypeOK
    <3>2. queue'[w[2]] = queue[w[2]]
      BY <1>1, <3>1 DEF HookInv, HookTypeOK
    <3> QED BY <1>1, <2>1, <3>1, <3>2 DEF HookInv, ReceiversAreTold
  <2>2. CASE w \notin owed
    <3>1. PICK h \in ToSet(q) : w = <<h, e>>
      BY <1>1, <2>2
    <3>2. queue'[e] = q
      BY <1>1, <1>3 DEF HookInv, HookTypeOK
    <3>3. Contains(q, h)
      BY <1>4, LenProperties DEF ToSet, Contains
    <3> QED BY <1>1, <3>1, <3>2, <3>3
  <2> QED BY <2>1, <2>2
<1>7. ASSUME NEW f \in Event
      PROVE  /\ body'[f] # "none" => body'[f] \in Later(f)
             /\ queue'[f] # <<>> => txnStatus' \in Later(f)
  <2>1. Later(f)' = Later(f)
    BY DEF Later, Status
  <2>2. CASE f = e
    BY <1>1, <1>2, <1>3, <2>1, <2>2 DEF HookInv, HookTypeOK
  <2>3. CASE f # e
    BY <1>1, <1>2, <1>3, <2>1, <2>3 DEF HookInv, HookTypeOK, ReceiversAreTold
  <2> QED BY <2>2, <2>3
<1> QED BY <1>5, <1>6, <1>7 DEF HookInv, ReceiversAreTold, Later, Status

\* What a request says is the status the transaction has by then.
LEMMA AttemptKeeps ==
    ASSUME HookInv, NEW e \in Event, Attempt(e)
    PROVE  HookInv'
<1>1. txnStatus \in Later(e) /\ Later(e) \subseteq Status
  BY DEF HookInv, Attempt, Later, Status
<1>2. HookTypeOK'
  BY <1>1 DEF HookInv, HookTypeOK, Attempt
<1> QED BY <1>1, <1>2 DEF HookInv, HookTypeOK, ReceiversAreTold, Attempt

\* The webhook at the head of a notification's queue has got it, or has failed
\* for the last time.
LEMMA HeadServed ==
    ASSUME HookInv, NEW e \in Event, queue[e] # <<>>,
           owed' = owed \ {<<Head(queue[e]), e>>},
           queue' = [queue EXCEPT ![e] = Tail(@)],
           attempt' = [attempt EXCEPT ![e] = 1],
           body' = [body EXCEPT ![e] = "none"],
           UNCHANGED <<txnStatus, registry, happened, deletes>>
    PROVE  HookInv'
<1>1. queue[e] \in Seq(Hook) /\ Tail(queue[e]) \in Seq(Hook)
  BY HeadTailProperties DEF HookInv, HookTypeOK
<1>2. HookTypeOK'
  BY <1>1, HookAssumption DEF HookInv, HookTypeOK
<1>3. queue'[e] = Tail(queue[e]) /\ \A f \in Event : f # e => queue'[f] = queue[f]
  BY DEF HookInv, HookTypeOK
<1>4. ASSUME NEW w \in owed' PROVE Contains(queue'[w[2]], w[1])
  <2>1. w \in owed /\ w \in Hook \X Event /\ w # <<Head(queue[e]), e>>
        /\ Contains(queue[w[2]], w[1])
    BY DEF HookInv, HookTypeOK, ReceiversAreTold
  <2>2. CASE w[2] = e
    <3>1. w[1] # Head(queue[e])
      BY <2>1, <2>2
    <3> QED BY <1>1, <1>3, <2>1, <2>2, <3>1, TailContains
  <2>3. CASE w[2] # e
    BY <1>3, <2>1, <2>3
  <2> QED BY <2>2, <2>3
<1>5. \A f \in Event : /\ body'[f] # "none" => body[f] # "none" /\ body'[f] = body[f]
                       /\ queue'[f] # <<>> => queue[f] # <<>>
  BY <1>3 DEF HookInv, HookTypeOK
<1> QED BY <1>2, <1>4, <1>5 DEF HookInv, ReceiversAreTold

\* An answer serves the head.
LEMMA DeliveredKeeps ==
    ASSUME HookInv, NEW e \in Event, Delivered(e)
    PROVE  HookInv'
BY HeadServed DEF Delivered, Awaiting

\* A failure keeps the head in line until its last attempt.
LEMMA FailedKeeps ==
    ASSUME HookInv, NEW e \in Event, Failed(e)
    PROVE  HookInv'
<1>1. CASE attempt[e] < MaxRetries
  <2>1. owed' \subseteq owed /\ attempt' = [attempt EXCEPT ![e] = @ + 1]
        /\ body' = [body EXCEPT ![e] = "none"]
        /\ UNCHANGED <<queue, txnStatus, registry, happened, deletes>>
    BY <1>1 DEF Failed, NextAttempt
  <2>2. HookTypeOK'
    BY <1>1, <2>1, HookAssumption DEF HookInv, HookTypeOK
  <2> QED BY <2>1, <2>2 DEF HookInv, HookTypeOK, ReceiversAreTold
<1>2. CASE ~(attempt[e] < MaxRetries)
  BY <1>2, HeadServed DEF Failed, Awaiting, NextHook
<1> QED BY <1>1, <1>2

\* A restart leaves nothing in line and nothing owed.
LEMMA HookRestartKeeps ==
    ASSUME HookInv, Restart
    PROVE  HookInv'
<1>1. deletes' \in 0 .. MaxDeletes
  BY HookAssumption DEF HookInv, HookTypeOK, Restart
<1> QED BY <1>1, HookAssumption DEF HookInv, HookTypeOK, ReceiversAreTold, Restart

\* Every step keeps it.
LEMMA HookStepKeeps ==
    ASSUME HookInv, [HookNext]_hookVars
    PROVE  HookInv'
<1>1. ASSUME NEW h \in Hook, RegisterWebhook(h) PROVE HookInv'
  BY <1>1, RegisterKeeps
<1>2. ASSUME NEW h \in Hook, DeleteWebhook(h) PROVE HookInv'
  BY <1>2, DeleteKeeps
<1>3. ASSUME NEW o \in Operations, Operate(o) PROVE HookInv'
  BY <1>3, OperateKeeps
<1>4. ASSUME NEW e \in Event, HookStep(e) PROVE HookInv'
  BY <1>4, AttemptKeeps, DeliveredKeeps, FailedKeeps DEF HookStep
<1>5. CASE Restart
  BY <1>5, HookRestartKeeps
<1>6. CASE UNCHANGED hookVars
  BY <1>6 DEF hookVars, HookInv, HookTypeOK, ReceiversAreTold, Later, Status
<1> QED BY <1>1, <1>2, <1>3, <1>4, <1>5, <1>6 DEF HookNext

\* What is owed is in line, in every state.
THEOREM HookInvariant == HookSpec => []HookInv
<1>1. HookInv /\ [HookNext]_hookVars => HookInv'
  BY HookStepKeeps
<1> QED BY <1>1, HookInitial, PTL DEF HookSpec

\* ReceiversAreTold: deliverWebhookWithRetry gives no webhook's turn away, for
\* any number of webhooks, retries, deletions and restarts.
THEOREM ReceiversAreAlwaysTold == HookSpec => []ReceiversAreTold
<1>1. HookInv => ReceiversAreTold
  BY DEF HookInv
<1> QED BY <1>1, HookInvariant, PTL

-----------------------------------------------------------------------------
(***************************************************************************)
(* NotificationConnection.  Three sets carry the argument: the calls that  *)
(* have a close handler's work before them, those of them and of the       *)
(* others that no connection stands for, and the connections that no call  *)
(* stands for.  No step lets them grow by more than it adds to splits and  *)
(* strays.                                                                 *)
(***************************************************************************)

\* Handlers that are armed, and calls that have still to put one on.
Reconnecting == {l \in Loop : at[l] \notin SetUp \cup {"off"}}

\* Those, and the calls in their set-up whose connection is gone.
Homeless == {l \in Loop : at[l] # "off" /\ (at[l] \notin SetUp \/ own[l] = NoConn)}

\* Connections that no handler is armed on and no call is about to arm.
Unwatched == {c \in open : \A l \in Loop : at[l] \in {"armed", "open"} => own[l] # c}

\* What a call of connect() has, by what it awaits.
LinkHas(l) ==
    /\ at[l] \in SetUp => on[l] \in Conn
    /\ at[l] \notin SetUp => on[l] = NoConn
    /\ at[l] \in {"open", "armed"} => own[l] \in Conn
    /\ at[l] \notin SetUp \cup {"open", "armed"} => own[l] = NoConn
    /\ own[l] \in Conn => own[l] \in open

\* The calls and the connections.
LinkShape ==
    /\ LinkTypeOK
    /\ \A l \in Loop : LinkHas(l)
    /\ \A k, l \in Running : own[k] = own[l] /\ own[k] # NoConn => k = l
    /\ connection \in Conn => connection \in open
    /\ service = "down" => \A l \in Loop : at[l] = "off"

\* While retries are left somebody looks after the connection: of one that has
\* closed a call is after the next, and one that is open is watched or will be,
\* unless a call is after the next anyway.
Retrying == {"failed", "wait", "connect"}

LinkHope ==
    /\ tries >= MaxTries => spent
    /\ service # "down" /\ ~spent =>
           /\ \E l \in Loop : at[l] \in Retrying \cup {"armed", "open"}
           /\ connection = Stale => \E l \in Loop : at[l] \in Retrying
           /\ connection \in Conn =>
                  \E l \in Loop : \/ at[l] \in Retrying
                                  \/ at[l] \in {"armed", "open"} /\ own[l] = connection

LinkBounds ==
    /\ Cardinality(Reconnecting) <= 1 + splits
    /\ Cardinality(Homeless) + Cardinality(Unwatched) <= 1 + splits + strays

LinkInv == LinkShape /\ LinkHope /\ LinkBounds

-----------------------------------------------------------------------------

\* As many connections at most as there are calls that own them.
LEMMA OwnedBounded ==
    ASSUME NEW H \in SUBSET Loop, NEW f \in [Loop -> Conn \cup {NoConn}], NEW C,
           \A c \in C : \E l \in H : c = f[l]
    PROVE  IsFiniteSet(C) /\ Cardinality(C) <= Cardinality(H)
<1>1. IsFiniteSet(H)
  BY LinkAssumption, FS_Subset
<1>2. PICK T : T = {f[l] : l \in H}
  OBVIOUS
<1>3. PICK g : g = [l \in H |-> f[l]]
  OBVIOUS
<1>4. g \in Surjection(H, T)
  BY <1>2, <1>3 DEF Surjection
<1>5. IsFiniteSet(T) /\ Cardinality(T) <= Cardinality(H)
  BY <1>1, <1>4, FS_Surjection
<1>6. C \in SUBSET T
  BY <1>2
<1>7. IsFiniteSet(C) /\ Cardinality(C) <= Cardinality(T)
  BY <1>5, <1>6, FS_Subset
<1> QED BY <1>1, <1>5, <1>7, FS_CardinalityType

\* Sets of calls and of connections are finite.
LEMMA LinkFinite ==
    /\ \A S \in SUBSET Loop : IsFiniteSet(S) /\ Cardinality(S) \in Nat
    /\ \A S \in SUBSET Conn : IsFiniteSet(S) /\ Cardinality(S) \in Nat
BY LinkAssumption, FS_Subset, FS_CardinalityType

\* A smaller set has no more elements.
LEMMA LinkSmaller ==
    /\ \A S \in SUBSET Loop : \A T \in SUBSET S : Cardinality(T) <= Cardinality(S)
    /\ \A S \in SUBSET Conn : \A T \in SUBSET S : Cardinality(T) <= Cardinality(S)
BY LinkFinite, FS_Subset

\* The union of two sets has no more elements than both together.
LEMMA LinkUnion ==
    ASSUME NEW S, IsFiniteSet(S), NEW T, IsFiniteSet(T)
    PROVE  IsFiniteSet(S \cup T) /\ Cardinality(S \cup T) <= Cardinality(S) + Cardinality(T)
<1>1. IsFiniteSet(S \cup T) /\ Cardinality(S \cup T) = Cardinality(S) + Cardinality(T) - Cardinality(S \cap T)
  BY FS_Union
<1>2. IsFiniteSet(S \cap T)
  BY FS_Subset
<1>3. Cardinality(S) \in Nat /\ Cardinality(T) \in Nat /\ Cardinality(S \cap T) \in Nat
  BY <1>2, FS_CardinalityType
<1> QED BY <1>1, <1>3

\* What was in S, or else is in G.
LEMMA LinkCovered ==
    ASSUME NEW S, IsFiniteSet(S), NEW G, IsFiniteSet(G), NEW T, T \subseteq S \cup G
    PROVE  /\ IsFiniteSet(T)
           /\ Cardinality(T) \in Nat /\ Cardinality(S) \in Nat /\ Cardinality(G) \in Nat
           /\ Cardinality(T) <= Cardinality(S) + Cardinality(G)
<1>1. IsFiniteSet(S \cup G) /\ Cardinality(S \cup G) <= Cardinality(S) + Cardinality(G)
  BY LinkUnion
<1>2. IsFiniteSet(T) /\ Cardinality(T) <= Cardinality(S \cup G)
  BY <1>1, FS_Subset
<1>3. /\ Cardinality(T) \in Nat /\ Cardinality(S) \in Nat /\ Cardinality(G) \in Nat
      /\ Cardinality(S \cup G) \in Nat
  BY <1>1, <1>2, FS_CardinalityType
<1> QED BY <1>1, <1>2, <1>3

\* The three sets are finite, before and after.
LEMMA LinkSets ==
    /\ Reconnecting \subseteq Loop /\ Homeless \subseteq Loop
    /\ Reconnecting' \subseteq Loop /\ Homeless' \subseteq Loop
    /\ IsFiniteSet(Reconnecting) /\ IsFiniteSet(Homeless)
    /\ LinkTypeOK => IsFiniteSet(Unwatched) /\ Unwatched \subseteq Conn
BY LinkFinite DEF Reconnecting, Homeless, Unwatched, LinkTypeOK

\* The bounds after a step in which the calls of G join and the connections of
\* E, which are as many as the faults and strays in it beyond those of G.
LEMMA BoundsGrow ==
    ASSUME LinkTypeOK, LinkBounds, NEW G \in SUBSET Loop, NEW e \in Nat, NEW E, IsFiniteSet(E),
           splits' >= splits + Cardinality(G), splits' \in Nat, strays' \in Nat,
           Cardinality(E) <= e,
           splits' + strays' >= splits + strays + Cardinality(G) + e,
           Reconnecting' \subseteq Reconnecting \cup G,
           Homeless' \subseteq Homeless \cup G,
           Unwatched' \subseteq Unwatched \cup E
    PROVE  LinkBounds'
<1>1. PICK R, H, U : R = Reconnecting' /\ H = Homeless' /\ U = Unwatched'
  OBVIOUS
<1>2. IsFiniteSet(G) /\ IsFiniteSet(Reconnecting) /\ IsFiniteSet(Homeless) /\ IsFiniteSet(Unwatched)
  BY LinkFinite, LinkSets
<1>3. /\ Cardinality(R) \in Nat /\ Cardinality(Reconnecting) \in Nat /\ Cardinality(G) \in Nat
      /\ Cardinality(R) <= Cardinality(Reconnecting) + Cardinality(G)
  BY <1>1, <1>2, LinkCovered
<1>4. /\ Cardinality(H) \in Nat /\ Cardinality(Homeless) \in Nat
      /\ Cardinality(H) <= Cardinality(Homeless) + Cardinality(G)
  BY <1>1, <1>2, LinkCovered
<1>5. /\ Cardinality(U) \in Nat /\ Cardinality(Unwatched) \in Nat /\ Cardinality(E) \in Nat
      /\ Cardinality(U) <= Cardinality(Unwatched) + Cardinality(E)
  BY <1>1, <1>2, LinkCovered
<1>6. splits \in Nat /\ strays \in Nat
  BY DEF LinkTypeOK
<1>7. Cardinality(R) <= 1 + splits'
  BY <1>3, <1>6 DEF LinkBounds
<1>8. Cardinality(H) + Cardinality(U) <= 1 + splits' + strays'
  BY <1>3, <1>4, <1>5, <1>6 DEF LinkBounds
<1> QED BY <1>1, <1>7, <1>8 DEF LinkBounds

\* No fault: nothing joins.
LEMMA BoundsStay ==
    ASSUME LinkTypeOK, LinkBounds, UNCHANGED <<splits, strays>>,
           Reconnecting' \subseteq Reconnecting, Homeless' \subseteq Homeless,
           Unwatched' \subseteq Unwatched
    PROVE  LinkBounds'
<1>1. IsFiniteSet({}) /\ Cardinality({}) = 0
  BY FS_EmptySet
<1>2. PICK Z : Z = {} /\ Z \in SUBSET Loop /\ Cardinality(Z) = 0 /\ IsFiniteSet(Z)
  BY <1>1
<1> QED BY <1>2, BoundsGrow DEF LinkTypeOK

-----------------------------------------------------------------------------
(* The actions *)

\* The state a process begins in, or the one it leaves behind.
LEMMA FirstStateKeeps ==
    ASSUME LinkInv, NEW state \in {"starting", "down"}, FirstState(state), lost' = lost
    PROVE  LinkInv'
<1>1. /\ service' = state /\ open' = {} /\ broken' = {} /\ connection' = NoConn
      /\ channel' = NoConn /\ tries' = 0 /\ spent' = FALSE /\ splits' = 0 /\ strays' = 0
      /\ at' = [l \in Loop |-> IF l = MainLoop /\ state = "starting" THEN "connect" ELSE "off"]
      /\ own' = [l \in Loop |-> NoConn] /\ on' = [l \in Loop |-> NoConn]
  BY DEF FirstState
<1>2. LinkTypeOK'
  BY <1>1 DEF LinkInv, LinkShape, LinkTypeOK, LinkAt
<1>3. \A l \in Loop : LinkHas(l)'
  BY <1>1, LinkAssumption DEF LinkHas, SetUp
<1>4. LinkShape'
  <2>1. \A k, l \in Running' : own'[k] = own'[l] /\ own'[k] # NoConn => k = l
    BY <1>1 DEF Running
  <2>2. connection' \notin Conn /\ (service' = "down" => \A l \in Loop : at'[l] = "off")
    BY <1>1, LinkAssumption
  <2> QED BY <1>2, <1>3, <2>1, <2>2 DEF LinkShape
<1>5. LinkHope'
  BY <1>1, LinkAssumption DEF LinkHope, Retrying
<1>6. LinkBounds'
  <2>1. PICK R, H, U : R = Reconnecting' /\ H = Homeless' /\ U = Unwatched'
    OBVIOUS
  <2>2. R \in {{}, {MainLoop}} /\ H \in {{}, {MainLoop}} /\ U = {}
    BY <1>1, <2>1 DEF Reconnecting, Homeless, Unwatched, SetUp
  <2>3. Cardinality(R) \in 0 .. 1 /\ Cardinality(H) \in 0 .. 1 /\ Cardinality(U) = 0
    BY <2>2, FS_Singleton, FS_EmptySet
  <2>4. Cardinality(R) <= 1 + splits' /\ Cardinality(H) + Cardinality(U) <= 1 + splits' + strays'
    BY <1>1, <2>3
  <2> QED BY <2>1, <2>4 DEF LinkBounds
<1> QED BY <1>4, <1>5, <1>6 DEF LinkInv

LEMMA LinkInitial == LinkInit => LinkInv
<1> SUFFICES ASSUME LinkInit PROVE LinkInv
  OBVIOUS
<1>1. LinkTypeOK
  <2>1. at \in [Loop -> LinkAt] /\ own \in [Loop -> Conn \cup {NoConn}] /\ on \in [Loop -> Conn \cup {NoConn}]
    BY DEF LinkInit, LinkAt
  <2>2. lost \in 0 .. MaxLost
    BY LinkAssumption DEF LinkInit
  <2> QED BY <2>1, <2>2 DEF LinkInit, LinkTypeOK
<1>2. \A l \in Loop : LinkHas(l)
  BY LinkAssumption DEF LinkInit, LinkHas, SetUp
<1>3. LinkShape
  <2>1. \A k, l \in Running : own[k] = own[l] /\ own[k] # NoConn => k = l
    BY DEF LinkInit, Running
  <2>2. connection \notin Conn /\ service # "down"
    BY LinkAssumption DEF LinkInit
  <2> QED BY <1>1, <1>2, <2>1, <2>2 DEF LinkShape
<1>4. LinkHope
  BY LinkAssumption DEF LinkHope, LinkInit, Retrying
<1>5. LinkBounds
  <2>1. Reconnecting = {MainLoop} /\ Homeless = {MainLoop} /\ Unwatched = {}
    BY LinkAssumption DEF LinkInit, Reconnecting, Homeless, Unwatched, SetUp
  <2>2. Cardinality({MainLoop}) = 1 /\ Cardinality({}) = 0
    BY FS_Singleton, FS_EmptySet
  <2> QED BY <2>1, <2>2 DEF LinkBounds, LinkInit
<1> QED BY <1>3, <1>4, <1>5 DEF LinkInv

\* An attempt gets its connection, which is no other's.
LEMMA LinkConnectKeeps ==
    ASSUME LinkInv, NEW l \in Loop, NEW c \in Conn, LinkConnects(l, c)
    PROVE  LinkInv'
<1>1. /\ at[l] = "connect" /\ at'[l] = "open" /\ own[l] = NoConn /\ own'[l] = c
      /\ \A k \in Loop \ {l} : at'[k] = at[k] /\ own'[k] = own[k]
      /\ on' = on /\ connection' = c /\ open' = open \cup {c} /\ c \notin open
      /\ UNCHANGED <<service, broken, channel, tries, lost, spent, splits, strays>>
  BY DEF LinkInv, LinkShape, LinkTypeOK, LinkConnects, LinkHas, SetUp
<1>2. \A k \in Loop : own[k] # c
  BY <1>1, LinkAssumption DEF LinkInv, LinkShape, LinkTypeOK, LinkHas
<1>3. LinkTypeOK'
  BY <1>1 DEF LinkInv, LinkShape, LinkTypeOK, LinkConnects, LinkAt
<1>4. ASSUME NEW k \in Loop PROVE LinkHas(k)'
  BY <1>1, LinkAssumption DEF LinkInv, LinkShape, LinkHas, SetUp
<1>5. LinkShape'
  <2>1. \A j, k \in Running' : own'[j] = own'[k] /\ own'[j] # NoConn => j = k
    BY <1>1, <1>2 DEF LinkInv, LinkShape, Running
  <2>2. service' # "down"
    BY <1>1 DEF LinkInv, LinkShape
  <2> QED BY <1>1, <1>3, <1>4, <2>1, <2>2 DEF LinkShape
<1>6. LinkHope'
  BY <1>1, LinkAssumption DEF LinkInv, LinkHope
<1>7. LinkBounds'
  <2>1. Reconnecting' \subseteq Reconnecting /\ Homeless' \subseteq Homeless
    BY <1>1 DEF Reconnecting, Homeless, SetUp
  <2>2. Unwatched' \subseteq Unwatched
    BY <1>1 DEF Unwatched
  <2> QED BY <1>1, <2>1, <2>2, BoundsStay DEF LinkInv, LinkShape
<1> QED BY <1>5, <1>6, <1>7 DEF LinkInv

\* Attempts fail: what they have opened stays open, and may be unwatched.
LEMMA FailKeeps ==
    ASSUME LinkInv, NEW failing \in SUBSET Loop, failing # {}, Fail(failing),
           \/ \A k \in failing : at[k] \in SetUp
           \/ \E l \in Loop : failing = {l} /\ at[l] = "open",
           broken' \subseteq Conn, lost' \in 0 .. MaxLost, channel' \in Conn \cup {NoConn, Stale},
           UNCHANGED <<service, open, connection, tries, spent, strays>>
    PROVE  LinkInv'
<1>1. /\ at' = [l \in Loop |-> IF l \in failing THEN "failed" ELSE at[l]]
      /\ on' = [l \in Loop |-> IF l \in failing THEN NoConn ELSE on[l]]
      /\ own' = [l \in Loop |-> IF l \in failing THEN NoConn ELSE own[l]]
      /\ splits' = splits + Cardinality(failing)
      /\ \A k \in failing : at[k] \in SetUp \cup {"open"}
  BY DEF Fail
<1>2. Cardinality(failing) \in Nat /\ IsFiniteSet(failing)
  BY LinkFinite
<1>3. LinkTypeOK'
  BY <1>1, <1>2 DEF LinkInv, LinkShape, LinkTypeOK, LinkAt
<1>4. ASSUME NEW k \in Loop PROVE LinkHas(k)'
  <2>1. LinkHas(k)
    BY DEF LinkInv, LinkShape
  <2>2. CASE k \in failing
    BY <1>1, <2>2, LinkAssumption DEF LinkHas, SetUp
  <2>3. CASE k \notin failing
    BY <1>1, <2>1, <2>3 DEF LinkHas
  <2> QED BY <2>2, <2>3
<1>5. LinkShape'
  <2>1. \A j, k \in Running' : own'[j] = own'[k] /\ own'[j] # NoConn => j = k
    BY <1>1 DEF LinkInv, LinkShape, Running
  <2>2. service' # "down"
    BY <1>1 DEF LinkInv, LinkShape, SetUp
  <2> QED BY <1>3, <1>4, <2>1, <2>2 DEF LinkInv, LinkShape
<1>6. LinkHope'
  <2>1. \E k \in Loop : at'[k] \in Retrying
    BY <1>1 DEF Retrying
  <2> QED BY <2>1 DEF LinkInv, LinkHope
<1>7. LinkBounds'
  <2>1. CASE \A k \in failing : at[k] \in SetUp
    <3>1. Reconnecting' \subseteq Reconnecting \cup failing /\ Homeless' \subseteq Homeless \cup failing
      BY <1>1 DEF Reconnecting, Homeless
    <3>2. Unwatched' \subseteq Unwatched \cup {}
      BY <1>1, <2>1 DEF Unwatched, SetUp
    <3>3. IsFiniteSet({}) /\ Cardinality({}) = 0
      BY FS_EmptySet
    <3> QED BY <1>1, <1>2, <1>3, <3>1, <3>2, <3>3, BoundsGrow DEF LinkInv, LinkShape, LinkTypeOK
  <2>2. CASE \E l \in Loop : failing = {l} /\ at[l] = "open"
    <3>1. PICK l \in Loop : failing = {l} /\ at[l] = "open"
      BY <2>2
    <3>2. Reconnecting' \subseteq Reconnecting \cup {} /\ Homeless' \subseteq Homeless \cup {}
      BY <1>1, <3>1 DEF Reconnecting, Homeless, SetUp
    <3>3. Unwatched' \subseteq Unwatched \cup {own[l]}
      BY <1>1, <3>1 DEF Unwatched
    <3>4. /\ IsFiniteSet({own[l]}) /\ Cardinality({own[l]}) = 1 /\ Cardinality(failing) = 1
          /\ Cardinality({}) = 0
      BY <3>1, FS_Singleton, FS_EmptySet
    <3>5. splits \in Nat /\ strays \in Nat
      BY DEF LinkInv, LinkShape, LinkTypeOK
    <3>6. {} \in SUBSET Loop /\ splits' = splits + 1
      BY <1>1, <3>4
    <3> QED BY <3>2, <3>3, <3>4, <3>5, <3>6, BoundsGrow DEF LinkInv, LinkShape
  <2> QED BY <2>1, <2>2
<1> QED BY <1>5, <1>6, <1>7 DEF LinkInv

\* The handlers go on: on the call's own connection, on another's, which leaves
\* its own without, or nowhere.
LEMMA SwapBounded ==
    ASSUME NEW S \in SUBSET Loop, NEW l \in S, NEW new \in SUBSET Loop, Cardinality(new) = 1,
           NEW T, T \subseteq (S \ {l}) \cup new
    PROVE  Cardinality(T) <= Cardinality(S)
<1>1. IsFiniteSet(S) /\ IsFiniteSet(S \ {l}) /\ IsFiniteSet(new)
  BY LinkFinite
<1>2. Cardinality(S \ {l}) = Cardinality(S) - 1
  BY <1>1, FS_RemoveElement
<1>3. Cardinality(T) <= Cardinality(S \ {l}) + Cardinality(new)
  BY <1>1, LinkCovered
<1> QED BY <1>1, <1>2, <1>3, FS_CardinalityType

LEMMA LinkOpensKeeps ==
    ASSUME LinkInv, NEW l \in Loop, LinkOpens(l)
    PROVE  LinkInv'
<1>1. /\ at[l] = "open" /\ channel' = own[l] /\ own[l] \in Conn /\ own[l] \in open
      /\ UNCHANGED <<service, open, broken, connection, tries, lost, spent>>
      /\ LinkTypeOK
  BY DEF LinkOpens, LinkInv, LinkShape, LinkHas
<1>2. CASE connection = NoConn
  <2>1. Fail({l}) /\ strays' = strays
    BY <1>2 DEF LinkOpens
  <2>2. broken' \subseteq Conn /\ lost' \in 0 .. MaxLost
    BY <1>1 DEF LinkTypeOK
  <2>3. {l} \in SUBSET Loop /\ {l} # {} /\ \E k \in Loop : {l} = {k} /\ at[k] = "open"
    BY <1>1
  <2>4. channel' \in Conn \cup {NoConn, Stale}
    BY <1>1
  <2> QED BY <1>1, <2>1, <2>2, <2>3, <2>4, FailKeeps
<1>3. CASE connection # NoConn
  <2>1. PICK new \in SUBSET Spare :
          /\ Cardinality(new) = IF connection = Stale THEN 0 ELSE HandlersOfClose
          /\ at' = [k \in Loop |-> IF k = l THEN "exchange"
                                   ELSE IF k \in new THEN "armed" ELSE at[k]]
          /\ own' = [k \in Loop |-> IF k \in new THEN connection ELSE own[k]]
    BY <1>3 DEF LinkOpens
  <2>2. /\ on' = [on EXCEPT ![l] = own[l]] /\ splits' = splits
        /\ strays' = IF connection \in {own[l], Stale} THEN strays ELSE strays + 1
    BY <1>3 DEF LinkOpens
  <2>3. new \subseteq Loop /\ l \notin new /\ \A k \in new : at[k] = "off"
    BY <1>1 DEF Spare, Running, Armed
  <2>4. connection # Stale => connection \in Conn /\ connection \in open /\ Cardinality(new) = 1
    BY <1>3, <2>1 DEF LinkInv, LinkShape, LinkTypeOK, HandlersOfClose
  <2>5. connection = Stale => new = {}
    BY <2>1, <2>3, LinkFinite, FS_EmptySet
  <2>6. /\ at'[l] = "exchange" /\ own'[l] = own[l] /\ on'[l] = own[l]
        /\ \A k \in new : at'[k] = "armed" /\ own'[k] = connection /\ on'[k] = on[k]
        /\ \A k \in Loop \ ({l} \cup new) : at'[k] = at[k] /\ own'[k] = own[k] /\ on'[k] = on[k]
    <3>1. own \in [Loop -> Conn \cup {NoConn}] /\ on \in [Loop -> Conn \cup {NoConn}]
      BY <1>1 DEF LinkTypeOK
    <3>2. \A k \in Loop : on'[k] = IF k = l THEN own[l] ELSE on[k]
      BY <2>2, <3>1
    <3>3. \A k \in Loop : /\ at'[k] = (IF k = l THEN "exchange" ELSE IF k \in new THEN "armed" ELSE at[k])
                          /\ own'[k] = (IF k \in new THEN connection ELSE own[k])
      BY <2>1
    <3> QED BY <2>3, <3>2, <3>3
  <2>7. LinkTypeOK'
    BY <1>1, <2>1, <2>2, <2>4, <2>5 DEF LinkTypeOK, LinkAt, SetUp
  <2>8. ASSUME NEW k \in Loop PROVE LinkHas(k)'
    <3>1. LinkHas(k)
      BY DEF LinkInv, LinkShape
    <3>2. CASE k = l
      BY <1>1, <2>6, <3>1, <3>2 DEF LinkHas, SetUp
    <3>3. CASE k \in new
      BY <1>1, <2>3, <2>4, <2>5, <2>6, <3>1, <3>3 DEF LinkHas, SetUp
    <3>4. CASE k \notin {l} \cup new
      BY <1>1, <2>6, <3>1, <3>4 DEF LinkHas
    <3> QED BY <3>2, <3>3, <3>4
  <2>9. LinkShape'
    <3>1. \A j, k \in Running' : own'[j] = own'[k] /\ own'[j] # NoConn => j = k
      <4>1. \A k \in Running' : k \in Running /\ own'[k] = own[k]
        BY <1>1, <2>6 DEF Running
      <4> QED BY <4>1 DEF LinkInv, LinkShape
    <3>2. service' # "down"
      BY <1>1 DEF LinkInv, LinkShape
    <3> QED BY <1>1, <2>7, <2>8, <3>1, <3>2 DEF LinkInv, LinkShape
  <2>10. LinkHope'
    <3>1. connection = Stale => \A k \in Loop : at[k] \in Retrying => at'[k] \in Retrying
      BY <1>1, <2>5, <2>6 DEF Retrying
    <3>2. connection # Stale => \E k \in Loop : at'[k] = "armed" /\ own'[k] = connection
      <4> SUFFICES ASSUME connection # Stale PROVE \E k \in new : TRUE
        BY <2>3, <2>6
      <4> QED BY <2>4, FS_EmptySet
    <3>3. service # "down" /\ ~spent /\ connection = Stale => \E k \in Loop : at[k] \in Retrying
      BY DEF LinkInv, LinkHope
    <3>4. connection \in Conn => connection # Stale
      BY LinkAssumption
    <3> QED BY <1>1, <3>1, <3>2, <3>3, <3>4 DEF LinkInv, LinkHope
  <2>11. LinkBounds'
    <3>1. /\ l \in Reconnecting /\ l \in Homeless
          /\ Reconnecting' \subseteq (Reconnecting \ {l}) \cup new
          /\ Homeless' \subseteq (Homeless \ {l}) \cup new
      BY <1>1, <2>3, <2>6, LinkAssumption DEF Reconnecting, Homeless, SetUp
    <3>2. Unwatched' \subseteq Unwatched \cup {own[l]}
      BY <1>1, <2>3, <2>6 DEF Unwatched
    <3>3. PICK R, H, U : R = Reconnecting' /\ H = Homeless' /\ U = Unwatched'
      OBVIOUS
    <3>4. PICK R0, H0, U0 : R0 = Reconnecting /\ H0 = Homeless /\ U0 = Unwatched
      OBVIOUS
    <3>5. /\ R0 \in SUBSET Loop /\ H0 \in SUBSET Loop /\ U0 \in SUBSET Conn
          /\ R \in SUBSET Loop /\ H \in SUBSET Loop /\ U \in SUBSET Conn
      <4>1. LinkTypeOK' => Unwatched' \subseteq Conn
        BY DEF LinkTypeOK, Unwatched
      <4> QED BY <1>1, <2>7, <3>3, <3>4, <4>1, LinkSets
    <3>6. /\ Cardinality(R0) \in Nat /\ Cardinality(H0) \in Nat /\ Cardinality(U0) \in Nat
          /\ Cardinality(R) \in Nat /\ Cardinality(H) \in Nat /\ Cardinality(U) \in Nat
      BY <3>5, LinkFinite
    <3>7. /\ Cardinality(R0) <= 1 + splits
          /\ Cardinality(H0) + Cardinality(U0) <= 1 + splits + strays
          /\ splits \in Nat /\ strays \in Nat
      BY <1>1, <3>4 DEF LinkInv, LinkBounds, LinkTypeOK
    <3>8. Cardinality(U) <= Cardinality(U0) + 1
      <4>1. IsFiniteSet({own[l]}) /\ Cardinality({own[l]}) = 1 /\ IsFiniteSet(U0)
        BY <3>5, LinkFinite, FS_Singleton
      <4> QED BY <3>2, <3>3, <3>4, <4>1, LinkCovered
    <3>9. CASE connection = Stale
      <4>1. R \subseteq R0 /\ H \subseteq H0 \ {l} /\ l \in H0
        BY <2>5, <3>1, <3>3, <3>4, <3>9
      <4>2. Cardinality(R) <= Cardinality(R0) /\ Cardinality(H) <= Cardinality(H0 \ {l})
        BY <3>5, <4>1, LinkSmaller
      <4>3. Cardinality(H0 \ {l}) = Cardinality(H0) - 1
        BY <3>5, <4>1, LinkFinite, FS_RemoveElement
      <4>4. strays' = strays
        BY <2>2, <3>9
      <4>5. Cardinality(R) <= 1 + splits /\ Cardinality(H) + Cardinality(U) <= 1 + splits + strays
        BY <3>6, <3>7, <3>8, <4>2, <4>3
      <4> QED BY <2>2, <3>3, <4>4, <4>5 DEF LinkBounds
    <3>10. CASE connection # Stale
      <4>1. Cardinality(R) <= Cardinality(R0) /\ Cardinality(H) <= Cardinality(H0)
        BY <2>3, <2>4, <3>1, <3>3, <3>4, <3>5, <3>10, SwapBounded
      <4>2. CASE connection = own[l]
        <5>1. \E k \in new : TRUE
          BY <2>4, <3>10, FS_EmptySet
        <5>2. Unwatched' \subseteq Unwatched
          BY <1>1, <2>3, <2>6, <4>2, <5>1 DEF Unwatched
        <5>3. Cardinality(U) <= Cardinality(U0)
          BY <3>3, <3>4, <3>5, <5>2, LinkSmaller
        <5>4. strays' = strays
          BY <2>2, <4>2
        <5>5. Cardinality(R) <= 1 + splits /\ Cardinality(H) + Cardinality(U) <= 1 + splits + strays
          BY <3>6, <3>7, <4>1, <5>3
        <5> QED BY <2>2, <3>3, <5>4, <5>5 DEF LinkBounds
      <4>3. CASE connection # own[l]
        <5>1. strays' = strays + 1
          BY <2>2, <3>10, <4>3
        <5>2. Cardinality(R) <= 1 + splits /\ Cardinality(H) + Cardinality(U) <= 1 + splits + (strays + 1)
          BY <3>6, <3>7, <3>8, <4>1
        <5> QED BY <2>2, <3>3, <5>1, <5>2 DEF LinkBounds
      <4> QED BY <4>2, <4>3
    <3> QED BY <3>9, <3>10
  <2> QED BY <2>9, <2>10, <2>11 DEF LinkInv
<1> QED BY <1>2, <1>3

\* Calls that lose interest: no call joins, no handler is taken off and no call
\* that was after a connection or about to watch one turns away from it.
LEMMA QuietKeeps ==
    ASSUME LinkInv, NEW l \in Loop, LinkTypeOK',
           \A k \in Loop \ {l} : at'[k] = at[k] /\ own'[k] = own[k] /\ on'[k] = on[k],
           LinkHas(l)',
           at[l] \in SetUp \cup {"connect", "failed", "wait"},
           \/ at[l] \in SetUp /\ at'[l] \in SetUp \cup {"off"} /\ own'[l] \in {own[l], NoConn}
              /\ (at'[l] \in SetUp => own'[l] = own[l]) /\ spent' = spent
              /\ (tries' = tries \/ tries' = 0)
           \/ at[l] \notin SetUp /\ at'[l] \in {"off", "wait", "connect"} /\ own'[l] = own[l]
              /\ (at'[l] = "off" => spent') /\ (spent => spent') /\ (tries' >= MaxTries => spent'),
           service' # "down",
           UNCHANGED <<open, connection, splits, strays>>
    PROVE  LinkInv'
<1>1. LinkTypeOK /\ (\A k \in Loop : LinkHas(k)) /\ service # "down"
  BY DEF LinkInv, LinkShape, SetUp
<1>2. ASSUME NEW k \in Loop PROVE LinkHas(k)'
  <2>1. CASE k # l
    BY <1>1, <2>1 DEF LinkHas
  <2> QED BY <2>1
<1>3. own'[l] \in {own[l], NoConn} /\ at[l] \notin {"off", "armed", "open"} /\ at'[l] \notin {"armed", "open"}
  BY DEF SetUp
<1>4. LinkShape'
  <2>1. \A k \in Running' : k \in Running /\ own'[k] \in {own[k], NoConn}
    BY <1>3 DEF Running
  <2>2. \A j, k \in Running' : own'[j] = own'[k] /\ own'[j] # NoConn => j = k
    BY <2>1 DEF LinkInv, LinkShape
  <2> QED BY <1>2, <2>2 DEF LinkInv, LinkShape
<1>5. LinkHope'
  <2>1. CASE at[l] \in SetUp
    <3>1. /\ at'[l] \in SetUp \cup {"off"} /\ spent' = spent /\ (tries' = tries \/ tries' = 0)
          /\ at[l] \notin Retrying \cup {"armed", "open"}
      BY <2>1 DEF SetUp, Retrying
    <3>2. \A k \in Loop : at[k] \in Retrying \cup {"armed", "open"} => at'[k] = at[k] /\ own'[k] = own[k]
      BY <3>1
    <3>3. tries' >= MaxTries => spent'
      BY <3>1, LinkAssumption DEF LinkInv, LinkHope
    <3> QED BY <1>1, <3>1, <3>2, <3>3 DEF LinkInv, LinkHope
  <2>2. CASE at[l] \notin SetUp
    <3>1. spent' \/ \E k \in Loop : at'[k] \in Retrying
      BY <2>2 DEF SetUp, Retrying
    <3>2. tries' >= MaxTries => spent'
      BY <2>2
    <3> QED BY <3>1, <3>2 DEF LinkHope
  <2> QED BY <2>1, <2>2
<1>6. LinkBounds'
  <2>1. Reconnecting' \subseteq Reconnecting /\ Homeless' \subseteq Homeless
    BY LinkAssumption DEF Reconnecting, Homeless, SetUp
  <2>2. Unwatched' \subseteq Unwatched
    BY <1>3 DEF Unwatched
  <2> QED BY <1>1, <2>1, <2>2, BoundsStay DEF LinkInv
<1> QED BY <1>4, <1>5, <1>6 DEF LinkInv

\* A command answers.
LEMMA LinkRepliesKeeps ==
    ASSUME LinkInv, NEW l \in Loop, LinkReplies(l)
    PROVE  LinkInv'
<1>1. /\ at[l] \in SetUp /\ LinkTypeOK /\ LinkHas(l) /\ service # "down" /\ at[l] # "off"
      /\ UNCHANGED <<open, broken, connection, channel, lost, spent, strays>>
  BY DEF LinkReplies, LinkInv, LinkShape, SetUp
<1>2. ASSUME NEW next \in SetUp, Send(l, next), UNCHANGED <<service, tries>>
      PROVE  LinkInv'
  <2>1. CASE channel \in open \ broken
    <3>1. /\ at' = [at EXCEPT ![l] = next] /\ on' = [on EXCEPT ![l] = channel]
          /\ UNCHANGED <<own, splits>> /\ channel \in Conn
      BY <1>1, <1>2, <2>1 DEF Send, LinkTypeOK
    <3>2. LinkTypeOK'
      BY <1>1, <1>2, <3>1 DEF LinkTypeOK, LinkAt
    <3>3. /\ at'[l] = next /\ on'[l] = channel /\ own'[l] = own[l]
          /\ \A k \in Loop \ {l} : at'[k] = at[k] /\ own'[k] = own[k] /\ on'[k] = on[k]
      BY <1>1, <3>1 DEF LinkTypeOK
    <3>4. LinkHas(l)'
      BY <1>1, <3>1, <3>3 DEF LinkHas, SetUp
    <3> QED BY <1>1, <1>2, <3>1, <3>2, <3>3, <3>4, QuietKeeps
  <2>2. CASE channel \notin open \ broken
    <3>1. Fail({l})
      BY <1>2, <2>2 DEF Send
    <3>2. {l} \in SUBSET Loop /\ {l} # {} /\ \A k \in {l} : at[k] \in SetUp
      BY <1>1
    <3>3. broken' \subseteq Conn /\ lost' \in 0 .. MaxLost /\ channel' \in Conn \cup {NoConn, Stale}
      BY <1>1 DEF LinkTypeOK
    <3> QED BY <1>1, <1>2, <3>1, <3>2, <3>3, FailKeeps
  <2> QED BY <2>1, <2>2
<1>3. ASSUME at[l] = "prefetch", Returns(l), tries' = 0, own' = [own EXCEPT ![l] = NoConn],
             on' = [on EXCEPT ![l] = NoConn], UNCHANGED splits
      PROVE  LinkInv'
  <2>1. /\ at' = [at EXCEPT ![l] = "off"]
        /\ service' \in {"listening", service} /\ service' # "down"
    BY <1>1, <1>3 DEF Returns
  <2>2. LinkTypeOK'
    BY <1>1, <1>3, <2>1 DEF LinkTypeOK, LinkAt
  <2>3. /\ at'[l] = "off" /\ on'[l] = NoConn /\ own'[l] = NoConn
        /\ \A k \in Loop \ {l} : at'[k] = at[k] /\ own'[k] = own[k] /\ on'[k] = on[k]
    BY <1>1, <1>3, <2>1 DEF LinkTypeOK
  <2>4. LinkHas(l)'
    BY <2>3, LinkAssumption DEF LinkHas, SetUp
  <2> QED BY <1>1, <1>3, <2>1, <2>2, <2>3, <2>4, QuietKeeps DEF SetUp
<1>4. \/ \E next \in SetUp : Send(l, next) /\ UNCHANGED <<service, tries>>
      \/ /\ at[l] = "prefetch" /\ Returns(l) /\ tries' = 0 /\ UNCHANGED splits
         /\ own' = [own EXCEPT ![l] = NoConn] /\ on' = [on EXCEPT ![l] = NoConn]
  BY DEF LinkReplies, SetUp
<1> QED BY <1>2, <1>3, <1>4

\* The catch block.
LEMMA LinkCatchesKeeps ==
    ASSUME LinkInv, NEW l \in Loop, LinkCatches(l)
    PROVE  LinkInv'
<1>1. /\ at[l] \in {"connect", "failed"} /\ lost' = lost /\ LinkTypeOK /\ LinkHas(l)
      /\ service # "down"
  BY DEF LinkCatches, LinkInv, LinkShape
<1>2. CASE FirstState("down")
  BY <1>1, <1>2, FirstStateKeeps
<1>3. CASE ~FirstState("down")
  <2>1. /\ tries' = tries + 1 /\ spent' = (spent \/ tries + 1 >= MaxTries)
        /\ at' = [at EXCEPT ![l] = IF GivesUp(tries + 1) THEN "off" ELSE "wait"]
        /\ UNCHANGED <<service, own, on, open, broken, connection, channel, splits, strays>>
    BY <1>3 DEF LinkCatches
  <2>2. LinkTypeOK'
    BY <1>1, <2>1 DEF LinkTypeOK, LinkAt
  <2>3. /\ at'[l] \in {"off", "wait"} /\ (at'[l] = "off" => tries + 1 >= MaxTries)
        /\ \A k \in Loop \ {l} : at'[k] = at[k]
    BY <1>1, <2>1 DEF LinkTypeOK, GivesUp
  <2>4. LinkHas(l)'
    BY <1>1, <2>1, <2>3, LinkAssumption DEF LinkHas, SetUp
  <2>5. tries' >= MaxTries => spent'
    BY <2>1
  <2> QED BY <1>1, <2>1, <2>2, <2>3, <2>4, <2>5, QuietKeeps DEF SetUp
<1> QED BY <1>2, <1>3

\* The loop's condition.
LEMMA LinkWakesKeeps ==
    ASSUME LinkInv, NEW l \in Loop, LinkWakes(l)
    PROVE  LinkInv'
<1>1. /\ at[l] = "wait" /\ LinkTypeOK /\ LinkHas(l) /\ service # "down" /\ (tries >= MaxTries => spent)
      /\ UNCHANGED <<own, on, open, broken, connection, channel, tries, lost, spent, splits, strays>>
  BY DEF LinkWakes, LinkInv, LinkShape, LinkHope
<1>2. /\ at' = [at EXCEPT ![l] = IF tries < MaxTries THEN "connect" ELSE "off"]
      /\ service' \in {"listening", service} /\ service' # "down"
  BY <1>1 DEF LinkWakes, Returns
<1>3. LinkTypeOK'
  BY <1>1, <1>2 DEF LinkTypeOK, LinkAt
<1>4. /\ at'[l] \in {"off", "connect"} /\ (at'[l] = "off" => ~(tries < MaxTries))
      /\ \A k \in Loop \ {l} : at'[k] = at[k]
  BY <1>1, <1>2 DEF LinkTypeOK
<1>5. at'[l] = "off" => spent'
  BY <1>1, <1>4, LinkAssumption DEF LinkTypeOK
<1>6. LinkHas(l)'
  BY <1>1, <1>4, LinkAssumption DEF LinkHas, SetUp
<1> QED BY <1>1, <1>2, <1>3, <1>4, <1>5, <1>6, QuietKeeps DEF SetUp

\* The broker closes a channel, and every command on it fails.
LEMMA LinkRefusedKeeps ==
    ASSUME LinkInv, NEW l \in Loop, LinkRefused(l)
    PROVE  LinkInv'
<1> DEFINE failing == {k \in Loop : k = l \/ (at[l] \in SetUp /\ on[k] = on[l])}
<1>1. /\ at[l] \in SetUp \cup {"open"} /\ LinkTypeOK /\ (\A k \in Loop : LinkHas(k))
      /\ lost < MaxLost /\ lost' = lost + 1 /\ Fail(failing)
      /\ broken' = (IF at[l] = "open" THEN broken ELSE broken \cup {on[l]})
      /\ UNCHANGED <<service, open, connection, channel, tries, spent, strays>>
  BY DEF LinkRefused, LinkInv, LinkShape
<1>2. /\ broken' \subseteq Conn /\ lost' \in 0 .. MaxLost /\ channel' \in Conn \cup {NoConn, Stale}
  BY <1>1, LinkAssumption DEF LinkTypeOK, LinkHas, SetUp
<1>3. failing \in SUBSET Loop /\ failing # {}
  OBVIOUS
<1>4. CASE at[l] \in SetUp
  <2>1. \A k \in failing : at[k] \in SetUp
    BY <1>1, <1>4, LinkAssumption DEF LinkHas
  <2> HIDE DEF failing
  <2> QED BY <1>1, <1>2, <1>3, <2>1, FailKeeps
<1>5. CASE at[l] = "open"
  <2>1. failing = {l}
    BY <1>5 DEF SetUp
  <2> HIDE DEF failing
  <2> QED BY <1>1, <1>2, <1>3, <1>5, <2>1, FailKeeps
<1> QED BY <1>1, <1>4, <1>5

\* A connection is lost.  The calls it takes down midway are faults of theirs;
\* its handlers, and the calls that had still to put one on, go on.
LEMMA LinkLostKeeps ==
    ASSUME LinkInv, NEW c \in Conn, LinkLost(c)
    PROVE  LinkInv'
<1> DEFINE hit == {l \in Loop : on[l] = c \/ (at[l] = "open" /\ own[l] = c)}
           heard == {l \in Armed : own[l] = c}
           cut == {l \in Loop : at[l] \in SetUp /\ c \in {on[l], own[l]}}
<1>1. /\ c \in open /\ lost < MaxLost /\ lost' = lost + 1
      /\ open' = open \ {c} /\ broken' = broken \ {c}
      /\ connection' = (IF heard # {} THEN NoConn ELSE IF connection = c THEN Stale ELSE connection)
      /\ channel' = (IF heard # {} THEN NoConn ELSE IF channel = c THEN Stale ELSE channel)
      /\ splits' = splits + Cardinality(cut)
      /\ UNCHANGED <<service, tries, spent, strays>>
  BY DEF LinkLost, LinkCloses
<1>2. /\ at' = [l \in Loop |-> IF l \in hit THEN "failed"
                               ELSE IF l \notin heard THEN at[l]
                               ELSE IF tries < MaxTries THEN "connect" ELSE "off"]
      /\ on' = [l \in Loop |-> IF l \in hit THEN NoConn ELSE on[l]]
      /\ own' = [l \in Loop |-> IF l \in hit \/ own[l] = c THEN NoConn ELSE own[l]]
  BY DEF LinkLost, LinkCloses
<1>3. LinkTypeOK /\ (\A l \in Loop : LinkHas(l))
  BY DEF LinkInv, LinkShape
<1>4. hit \subseteq Loop /\ heard \subseteq Loop /\ cut \in SUBSET Loop /\ Cardinality(cut) \in Nat
  BY LinkFinite DEF Armed
<1>5. /\ \A l \in Loop : l \in hit <=> on[l] = c \/ (at[l] = "open" /\ own[l] = c)
      /\ \A l \in Loop : l \in heard <=> at[l] = "armed" /\ own[l] = c
      /\ \A l \in Loop : l \in cut <=> at[l] \in SetUp /\ c \in {on[l], own[l]}
  BY DEF Armed
<1> HIDE DEF hit, heard, cut
<1>6. \A l \in hit : at[l] \in SetUp \cup {"open"}
  BY <1>3, <1>4, <1>5, LinkAssumption DEF LinkHas
<1>7. LinkTypeOK'
  BY <1>1, <1>2, <1>3, <1>4, LinkAssumption DEF LinkTypeOK, LinkAt
<1>8. ASSUME NEW l \in Loop PROVE LinkHas(l)'
  <2>1. LinkHas(l)
    BY <1>3
  <2>2. CASE l \in hit
    BY <1>2, <2>2, LinkAssumption DEF LinkHas, SetUp
  <2>3. CASE l \notin hit /\ l \in heard
    BY <1>2, <1>5, <2>1, <2>3, LinkAssumption DEF LinkHas, SetUp
  <2>4. CASE l \notin hit /\ l \notin heard
    BY <1>1, <1>2, <1>5, <2>1, <2>4, LinkAssumption DEF LinkHas, SetUp
  <2> QED BY <2>2, <2>3, <2>4
<1>9. LinkShape'
  <2>1. \A j, k \in Running' : own'[j] = own'[k] /\ own'[j] # NoConn => j = k
    <3>1. \A l \in Running' : own'[l] # NoConn => l \in Running /\ own'[l] = own[l]
      BY <1>2, <1>5 DEF Running
    <3> QED BY <3>1 DEF LinkInv, LinkShape, Running
  <2>2. connection' \in Conn => connection' \in open'
    BY <1>1, LinkAssumption DEF LinkInv, LinkShape
  <2>3. service' = "down" => \A l \in Loop : at'[l] = "off"
    BY <1>1, <1>2, <1>5, <1>6 DEF LinkInv, LinkShape, SetUp
  <2> QED BY <1>7, <1>8, <2>1, <2>2, <2>3 DEF LinkShape
<1>10. LinkHope'
  <2>1. (tries' >= MaxTries => spent') /\ (~spent => tries < MaxTries)
    BY <1>1, <1>3, LinkAssumption DEF LinkInv, LinkHope, LinkTypeOK
  <2>2. \A l \in Loop : at[l] \in Retrying => at'[l] = at[l]
    BY <1>2, <1>5, <1>6 DEF Retrying, SetUp
  <2>3. CASE spent \/ service = "down"
    BY <1>1, <2>1, <2>3 DEF LinkHope
  <2>4. CASE ~spent /\ hit \cup heard # {}
    <3>1. \E l \in Loop : at'[l] \in Retrying
      BY <1>2, <1>4, <2>1, <2>4 DEF Retrying
    <3> QED BY <2>1, <3>1 DEF LinkHope
  <2>5. CASE ~spent /\ service # "down" /\ hit = {} /\ heard = {}
    <3>1. at' = [l \in Loop |-> at[l]] /\ \A l \in Loop : own[l] # c => own'[l] = own[l]
      BY <1>2, <2>5
    <3>2. \A l \in Loop : at'[l] = at[l]
      BY <3>1
    <3>3. \A l \in Loop : at[l] \in {"armed", "open"} => own[l] # c
      BY <1>5, <2>5
    <3>4. connection' = IF connection = c THEN Stale ELSE connection
      BY <1>1, <2>5
    <3>5. CASE connection = c
      BY <2>1, <2>5, <3>2, <3>3, <3>4, <3>5, LinkAssumption DEF LinkInv, LinkHope
    <3>6. CASE connection # c
      BY <2>1, <2>5, <3>1, <3>2, <3>3, <3>4, <3>6 DEF LinkInv, LinkHope
    <3> QED BY <3>5, <3>6
  <2> QED BY <2>3, <2>4, <2>5
<1>11. LinkBounds'
  <2>1. Reconnecting' \subseteq Reconnecting \cup cut
    BY <1>2, <1>5, <1>6, LinkAssumption DEF Reconnecting, SetUp
  <2>2. Homeless' \subseteq Homeless \cup cut
    BY <1>2, <1>5, <1>6, LinkAssumption DEF Homeless, SetUp
  <2>3. Unwatched' \subseteq Unwatched \cup {}
    <3>1. ASSUME NEW l \in Loop, at[l] \in {"armed", "open"}, own[l] # c
          PROVE  at'[l] = at[l] /\ own'[l] = own[l]
      BY <1>2, <1>3, <1>5, <3>1, LinkAssumption DEF LinkHas, SetUp
    <3> QED BY <1>1, <3>1 DEF Unwatched
  <2>4. IsFiniteSet({}) /\ Cardinality({}) = 0
    BY FS_EmptySet
  <2>5. splits' \in Nat /\ strays' \in Nat /\ strays \in Nat /\ splits \in Nat
    BY <1>3, <1>7 DEF LinkTypeOK
  <2> QED BY <1>1, <1>3, <1>4, <2>1, <2>2, <2>3, <2>4, <2>5, BoundsGrow DEF LinkInv
<1> QED BY <1>9, <1>10, <1>11 DEF LinkInv

\* Nothing that the invariant speaks of changes.
LEMMA LinkStutters ==
    ASSUME LinkInv, UNCHANGED linkVars
    PROVE  LinkInv'
<1>1. UNCHANGED <<service, at, own, on, open, broken, connection, channel, tries, lost,
                  spent, splits, strays>>
  BY DEF linkVars
<1>2. LinkTypeOK' /\ \A l \in Loop : LinkHas(l)'
  BY <1>1 DEF LinkInv, LinkShape, LinkTypeOK, LinkHas
<1>3. LinkShape'
  BY <1>1, <1>2 DEF LinkInv, LinkShape, Running
<1>4. LinkHope'
  BY <1>1 DEF LinkInv, LinkHope
<1>5. LinkBounds'
  BY <1>1 DEF LinkInv, LinkBounds, Reconnecting, Homeless, Unwatched
<1> QED BY <1>3, <1>4, <1>5 DEF LinkInv

\* main() starts its consumers, or throws.
LEMMA LinkConsumesKeeps ==
    ASSUME LinkInv, LinkConsumes
    PROVE  LinkInv'
<1>1. CASE FirstState("down")
  BY <1>1, FirstStateKeeps DEF LinkConsumes
<1>2. CASE ~FirstState("down")
  <2>1. /\ service = "listening" /\ service' = "serving"
        /\ UNCHANGED <<at, own, on, open, broken, connection, channel, tries, lost, spent,
                       splits, strays>>
    BY <1>2 DEF LinkConsumes
  <2>2. LinkTypeOK' /\ \A l \in Loop : LinkHas(l)'
    BY <2>1 DEF LinkInv, LinkShape, LinkTypeOK, LinkHas
  <2>3. LinkShape'
    BY <2>1, <2>2 DEF LinkInv, LinkShape, Running
  <2>4. LinkHope'
    BY <2>1 DEF LinkInv, LinkHope
  <2>5. LinkBounds'
    BY <2>1 DEF LinkInv, LinkBounds, Reconnecting, Homeless, Unwatched
  <2> QED BY <2>3, <2>4, <2>5 DEF LinkInv
<1> QED BY <1>1, <1>2

\* Every step keeps the invariant.
LEMMA LinkStepKeeps ==
    ASSUME LinkInv, [LinkNext]_linkVars
    PROVE  LinkInv'
<1>1. ASSUME NEW l \in Loop, NEW c \in Conn, LinkConnects(l, c)
      PROVE  LinkInv'
  BY <1>1, LinkConnectKeeps
<1>2. ASSUME NEW l \in Loop, LinkOpens(l)
      PROVE  LinkInv'
  BY <1>2, LinkOpensKeeps
<1>3. ASSUME NEW l \in Loop, LinkReplies(l)
      PROVE  LinkInv'
  BY <1>3, LinkRepliesKeeps
<1>4. ASSUME NEW l \in Loop, LinkCatches(l)
      PROVE  LinkInv'
  BY <1>4, LinkCatchesKeeps
<1>5. ASSUME NEW l \in Loop, LinkWakes(l)
      PROVE  LinkInv'
  BY <1>5, LinkWakesKeeps
<1>6. ASSUME NEW l \in Loop, LinkRefused(l)
      PROVE  LinkInv'
  BY <1>6, LinkRefusedKeeps
<1>7. ASSUME NEW c \in Conn, LinkLost(c)
      PROVE  LinkInv'
  BY <1>7, LinkLostKeeps
<1>8. CASE LinkConsumes
  BY <1>8, LinkConsumesKeeps
<1>9. CASE LinkExits \/ LinkRestarts
  BY <1>9, FirstStateKeeps DEF LinkExits, LinkRestarts
<1>10. CASE UNCHANGED linkVars
  BY <1>10, LinkStutters
<1> QED BY <1>1, <1>2, <1>3, <1>4, <1>5, <1>6, <1>7, <1>8, <1>9, <1>10 DEF LinkNext

\* Of every run of the service alone: a connection that the variable holds is
\* open, or known to be closed, and while retries are left somebody watches it
\* or is after the next (connection.ts:12-33); and the calls and connections
\* that a fault leaves over are counted.
THEOREM LinkInvariant == LinkSpec => []LinkInv
<1>1. LinkInit => LinkInv
  BY LinkInitial
<1>2. LinkInv /\ [LinkNext]_linkVars => LinkInv'
  BY LinkStepKeeps
<1> QED BY <1>1, <1>2, PTL DEF LinkSpec

\* Sets without a common element.
LEMMA LinkApart ==
    ASSUME NEW S, IsFiniteSet(S), NEW T, IsFiniteSet(T), S \cap T = {}
    PROVE  IsFiniteSet(S \cup T) /\ Cardinality(S \cup T) = Cardinality(S) + Cardinality(T)
<1>1. IsFiniteSet(S \cup T) /\ Cardinality(S \cup T) = Cardinality(S) + Cardinality(T) - Cardinality(S \cap T)
  BY FS_Union
<1>2. Cardinality(S \cap T) = 0 /\ Cardinality(S) \in Nat /\ Cardinality(T) \in Nat
  BY FS_EmptySet, FS_CardinalityType
<1> QED BY <1>1, <1>2

\* A connection that no call is at work on, or that one has in its set-up, is
\* unwatched or has a handler of its own.
LEMMA LinkInvBounds == LinkInv => ConnectionsBounded
<1> SUFFICES ASSUME LinkInv PROVE ConnectionsBounded
  OBVIOUS
<1> DEFINE early == {l \in Running : at[l] \notin SetUp}
           held == {l \in Running : at[l] \in SetUp /\ own[l] # NoConn}
           gone == {l \in Running : at[l] \in SetUp /\ own[l] = NoConn}
           holds == {c \in Conn : \E l \in held : c = own[l]}
           watched == {c \in Conn : \E l \in Armed : c = own[l]}
<1>1. LinkTypeOK /\ (\A l \in Loop : LinkHas(l))
  BY DEF LinkInv, LinkShape
<1>2. /\ early \in SUBSET Loop /\ held \in SUBSET Loop /\ gone \in SUBSET Loop
      /\ Armed \in SUBSET Loop /\ Running \in SUBSET Loop
      /\ holds \in SUBSET Conn /\ watched \in SUBSET Conn
      /\ Loose \in SUBSET Conn /\ Unwatched \in SUBSET Conn
      /\ Reconnecting \in SUBSET Loop /\ Homeless \in SUBSET Loop
  BY <1>1 DEF Armed, Running, Loose, LinkTypeOK, Unwatched, Reconnecting, Homeless
<1>3. /\ IsFiniteSet(early) /\ IsFiniteSet(held) /\ IsFiniteSet(gone) /\ IsFiniteSet(Armed)
      /\ IsFiniteSet(holds) /\ IsFiniteSet(watched) /\ IsFiniteSet(Loose)
      /\ IsFiniteSet(Unwatched) /\ IsFiniteSet(Reconnecting) /\ IsFiniteSet(Homeless)
      /\ Cardinality(early) \in Nat /\ Cardinality(held) \in Nat /\ Cardinality(gone) \in Nat
      /\ Cardinality(Armed) \in Nat /\ Cardinality(Running) \in Nat
      /\ Cardinality(holds) \in Nat /\ Cardinality(watched) \in Nat
      /\ Cardinality(Loose) \in Nat /\ Cardinality(Unwatched) \in Nat
      /\ Cardinality(Reconnecting) \in Nat /\ Cardinality(Homeless) \in Nat
  BY <1>2, LinkFinite
<1>4. Cardinality(Reconnecting) = Cardinality(Armed) + Cardinality(early)
  <2>1. Reconnecting = Armed \cup early /\ Armed \cap early = {}
    BY DEF Reconnecting, Armed, Running, SetUp
  <2> HIDE DEF early
  <2> QED BY <1>3, <2>1, LinkApart
<1>5. Cardinality(Homeless) = Cardinality(Reconnecting) + Cardinality(gone)
  <2>1. Homeless = Reconnecting \cup gone /\ Reconnecting \cap gone = {}
    BY <1>1 DEF Homeless, Reconnecting, Armed, Running, SetUp
  <2> HIDE DEF gone
  <2> QED BY <1>3, <2>1, LinkApart
<1>6. Cardinality(Running) <= Cardinality(early) + Cardinality(gone) + Cardinality(held)
  <2>1. Running \subseteq (early \cup gone) \cup held
    OBVIOUS
  <2> HIDE DEF early, gone, held
  <2>2. IsFiniteSet(early \cup gone) /\ Cardinality(early \cup gone) <= Cardinality(early) + Cardinality(gone)
    BY <1>3, LinkUnion
  <2>3. Cardinality(Running) <= Cardinality(early \cup gone) + Cardinality(held)
    BY <1>3, <2>1, <2>2, LinkCovered
  <2>4. Cardinality(early \cup gone) \in Nat
    BY <2>2, FS_CardinalityType
  <2> QED BY <1>3, <2>2, <2>3, <2>4
<1>7. Cardinality(held) <= Cardinality(holds)
  <2>1. \A l \in held : own[l] \in holds
    BY <1>1 DEF LinkTypeOK, Running
  <2>2. \A k, l \in held : own[k] = own[l] => k = l
    BY DEF LinkInv, LinkShape
  <2> HIDE DEF held, holds
  <2>3. PICK f : f = [l \in held |-> own[l]]
    OBVIOUS
  <2>4. f \in Injection(held, holds)
    BY <2>1, <2>2, <2>3 DEF Injection, IsInjective
  <2> QED BY <1>3, <2>4, FS_Injection
<1>8. Cardinality(watched) <= Cardinality(Armed)
  BY <1>1, <1>2, OwnedBounded DEF LinkTypeOK
<1>9. Cardinality(holds) + Cardinality(Loose) <= Cardinality(Unwatched) + Cardinality(watched)
  <2>1. holds \cap Loose = {}
    BY DEF Loose
  <2>2. holds \cup Loose \subseteq Unwatched \cup watched
    <3>1. ASSUME NEW c \in holds \cup Loose, c \notin watched
          PROVE  c \in Unwatched
      <4>1. c \in open /\ c \in Conn
        BY <1>1, <1>2, LinkAssumption DEF Loose, LinkHas
      <4>2. ASSUME NEW k \in Loop, at[k] \in {"armed", "open"}, own[k] = c
            PROVE  FALSE
        <5>1. at[k] = "open" /\ k \in Running
          BY <3>1, <4>1, <4>2 DEF Armed, Running
        <5>2. c \in holds
          BY <3>1, <4>2, <5>1 DEF Loose
        <5>3. PICK l \in held : c = own[l]
          BY <5>2
        <5>4. k = l
          BY <4>1, <4>2, <5>1, <5>3, LinkAssumption DEF LinkInv, LinkShape
        <5> QED BY <5>1, <5>3, <5>4 DEF SetUp
      <4> QED BY <4>1, <4>2 DEF Unwatched
    <3> QED BY <3>1
  <2> HIDE DEF holds, watched
  <2>3. IsFiniteSet(holds \cup Loose) /\ Cardinality(holds \cup Loose) = Cardinality(holds) + Cardinality(Loose)
    BY <1>3, <2>1, LinkApart
  <2>4. Cardinality(holds \cup Loose) <= Cardinality(Unwatched) + Cardinality(watched)
    BY <1>3, <2>2, LinkCovered
  <2> QED BY <2>3, <2>4
<1>10. /\ Cardinality(Reconnecting) <= 1 + splits
       /\ Cardinality(Homeless) + Cardinality(Unwatched) <= 1 + splits + strays
       /\ splits \in Nat /\ strays \in Nat
  BY <1>1 DEF LinkInv, LinkBounds, LinkTypeOK
<1>11. Cardinality(Armed) + Cardinality(early) <= 1 + splits
  BY <1>4, <1>10
<1> HIDE DEF early, held, gone, holds, watched
<1>12. Cardinality(Running) + Cardinality(Loose) <= 1 + splits + strays
  BY <1>3, <1>4, <1>5, <1>6, <1>7, <1>8, <1>9, <1>10
<1> QED BY <1>11, <1>12 DEF ConnectionsBounded, early

\* Close handlers, calls of connect() and connections left open stay within
\* what the faults account for, for any retries, faults and calls
\* (connection.ts:12-52).
THEOREM ConnectionsAreBounded == LinkSpec => []ConnectionsBounded
BY LinkInvariant, LinkInvBounds, PTL

\* While it has retries left the service does not rest with nobody watching a
\* connection or after one (connection.ts:28-48).
THEOREM NeverGivenUpEarly == LinkSpec => []NotGivenUpEarly
<1>1. LinkInv => NotGivenUpEarly
  BY DEF LinkInv, LinkHope, NotGivenUpEarly, Running, Armed, Retrying
<1> QED BY <1>1, LinkInvariant, PTL

-----------------------------------------------------------------------------
(***************************************************************************)
(* ProcessorStart.  The commands of main() as a sequence first, then the   *)
(* invariant: what a pod has at each point of main(), and what the broker  *)
(* has by then.                                                            *)
(***************************************************************************)

\* Two sequences, one behind the other: what is where.
LEMMA JoinedOrder ==
    ASSUME NEW S, NEW e \in Seq(S), NEW q \in Seq(S), NEW r, r = e \o q
    PROVE  /\ Len(r) = Len(e) + Len(q)
           /\ \A i \in 1 .. Len(e) : r[i] = e[i]
           /\ \A i \in 1 .. Len(q) : r[Len(e) + i] = q[i]
<1>1. Len(r) = Len(e) + Len(q)
  BY ConcatProperties
<1>2. ASSUME NEW i \in 1 .. Len(e) PROVE r[i] = e[i]
  BY ConcatProperties, LenProperties
<1>3. ASSUME NEW i \in 1 .. Len(q) PROVE r[Len(e) + i] = q[i]
  BY ConcatProperties, LenProperties
<1> QED BY <1>1, <1>2, <1>3

\* What is in it.
LEMMA JoinedSet ==
    ASSUME NEW S, NEW e \in Seq(S), NEW q \in Seq(S)
    PROVE  e \o q \in Seq(S) /\ ToSet(e \o q) = ToSet(e) \cup ToSet(q)
<1>1. ToSet(e \o q) = Range(e \o q) /\ ToSet(e) = Range(e) /\ ToSet(q) = Range(q)
  BY DEF ToSet, Range
<1> QED BY <1>1, RangeConcatenation, ConcatProperties

\* A command for every element of a sequence.
LEMMA EachProperties ==
    ASSUME NEW s, s \in Seq(ToSet(s)), NEW kind
    PROVE  /\ Each(kind, s) \in Seq([do : {kind}, of : ToSet(s)])
           /\ ToSet(Each(kind, s)) = {[do |-> kind, of |-> x] : x \in ToSet(s)}
<1>1. Len(s) \in Nat /\ DOMAIN s = 1 .. Len(s)
  BY LenProperties
<1>2. \A i \in 1 .. Len(s) : s[i] \in ToSet(s)
  BY <1>1 DEF ToSet
<1>3. Each(kind, s) \in [1 .. Len(s) -> [do : {kind}, of : ToSet(s)]]
  BY <1>2 DEF Each
<1>4. Each(kind, s) \in Seq([do : {kind}, of : ToSet(s)])
  <2>1. PICK T : T = [do : {kind}, of : ToSet(s)]
    OBVIOUS
  <2>2. PICK f : f = Each(kind, s)
    OBVIOUS
  <2>3. f \in [1 .. Len(s) -> T]
    BY <1>3, <2>1, <2>2
  <2>4. f \in Seq(T)
    BY <1>1, <2>3, IsASeq
  <2> QED BY <2>1, <2>2, <2>4
<1>5. DOMAIN Each(kind, s) = DOMAIN s
  BY <1>1 DEF Each
<1>6. ToSet(Each(kind, s)) = {[do |-> kind, of |-> s[i]] : i \in DOMAIN s}
  BY <1>1, <1>5 DEF ToSet, Each
<1> QED BY <1>4, <1>6 DEF ToSet

\* What main() may send.
Sent == [do : {"exchange", "queue", "bind", "consume"},
         of : ToSet(EXCHANGES) \cup ToSet(QUEUES) \cup ToSet(Bindings) \cup ToSet(Workers)]

\* The commands of main() that declare something.
Topology == ToSet(setupQueueTopology)

\* The constants are sequences.
LEMMA TheSequences ==
    /\ EXCHANGES \in Seq(ToSet(EXCHANGES))
    /\ QUEUES \in Seq(ToSet(QUEUES))
    /\ Bindings \in Seq(ToSet(Bindings))
    /\ Workers \in Seq(ToSet(Workers))
<1>1. EXCHANGES \in Seq(ToSet(EXCHANGES))
  BY DEF EXCHANGES, ToSet
<1>2. QUEUES \in Seq(ToSet(QUEUES))
  BY DEF QUEUES, ToSet
<1>3. Bindings \in Seq(ToSet(Bindings))
  BY DEF Bindings, ToSet
<1>4. Workers \in Seq(ToSet(Workers))
  BY DEF Workers, ToSet
<1> QED BY <1>1, <1>2, <1>3, <1>4

\* A sequence of commands of one kind is one of commands.
LEMMA EachIsSent ==
    ASSUME NEW s, s \in Seq(ToSet(s)), NEW kind \in {"exchange", "queue", "bind", "consume"},
           ToSet(s) \subseteq ToSet(EXCHANGES) \cup ToSet(QUEUES) \cup ToSet(Bindings) \cup ToSet(Workers)
    PROVE  Each(kind, s) \in Seq(Sent)
<1>1. [do : {kind}, of : ToSet(s)] \subseteq Sent
  BY DEF Sent
<1>2. PICK T : T = [do : {kind}, of : ToSet(s)]
  OBVIOUS
<1>3. PICK f : f = Each(kind, s)
  OBVIOUS
<1>4. f \in Seq(T) /\ T \subseteq Sent
  BY <1>1, <1>2, <1>3, EachProperties
<1>5. f \in [1 .. Len(f) -> T] /\ Len(f) \in Nat
  BY <1>4, LenProperties, ElementOfSeq
<1>6. f \in Seq(Sent)
  BY <1>4, <1>5, IsASeq
<1> QED BY <1>3, <1>6

\* setupQueueTopology declares all that it lists, and nothing else.
LEMMA TopologyIs ==
    /\ setupQueueTopology \in Seq(Sent)
    /\ Topology = {[do |-> "exchange", of |-> x] : x \in ToSet(EXCHANGES)}
                      \cup {[do |-> "queue", of |-> x] : x \in ToSet(QUEUES)}
                      \cup {[do |-> "bind", of |-> x] : x \in ToSet(Bindings)}
<1>1. PICK e : e = Each("exchange", EXCHANGES)
  OBVIOUS
<1>2. PICK q : q = Each("queue", QUEUES)
  OBVIOUS
<1>3. PICK b : b = Each("bind", Bindings)
  OBVIOUS
<1>4. PICK eq : eq = e \o q
  OBVIOUS
<1>5. PICK t : t = eq \o b
  OBVIOUS
<1>6. setupQueueTopology = t
  BY <1>1, <1>2, <1>3, <1>4, <1>5 DEF setupQueueTopology
<1>7. e \in Seq(Sent) /\ q \in Seq(Sent) /\ b \in Seq(Sent)
  BY <1>1, <1>2, <1>3, TheSequences, EachIsSent
<1>8. eq \in Seq(Sent) /\ ToSet(eq) = ToSet(e) \cup ToSet(q)
  BY <1>4, <1>7, JoinedSet
<1>9. t \in Seq(Sent) /\ ToSet(t) = ToSet(eq) \cup ToSet(b)
  BY <1>5, <1>7, <1>8, JoinedSet
<1>10. /\ ToSet(e) = {[do |-> "exchange", of |-> x] : x \in ToSet(EXCHANGES)}
       /\ ToSet(q) = {[do |-> "queue", of |-> x] : x \in ToSet(QUEUES)}
       /\ ToSet(b) = {[do |-> "bind", of |-> x] : x \in ToSet(Bindings)}
  BY <1>1, <1>2, <1>3, TheSequences, EachProperties
<1> QED BY <1>6, <1>8, <1>9, <1>10 DEF Topology

\* main() declares first and then consumes.
LEMMA MainOrder ==
    /\ Len(setupQueueTopology) \in Nat /\ Len(Main) \in Nat
    /\ Len(setupQueueTopology) < Len(Main)
    /\ \A c \in Topology : c.do # "consume" /\ c \in ToSet(Main)
    /\ \A i \in 1 .. Len(setupQueueTopology) : Main[i] = setupQueueTopology[i]
    /\ \A c \in Topology : \E i \in 1 .. Len(setupQueueTopology) : c = Main[i]
    /\ \A i \in 1 .. Len(setupQueueTopology) : Main[i] \in Topology
    /\ \A i \in 1 .. Len(Main) : i \notin 1 .. Len(setupQueueTopology) =>
         Main[i].do = "consume" /\ Main[i].of \in ToSet(Workers)
<1>1. PICK t : t = setupQueueTopology
  OBVIOUS
<1>2. PICK w : w = Each("consume", Workers)
  OBVIOUS
<1>3. PICK m : m = t \o w
  OBVIOUS
<1>4. Main = m
  BY <1>1, <1>2, <1>3 DEF Main
<1>5. t \in Seq(Sent) /\ w \in Seq(Sent)
  BY <1>1, <1>2, TopologyIs, TheSequences, EachIsSent
<1>6. /\ m \in Seq(Sent)
      /\ ToSet(m) = ToSet(t) \cup ToSet(w)
  BY <1>3, <1>5, JoinedSet
<1>16. /\ Len(m) = Len(t) + Len(w)
       /\ \A i \in 1 .. Len(t) : m[i] = t[i]
       /\ \A i \in 1 .. Len(w) : m[Len(t) + i] = w[i]
  <2>1. PICK S : S = Sent
    OBVIOUS
  <2>2. t \in Seq(S) /\ w \in Seq(S)
    BY <1>5, <2>1
  <2> QED BY <1>3, <2>2, JoinedOrder
<1>7. ToSet(w) = {[do |-> "consume", of |-> x] : x \in ToSet(Workers)}
  BY <1>2, TheSequences, EachProperties
<1>8. /\ Len(t) \in Nat /\ Len(w) \in Nat /\ Len(m) \in Nat
      /\ DOMAIN t = 1 .. Len(t) /\ DOMAIN w = 1 .. Len(w)
  BY <1>5, <1>6, LenProperties
<1>9. Len(w) # 0
  <2>1. "validation" \in ToSet(Workers)
    BY DEF Workers, ToSet
  <2>2. ToSet(w) # {}
    BY <2>1, <1>7
  <2> QED BY <2>2, <1>8 DEF ToSet
<1>10. \A c \in ToSet(t) : c.do # "consume"
  BY <1>1, TopologyIs DEF Topology
<1>11. \A i \in 1 .. Len(t) : t[i] \in ToSet(t)
  BY <1>8 DEF ToSet
<1>12. \A c \in ToSet(t) : \E i \in 1 .. Len(t) : c = t[i]
  BY <1>8 DEF ToSet
<1>13. ASSUME NEW i \in 1 .. Len(m), i \notin 1 .. Len(t)
       PROVE  m[i].do = "consume" /\ m[i].of \in ToSet(Workers)
  <2>1. i - Len(t) \in 1 .. Len(w) /\ i = Len(t) + (i - Len(t))
    BY <1>8, <1>13, <1>16
  <2>2. PICK j \in 1 .. Len(w) : i = Len(t) + j
    BY <2>1
  <2>3. m[i] \in ToSet(w)
    BY <1>8, <1>16, <2>2 DEF ToSet
  <2> QED BY <1>7, <2>3
<1>14. Len(t) < Len(m)
  BY <1>8, <1>9, <1>16
<1>15. ToSet(t) = Topology
  BY <1>1 DEF Topology
<1> QED BY <1>1, <1>4, <1>6, <1>8, <1>10, <1>11, <1>12, <1>13, <1>14, <1>15, <1>16

\* What the workers publish to is declared by main().
LEMMA RoutesDeclared ==
    ASSUME Topology \subseteq declared, NEW q \in ToSet(Workers), NEW b \in Publishes(q)
    PROVE  Routed(b)
<1>1. q \in {"validation", "fraud_check", "processing", "settlement"}
  BY DEF Workers, ToSet
<1>2. b \in ToSet(Bindings)
  BY <1>1 DEF Publishes, Bindings, ToSet
<1>3. b[1] \in ToSet(QUEUES)
  BY <1>1 DEF Publishes, QUEUES, ToSet
<1>4. b[2] \in ToSet(EXCHANGES)
  BY <1>1 DEF Publishes, EXCHANGES, ToSet
<1> QED BY <1>2, <1>3, <1>4, TopologyIs DEF Routed

-----------------------------------------------------------------------------

\* What a pod has by the time main() has come so far.
PodHas(p) ==
    /\ pod[p] = "down" => calls[p] = 0 /\ conns[p] = 0 /\ attempts[p] = 0
    /\ pod[p] = "connect" => calls[p] = 1 /\ conns[p] = 0
    /\ pod[p] \in {"channel", "commands"} => calls[p] = 0 /\ conns[p] = 1
    /\ pod[p] = "serving" => \/ calls[p] = 1 /\ conns[p] = 0
                             \/ calls[p] = 0 /\ conns[p] = 1
                             \/ calls[p] = 0 /\ conns[p] = 0 /\ attempts[p] >= MaxAttempts
    /\ calls[p] = 1 => attempts[p] < MaxAttempts
    /\ conns[p] = 1 => attempts[p] = 0

\* How far main() is, and what the broker has by then.
PodDeclared(p) ==
    /\ pod[p] = "commands" =>
         /\ done[p] < Len(Main)
         /\ \A i \in 1 .. Len(setupQueueTopology) : i <= done[p] => Main[i] \in declared
    /\ pod[p] \notin {"commands", "serving"} => done[p] = 0
    /\ conns[p] = 0 => consuming[p] = {}
    /\ consuming[p] # {} => Topology \subseteq declared

PodInv ==
    /\ PodTypeOK
    /\ \A p \in Pod : PodHas(p) /\ PodDeclared(p)

\* All pods are down.
LEMMA PodInitial == PodInit => PodInv
<1> SUFFICES ASSUME PodInit PROVE PodInv
  OBVIOUS
<1>1. 0 \in 0 .. Len(Main) /\ 0 \in 0 .. MaxAttempts /\ 0 \in 0 .. MaxBreaks
  BY MainOrder, PodAssumption
<1>2. PodTypeOK
  BY <1>1, PodAssumption DEF PodInit, PodTypeOK
<1>3. ASSUME NEW p \in Pod PROVE PodHas(p) /\ PodDeclared(p)
  BY PodAssumption, MainOrder DEF PodInit, PodHas, PodDeclared
<1> QED BY <1>2, <1>3 DEF PodInv

\* The types of what belongs to one pod.
LEMMA PodTypes ==
    ASSUME PodTypeOK, NEW o \in Pod
    PROVE  /\ pod[o] \in {"down", "connect", "channel", "commands", "serving"}
           /\ calls[o] \in Nat /\ conns[o] \in Nat
           /\ attempts[o] \in Nat /\ attempts[o] <= MaxAttempts
BY PodAssumption DEF PodTypeOK

\* What a step leaves alone keeps what the invariant says of another pod.
LEMMA PodElsewhere ==
    ASSUME NEW o \in Pod, PodHas(o), PodDeclared(o),
           pod'[o] = pod[o], done'[o] = done[o], calls'[o] = calls[o], conns'[o] = conns[o],
           attempts'[o] = attempts[o], consuming'[o] = consuming[o], declared' = declared
    PROVE  PodHas(o)' /\ PodDeclared(o)'
BY DEF PodHas, PodDeclared

\* A pod starts.
LEMMA PodStartKeeps ==
    ASSUME PodInv, NEW p \in Pod, PodStarts(p)
    PROVE  PodInv'
<1>1. PodTypeOK'
  BY DEF PodInv, PodTypeOK, PodStarts
<1>2. /\ pod'[p] = "connect" /\ calls'[p] = 1
      /\ \A o \in Pod \ {p} : pod'[o] = pod[o] /\ calls'[o] = calls[o]
      /\ done' = done /\ conns' = conns /\ attempts' = attempts /\ consuming' = consuming
      /\ declared' = declared
  BY DEF PodInv, PodTypeOK, PodStarts
<1>3. /\ pod[p] = "down" /\ conns[p] = 0 /\ attempts[p] = 0 /\ done[p] = 0
      /\ consuming[p] = {}
  BY DEF PodInv, PodHas, PodDeclared, PodStarts
<1>4. PodHas(p)' /\ PodDeclared(p)'
  BY <1>2, <1>3, PodAssumption DEF PodHas, PodDeclared
<1>5. ASSUME NEW o \in Pod \ {p} PROVE PodHas(o)' /\ PodDeclared(o)'
  BY <1>2, PodElsewhere DEF PodInv
<1> QED BY <1>1, <1>4, <1>5 DEF PodInv

\* A call of connect() is the only one, and its pod has no connection.
LEMMA TheCall ==
    ASSUME PodInv, NEW p \in Pod, calls[p] > 0
    PROVE  /\ calls[p] = 1 /\ conns[p] = 0 /\ consuming[p] = {}
           /\ pod[p] \in {"connect", "serving"}
           /\ attempts[p] \in Nat /\ attempts[p] < MaxAttempts
<1>1. calls[p] # 0
  BY PodTypes DEF PodInv
<1>2. pod[p] \in {"down", "connect", "channel", "commands", "serving"}
  BY PodTypes DEF PodInv
<1>3. calls[p] = 1 /\ conns[p] = 0 /\ pod[p] \in {"connect", "serving"}
  BY <1>1, <1>2 DEF PodInv, PodHas
<1> QED BY <1>3, PodTypes DEF PodInv, PodHas, PodDeclared

\* connect() gets its connection.
LEMMA PodConnectKeeps ==
    ASSUME PodInv, NEW p \in Pod, PodConnects(p)
    PROVE  PodInv'
<1>1. /\ calls[p] = 1 /\ conns[p] = 0 /\ consuming[p] = {}
      /\ pod[p] \in {"connect", "serving"}
  BY TheCall DEF PodConnects
<1>2. PodTypeOK'
  BY <1>1, PodAssumption DEF PodInv, PodTypeOK, PodConnects
<1>3. /\ pod'[p] = (IF pod[p] = "connect" THEN "channel" ELSE pod[p])
      /\ calls'[p] = 0 /\ conns'[p] = 1 /\ attempts'[p] = 0
      /\ \A o \in Pod \ {p} : /\ pod'[o] = pod[o] /\ calls'[o] = calls[o]
                              /\ conns'[o] = conns[o] /\ attempts'[o] = attempts[o]
      /\ done' = done /\ consuming' = consuming /\ declared' = declared
  BY <1>1 DEF PodInv, PodTypeOK, PodConnects
<1>4. PodHas(p)' /\ PodDeclared(p)'
  BY <1>1, <1>3, PodAssumption DEF PodInv, PodHas, PodDeclared
<1>5. ASSUME NEW o \in Pod \ {p} PROVE PodHas(o)' /\ PodDeclared(o)'
  BY <1>3, PodElsewhere DEF PodInv
<1> QED BY <1>2, <1>4, <1>5 DEF PodInv

\* An attempt fails, the last one or not.
LEMMA PodConnectFailKeeps ==
    ASSUME PodInv, NEW p \in Pod, PodConnectFails(p)
    PROVE  PodInv'
<1>1. /\ calls[p] = 1 /\ conns[p] = 0 /\ consuming[p] = {}
      /\ pod[p] \in {"connect", "serving"}
      /\ attempts[p] \in Nat /\ attempts[p] < MaxAttempts
  BY TheCall DEF PodConnectFails
<1>2. 0 \in 0 .. Len(Main) /\ 0 \in 0 .. MaxAttempts /\ attempts[p] + 1 \in 0 .. MaxAttempts
  BY <1>1, MainOrder, PodAssumption
<1>3. conns' = conns /\ consuming' = consuming /\ declared' = declared /\ breaks' = breaks
  BY DEF PodConnectFails
<1>4. ASSUME attempts[p] + 1 < MaxAttempts PROVE PodInv'
  <2>1. /\ attempts' = [attempts EXCEPT ![p] = @ + 1]
        /\ pod' = pod /\ done' = done /\ calls' = calls
    BY <1>4 DEF PodConnectFails
  <2>2. PodTypeOK'
    BY <1>2, <1>3, <2>1 DEF PodInv, PodTypeOK
  <2>3. attempts'[p] = attempts[p] + 1 /\ \A o \in Pod \ {p} : attempts'[o] = attempts[o]
    BY <2>1 DEF PodInv, PodTypeOK
  <2>4. PodHas(p)' /\ PodDeclared(p)'
    BY <1>1, <1>3, <1>4, <2>1, <2>3 DEF PodInv, PodHas, PodDeclared
  <2>5. ASSUME NEW o \in Pod \ {p} PROVE PodHas(o)' /\ PodDeclared(o)'
    BY <1>3, <2>1, <2>3, PodElsewhere DEF PodInv
  <2> QED BY <2>2, <2>4, <2>5 DEF PodInv
<1>5. ASSUME ~(attempts[p] + 1 < MaxAttempts), pod[p] = "connect" PROVE PodInv'
  <2>1. Exit({p}) /\ calls' = [calls EXCEPT ![p] = @ - 1]
    BY <1>5 DEF PodConnectFails
  <2>2. /\ pod'[p] = "down" /\ done'[p] = 0 /\ attempts'[p] = 0 /\ calls'[p] = 0
        /\ \A o \in Pod \ {p} : /\ pod'[o] = pod[o] /\ done'[o] = done[o]
                                /\ attempts'[o] = attempts[o] /\ calls'[o] = calls[o]
    BY <1>1, <2>1 DEF PodInv, PodTypeOK, Exit
  <2>3. PodTypeOK'
    <3>1. calls' \in [Pod -> Nat]
      BY <1>1, <2>1 DEF PodInv, PodTypeOK
    <3> QED BY <1>2, <1>3, <2>1, <3>1 DEF PodInv, PodTypeOK, Exit
  <2>4. PodHas(p)' /\ PodDeclared(p)'
    BY <1>1, <1>3, <2>2, PodAssumption DEF PodHas, PodDeclared
  <2>5. ASSUME NEW o \in Pod \ {p} PROVE PodHas(o)' /\ PodDeclared(o)'
    BY <1>3, <2>2, PodElsewhere DEF PodInv
  <2> QED BY <2>3, <2>4, <2>5 DEF PodInv
<1>6. ASSUME ~(attempts[p] + 1 < MaxAttempts), pod[p] = "serving" PROVE PodInv'
  <2>1. /\ attempts' = [attempts EXCEPT ![p] = @ + 1]
        /\ calls' = [calls EXCEPT ![p] = @ - 1]
        /\ pod' = pod /\ done' = done
    BY <1>6 DEF PodConnectFails
  <2>2. /\ attempts'[p] = attempts[p] + 1 /\ calls'[p] = 0
        /\ \A o \in Pod \ {p} : attempts'[o] = attempts[o] /\ calls'[o] = calls[o]
    BY <1>1, <2>1 DEF PodInv, PodTypeOK
  <2>3. PodTypeOK'
    <3>1. calls' \in [Pod -> Nat]
      BY <1>1, <2>1 DEF PodInv, PodTypeOK
    <3> QED BY <1>2, <1>3, <2>1, <3>1 DEF PodInv, PodTypeOK
  <2>4. attempts[p] + 1 >= MaxAttempts
    BY <1>1, <1>6, PodAssumption
  <2>5. PodHas(p)' /\ PodDeclared(p)'
    BY <1>1, <1>3, <1>6, <2>1, <2>2, <2>4 DEF PodInv, PodHas, PodDeclared
  <2>6. ASSUME NEW o \in Pod \ {p} PROVE PodHas(o)' /\ PodDeclared(o)'
    BY <1>3, <2>1, <2>2, PodElsewhere DEF PodInv
  <2> QED BY <2>3, <2>5, <2>6 DEF PodInv
<1> QED BY <1>1, <1>4, <1>5, <1>6

\* The channel is there: main() sends its first command.
LEMMA PodChannelKeeps ==
    ASSUME PodInv, NEW p \in Pod, PodOpensChannel(p)
    PROVE  PodInv'
<1>1. done[p] = 0
  BY DEF PodInv, PodDeclared, PodOpensChannel
<1>2. PodTypeOK'
  BY DEF PodInv, PodTypeOK, PodOpensChannel
<1>3. \A i \in 1 .. Len(setupQueueTopology) : ~(i <= 0)
  BY MainOrder
<1>4. 0 < Len(Main)
  BY MainOrder
<1>5. ASSUME NEW o \in Pod PROVE PodHas(o)' /\ PodDeclared(o)'
  BY <1>1, <1>3, <1>4 DEF PodInv, PodTypeOK, PodHas, PodDeclared, PodOpensChannel
<1> QED BY <1>2, <1>5 DEF PodInv

\* A command is answered: one that declares adds to what the broker has, one
\* that consumes comes when all has been declared.
LEMMA PodCommandKeeps ==
    ASSUME PodInv, NEW p \in Pod, PodCommand(p)
    PROVE  PodInv'
<1> DEFINE c == Main[done[p] + 1]
           T == Len(setupQueueTopology)
<1>1. /\ done[p] \in Nat /\ done[p] < Len(Main) /\ done[p] + 1 \in 1 .. Len(Main)
      /\ T \in Nat /\ Len(Main) \in Nat /\ T < Len(Main)
      /\ calls[p] = 0 /\ conns[p] = 1
  BY MainOrder DEF PodInv, PodTypeOK, PodHas, PodDeclared, PodCommand
<1>2. \A i \in 1 .. T : i <= done[p] => Main[i] \in declared
  BY DEF PodInv, PodDeclared, PodCommand
<1>3. CASE done[p] + 1 \in 1 .. T
  <2>1. c \in Topology /\ c.do # "consume"
    BY <1>3, MainOrder
  <2>2. declared' = declared \cup {c} /\ consuming' = consuming
    BY <2>1 DEF PodCommand
  <2>3. pod' = pod
    <3>1. done[p] + 1 # Len(Main)
      BY <1>1, <1>3
    <3> QED BY <3>1 DEF PodCommand, PodInv, PodTypeOK
  <2>4. PodTypeOK'
    <3>1. done' \in [Pod -> 0 .. Len(Main)]
      BY <1>1 DEF PodInv, PodTypeOK, PodCommand
    <3>2. declared' \subseteq {d \in ToSet(Main) : d.do # "consume"}
      BY <2>1, <2>2, MainOrder DEF PodInv, PodTypeOK
    <3> QED BY <2>2, <2>3, <3>1, <3>2 DEF PodInv, PodTypeOK, PodCommand
  <2>5. \A i \in 1 .. T : i <= done[p] + 1 => Main[i] \in declared'
    <3>1. ASSUME NEW i \in 1 .. T, i <= done[p] + 1 PROVE i <= done[p] \/ i = done[p] + 1
      BY <1>1, <3>1
    <3> QED BY <1>2, <2>2, <3>1
  <2>6. ASSUME NEW o \in Pod PROVE PodHas(o)' /\ PodDeclared(o)'
    <3>1. PodHas(o)'
      BY <2>3 DEF PodInv, PodHas, PodCommand
    <3>2. CASE o = p
      <4>1. done'[p] = done[p] + 1 /\ done[p] + 1 < Len(Main) /\ pod'[p] = "commands"
        BY <1>1, <1>3, <2>3 DEF PodInv, PodTypeOK, PodCommand
      <4>2. conns' = conns
        BY DEF PodCommand
      <4> QED BY <2>2, <2>5, <3>1, <3>2, <4>1, <4>2 DEF PodInv, PodDeclared
    <3>3. CASE o # p
      <4>1. done'[o] = done[o] /\ conns' = conns
        BY <3>3 DEF PodInv, PodTypeOK, PodCommand
      <4> QED BY <2>2, <2>3, <3>1, <3>3, <4>1 DEF PodInv, PodDeclared
    <3> QED BY <3>2, <3>3
  <2> QED BY <2>4, <2>6 DEF PodInv
<1>4. CASE done[p] + 1 \notin 1 .. T
  <2>1. c.do = "consume" /\ c.of \in ToSet(Workers)
    BY <1>1, <1>4, MainOrder
  <2>2. declared' = declared /\ consuming' = [consuming EXCEPT ![p] = @ \cup {c.of}]
    BY <2>1 DEF PodCommand
  <2>3. Topology \subseteq declared
    <3>1. \A i \in 1 .. T : i <= done[p]
      BY <1>1, <1>4
    <3> QED BY <1>2, <3>1, MainOrder
  <2>4. PodTypeOK'
    <3>1. done' \in [Pod -> 0 .. Len(Main)]
      BY <1>1 DEF PodInv, PodTypeOK, PodCommand
    <3>2. consuming' \in [Pod -> SUBSET ToSet(Workers)]
      BY <2>1, <2>2 DEF PodInv, PodTypeOK
    <3>3. pod' \in [Pod -> {"down", "connect", "channel", "commands", "serving"}]
      BY DEF PodInv, PodTypeOK, PodCommand
    <3> QED BY <2>2, <3>1, <3>2, <3>3 DEF PodInv, PodTypeOK, PodCommand
  <2>5. ASSUME NEW o \in Pod PROVE PodHas(o)' /\ PodDeclared(o)'
    <3>1. CASE o = p
      <4>1. /\ done'[p] = done[p] + 1 /\ pod'[p] \in {"commands", "serving"}
            /\ pod'[p] = "commands" => done[p] + 1 < Len(Main)
            /\ calls'[p] = 0 /\ conns'[p] = 1 /\ attempts' = attempts
        BY <1>1 DEF PodInv, PodTypeOK, PodCommand
      <4>2. attempts[p] = 0
        BY <1>1 DEF PodInv, PodHas
      <4>3. PodHas(p)'
        BY <4>1, <4>2, PodAssumption DEF PodHas
      <4>4. \A i \in 1 .. T : Main[i] \in declared
        BY <2>3, MainOrder
      <4>5. PodDeclared(p)'
        BY <2>2, <2>3, <4>1, <4>4 DEF PodDeclared
      <4> QED BY <3>1, <4>3, <4>5
    <3>2. CASE o # p
      <4>1. /\ done'[o] = done[o] /\ pod'[o] = pod[o] /\ consuming'[o] = consuming[o]
            /\ conns' = conns /\ calls' = calls /\ attempts' = attempts
        BY <2>2, <3>2 DEF PodInv, PodTypeOK, PodCommand
      <4> QED BY <2>2, <3>2, <4>1 DEF PodInv, PodHas, PodDeclared
    <3> QED BY <3>1, <3>2
  <2> QED BY <2>4, <2>5 DEF PodInv
<1> QED BY <1>3, <1>4

\* A pod ends, and with it all it had.
LEMMA PodEndKeeps ==
    ASSUME PodInv, NEW p \in Pod, PodEnds(p)
    PROVE  PodInv'
<1>1. 0 \in 0 .. Len(Main) /\ 0 \in 0 .. MaxAttempts
  BY MainOrder, PodAssumption
<1>2. breaks' \in 0 .. MaxBreaks
  BY PodAssumption DEF PodInv, PodTypeOK, PodEnds, Break
<1>3. PodTypeOK'
  BY <1>1, <1>2 DEF PodInv, PodTypeOK, PodEnds, Exit
<1>4. ASSUME NEW o \in Pod PROVE PodHas(o)' /\ PodDeclared(o)'
  <2>1. CASE o = p
    BY <2>1, PodAssumption DEF PodInv, PodTypeOK, PodHas, PodDeclared, PodEnds, Exit
  <2>2. CASE o # p
    BY <2>2 DEF PodInv, PodTypeOK, PodHas, PodDeclared, PodEnds, Exit
  <2> QED BY <2>1, <2>2
<1> QED BY <1>3, <1>4 DEF PodInv

\* Pods lose their connections.  With the broker goes what it knew: no pod
\* that keeps its main() or its consumers had a connection.
LEMMA LoseKeeps ==
    ASSUME PodInv, NEW P \in SUBSET Pod, Break, Lose(P),
           declared' = declared \/ (P = Pod /\ declared' = {})
    PROVE  PodInv'
<1>1. 0 \in 0 .. Len(Main) /\ 0 \in 0 .. MaxAttempts
  BY MainOrder, PodAssumption
<1>2. breaks' \in 0 .. MaxBreaks
  BY PodAssumption DEF PodInv, PodTypeOK, Break
<1> DEFINE hit == {p \in P : conns[p] > 0}
           over == {p \in hit : pod[p] \in {"channel", "commands"}}
<1>3. ASSUME NEW o \in Pod
      PROVE  /\ o \in over => /\ pod'[o] = "down" /\ done'[o] = 0 /\ attempts'[o] = 0
                              /\ conns'[o] = 0 /\ calls'[o] = 0 /\ consuming'[o] = {}
             /\ o \notin over => pod'[o] = pod[o] /\ done'[o] = done[o] /\ attempts'[o] = attempts[o]
             /\ o \in hit \ over => /\ conns'[o] = conns[o] - 1 /\ calls'[o] = calls[o] + 1
                                    /\ consuming'[o] = {}
             /\ o \notin hit => /\ conns'[o] = conns[o] /\ calls'[o] = calls[o]
                                /\ consuming'[o] = consuming[o]
  BY DEF Lose, Exit, Handlers
<1>4. ASSUME NEW o \in hit \ over
      PROVE  pod[o] = "serving" /\ conns[o] = 1 /\ calls[o] = 0 /\ attempts[o] = 0
  BY DEF PodInv, PodTypeOK, PodHas
<1>5. PodTypeOK'
  <2>1. /\ pod' \in [Pod -> {"down", "connect", "channel", "commands", "serving"}]
        /\ done' \in [Pod -> 0 .. Len(Main)]
        /\ attempts' \in [Pod -> 0 .. MaxAttempts]
    BY <1>1 DEF PodInv, PodTypeOK, Lose, Exit
  <2>2. consuming' \in [Pod -> SUBSET ToSet(Workers)]
    BY DEF PodInv, PodTypeOK, Lose
  <2>3. ASSUME NEW o \in Pod PROVE conns'[o] \in Nat /\ calls'[o] \in Nat
    <3>1. CASE o \in over
      BY <1>3, <3>1
    <3>2. CASE o \in hit \ over
      BY <1>3, <1>4, <3>2
    <3>3. CASE o \notin hit
      BY <1>3, <3>3 DEF PodInv, PodTypeOK
    <3> QED BY <3>1, <3>2, <3>3
  <2>4. calls' \in [Pod -> Nat] /\ conns' \in [Pod -> Nat]
    <3>1. calls' = [o \in Pod |-> calls'[o]] /\ conns' = [o \in Pod |-> conns'[o]]
      BY DEF Lose
    <3> QED BY <2>3, <3>1
  <2>5. declared' \subseteq {c \in ToSet(Main) : c.do # "consume"}
    BY DEF PodInv, PodTypeOK
  <2> QED BY <1>2, <2>1, <2>2, <2>4, <2>5 DEF PodTypeOK
<1>6. ASSUME NEW o \in Pod PROVE PodHas(o)' /\ PodDeclared(o)'
  <2>1. CASE o \in over
    BY <1>3, <2>1, PodAssumption DEF PodHas, PodDeclared
  <2>2. CASE o \in hit \ over
    BY <1>3, <1>4, <2>2, PodAssumption DEF PodHas, PodDeclared
  <2>3. CASE o \notin hit
    <3>1. o \notin over
      BY <2>3
    <3>2. PodHas(o)'
      BY <1>3, <2>3, <3>1 DEF PodInv, PodHas
    <3>3. CASE declared' = declared
      BY <1>3, <2>3, <3>1, <3>3, PodElsewhere DEF PodInv
    <3>4. CASE P = Pod
      <4>1. conns[o] = 0
        BY <2>3, <3>4 DEF PodInv, PodTypeOK
      <4>2. consuming[o] = {} /\ pod[o] # "commands"
        BY <4>1 DEF PodInv, PodDeclared, PodHas
      <4> QED BY <1>3, <2>3, <3>1, <3>2, <4>2 DEF PodInv, PodDeclared
    <3> QED BY <3>2, <3>3, <3>4
  <2> QED BY <2>1, <2>2, <2>3
<1> QED BY <1>5, <1>6 DEF PodInv

\* A channel closes while its pod serves.
LEMMA PodDeafensKeeps ==
    ASSUME PodInv, NEW p \in Pod, PodDeafens(p)
    PROVE  PodInv'
<1>1. breaks' \in 0 .. MaxBreaks
  BY PodAssumption DEF PodInv, PodTypeOK, PodDeafens, Break
<1>2. PodTypeOK'
  BY <1>1 DEF PodInv, PodTypeOK, PodDeafens
<1>3. ASSUME NEW o \in Pod PROVE PodHas(o)' /\ PodDeclared(o)'
  BY DEF PodInv, PodTypeOK, PodHas, PodDeclared, PodDeafens
<1> QED BY <1>2, <1>3 DEF PodInv

\* Every step keeps the invariant.
LEMMA PodStepKeeps == PodInv /\ [PodNext]_podVars => PodInv'
<1> SUFFICES ASSUME PodInv, [PodNext]_podVars PROVE PodInv'
  OBVIOUS
<1>1. ASSUME NEW p \in Pod, PodLoses(p) PROVE PodInv'
  <2>1. Break /\ Lose({p}) /\ declared' = declared
    BY <1>1 DEF PodLoses
  <2> QED BY <2>1, LoseKeeps
<1>2. CASE BrokerReplaced
  <2>1. Break /\ Lose(Pod) /\ declared' = {}
    BY <1>2 DEF BrokerReplaced
  <2> QED BY <2>1, LoseKeeps
<1>3. CASE UNCHANGED podVars
  BY <1>3 DEF podVars, PodInv, PodTypeOK, PodHas, PodDeclared
<1> QED BY <1>1, <1>2, <1>3, PodStartKeeps, PodConnectKeeps, PodConnectFailKeeps, PodChannelKeeps,
           PodCommandKeeps, PodEndKeeps, PodDeafensKeeps DEF PodNext

\* The inductive invariant of the pods.
THEOREM PodInvariant == PodSpec => []PodInv
BY PodInitial, PodStepKeeps, PTL DEF PodSpec

\* OneLink: a pod's connections and its calls of connect() are one together.
THEOREM PodsHaveOneLink == PodSpec => []OneLink
<1>1. PodInv => OneLink
  <2> SUFFICES ASSUME PodInv, NEW p \in Pod
               PROVE  \/ pod[p] = "down" /\ calls[p] + conns[p] = 0
                      \/ pod[p] # "down" /\ calls[p] + conns[p] = 1
                      \/ pod[p] = "serving" /\ calls[p] + conns[p] = 0 /\ attempts[p] >= MaxAttempts
    BY DEF OneLink
  <2>1. pod[p] \in {"down", "connect", "channel", "commands", "serving"} /\ PodHas(p)
    BY PodTypes DEF PodInv
  <2> QED BY <2>1 DEF PodHas
<1> QED BY <1>1, PodInvariant, PTL

\* ConsumersRouted: who consumes finds its routes on the broker.
THEOREM ConsumersAreRouted == PodSpec => []ConsumersRouted
<1>1. PodInv => ConsumersRouted
  BY RoutesDeclared DEF PodInv, PodTypeOK, PodDeclared, ConsumersRouted
<1> QED BY <1>1, PodInvariant, PTL

-----------------------------------------------------------------------------
(***************************************************************************)
(* All of them.                                                            *)
(***************************************************************************)

\* A behaviour of Spec is a behaviour of each component: it is of one part and
\* leaves the others alone.
LEMMA PartsAreTheirOwn ==
    Spec => BreakerSpec /\ FraudSpec /\ HookSpec /\ SagaSpec /\ LinkSpec /\ PodSpec
<1>1. Init => BreakerInit /\ FraudInit /\ HookInit /\ SagaInit /\ LinkInit /\ PodInit
  BY DEF Init
<1>2. [Next]_services => /\ [BreakerNext]_breakerVars
                         /\ [FraudNext]_fraudVars
                         /\ [HookNext]_hookVars
                         /\ [SagaNext]_sagaVars
                         /\ [LinkNext]_linkVars
                         /\ [PodNext]_podVars
  BY DEF Next, services
<1> QED BY <1>1, <1>2, PTL
    DEF Spec, BreakerSpec, FraudSpec, HookSpec, SagaSpec, LinkSpec, PodSpec

\* What the parser is given is from Inputs and stays.
LEMMA ParserInputs == Spec => [](input = NoInput \/ input \in Inputs)
<1>1. Init => input = NoInput \/ input \in Inputs
  BY DEF Init
<1>2. (input = NoInput \/ input \in Inputs) /\ [Next]_services
         => (input = NoInput \/ input \in Inputs)'
  BY DEF Next, services
<1> QED BY <1>1, <1>2, PTL DEF Spec

\* LevenshteinIsEditDistance: for the words of the instance, as for any.
THEOREM DistancesAreLeastEdits == Spec => []LevenshteinIsEditDistance
<1>1. ASSUME input = NoInput \/ input \in Inputs, input.kind = "words"
      PROVE  DistanceIsLeastEdits(input.first, input.second)
  <2>1. input.first \in Words /\ input.second \in Words
    BY <1>1 DEF Inputs, NoInput
  <2>2. \A w \in Words : w \in Seq({"a", "b"})
    <3>1. \A n \in 0 .. 3 : \A w \in [1 .. n -> {"a", "b"}] : w \in Seq({"a", "b"})
      OBVIOUS
    <3> QED BY <3>1 DEF Words
  <2> QED BY <2>1, <2>2, DistanceIsEditDistance
<1>2. (input = NoInput \/ input \in Inputs) => LevenshteinIsEditDistance
  BY <1>1 DEF LevenshteinIsEditDistance
<1> QED BY <1>2, ParserInputs, PTL

\* OFXEntriesKeepTogether: for the files of the instance, as for any.
THEOREM EntriesStayTogether == Spec => []OFXEntriesKeepTogether
<1>1. ASSUME input = NoInput \/ input \in Inputs, input.kind = "tags"
      PROVE  EntriesKeepTogether(<<input.first, input.second>>, <<"s1", "s2">>)
  <2>1. input.first \in TagOrders /\ input.second \in TagOrders
    BY <1>1 DEF Inputs, NoInput
  <2> DEFINE tags == <<input.first, input.second>>
             values == <<"s1", "s2">>
  <2>2. tags \in Seq(TagOrders) /\ values \in Seq({"s1", "s2"}) /\ Len(values) = Len(tags)
    BY <2>1
  <2>3. Null \notin {"s1", "s2"}
    BY DEF Null
  <2> HIDE DEF tags, values
  <2>4. EntriesKeepTogether(tags, values)
    BY <2>2, <2>3, EntriesAreKeptTogether
  <2> QED BY <2>4 DEF tags, values
<1>2. (input = NoInput \/ input \in Inputs) => OFXEntriesKeepTogether
  BY <1>1 DEF OFXEntriesKeepTogether
<1> QED BY <1>2, ParserInputs, PTL

\* ServicesTypeOK: the variables of every component keep their types.
THEOREM ServicesTypesHold == Spec => []ServicesTypeOK
<1>1. BreakerInv /\ FraudInv /\ HookInv /\ SagaInv /\ LinkInv /\ PodInv => ServicesTypeOK
  BY DEF BreakerInv, FraudInv, HookInv, SagaInv, LinkInv, LinkShape, PodInv, ServicesTypeOK
<1> QED BY <1>1, PartsAreTheirOwn, BreakerInvariant, FraudInvariant, HookInvariant,
           SagaInvariant, LinkInvariant, PodInvariant, PTL
=============================================================================
