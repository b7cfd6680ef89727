--------------------------- MODULE CircuitBreaker ---------------------------
(***************************************************************************)
(* The class CircuitBreaker of the payment gateway with any number of      *)
(* calls under way: execute() checks the state, awaits the guarded         *)
(* function and counts its outcome in whatever state the breaker is then,  *)
(* which may not be the state the call was let through in.                 *)
(*                                                                         *)
(* Operators carry the prefix Breaker: MCServices puts this module beside  *)
(* others.                                                                 *)
(***************************************************************************)
EXTENDS Naturals

CONSTANTS Call,              \* the callers of execute()
          FailureThreshold,  \* options.failureThreshold
          SuccessThreshold   \* options.successThreshold

ASSUME BreakerAssumption ==
    /\ FailureThreshold \in Nat \ {0}
    /\ SuccessThreshold \in Nat \ {0}

VARIABLES
    breaker,        \* state
    failureCount,   \* kept at FailureThreshold once there: it is only compared
    successCount,
    cooled,         \* options.timeout has passed since lastFailureTime
    running,        \* calls that await the guarded function
    streak,         \* history: failures reported since the last success or
                    \* closing, kept at FailureThreshold likewise
    probes          \* history: successes reported since HALF_OPEN was entered

breakerVars ==
    <<breaker, failureCount, successCount, cooled, running, streak, probes>>

BreakerInit ==
    /\ breaker = "CLOSED"
    /\ failureCount = 0
    /\ successCount = 0
    /\ cooled = TRUE
    /\ running = {}
    /\ streak = 0
    /\ probes = 0

OneMore(n, limit) == IF n < limit THEN n + 1 ELSE limit

-----------------------------------------------------------------------------

\* execute() up to the await: an open breaker rejects the call (no step) or,
\* its timeout over, lets it through as a probe.
BreakerExecute(c) ==
    /\ c \notin running
    /\ running' = running \cup {c}
    /\ \/ /\ breaker # "OPEN"
          /\ UNCHANGED <<breaker, successCount, probes>>
       \/ /\ breaker = "OPEN"
          /\ cooled
          /\ breaker' = "HALF_OPEN"
          /\ successCount' = 0
          /\ probes' = 0
    /\ UNCHANGED <<failureCount, cooled, streak>>

\* A slip: the probes are compared before the success is counted.
ClosesLate == successCount >= SuccessThreshold
\* A slip: any success closes the breaker.
ClosesAtOnce == TRUE
Closes == successCount + 1 >= SuccessThreshold

BreakerSuccess(c) ==
    /\ c \in running
    /\ running' = running \ {c}
    /\ IF breaker = "HALF_OPEN"
       THEN /\ probes' = probes + 1
            /\ IF Closes
               THEN /\ breaker' = "CLOSED"
                    /\ failureCount' = 0
                    /\ successCount' = 0
               ELSE /\ successCount' = successCount + 1
                    /\ UNCHANGED <<breaker, failureCount>>
       ELSE /\ failureCount' = 0
            /\ UNCHANGED <<breaker, successCount, probes>>
    /\ streak' = 0
    /\ UNCHANGED cooled

\* A failure counts in every state, and sets lastFailureTime in every state:
\* failures of late calls keep an open breaker open.
BreakerFailure(c) ==
    /\ c \in running
    /\ running' = running \ {c}
    /\ failureCount' = OneMore(failureCount, FailureThreshold)
    /\ streak' = OneMore(streak, FailureThreshold)
    /\ cooled' = FALSE
    /\ breaker' = IF breaker = "HALF_OPEN" \/ failureCount' >= FailureThreshold
                  THEN "OPEN" ELSE breaker
    /\ UNCHANGED <<successCount, probes>>

\* The clock.
BreakerTimeout ==
    /\ ~cooled
    /\ cooled' = TRUE
    /\ UNCHANGED <<breaker, failureCount, successCount, running, streak, probes>>

BreakerNext ==
    \/ \E c \in Call : BreakerExecute(c) \/ BreakerSuccess(c) \/ BreakerFailure(c)
    \/ BreakerTimeout

BreakerSpec == BreakerInit /\ [][BreakerNext]_breakerVars

-----------------------------------------------------------------------------

\* All variables keep their types, and below the thresholds where the state
\* has not changed yet.
BreakerTypeOK ==
    /\ breaker \in {"CLOSED", "OPEN", "HALF_OPEN"}
    /\ failureCount \in 0 .. FailureThreshold
    /\ successCount \in 0 .. SuccessThreshold - 1
    /\ cooled \in BOOLEAN
    /\ running \subseteq Call
    /\ streak \in 0 .. FailureThreshold
    /\ probes \in Nat

\* What makes the transitions right: while CLOSED the counter is the streak of
\* failures and has not reached the threshold; while HALF_OPEN the counter is
\* the number of probes.
BreakerInv ==
    /\ BreakerTypeOK
    /\ breaker = "CLOSED" => failureCount = streak /\ streak < FailureThreshold
    /\ breaker = "HALF_OPEN" => successCount = probes

\* A closed breaker opens only on FailureThreshold failures in a row, an open
\* one admits calls again only after the timeout, and it closes only on
\* SuccessThreshold successes reported since it was half open, however many
\* calls are under way and whenever they were let through.
TransitionsEarned ==
    [][/\ breaker = "CLOSED" /\ breaker' # "CLOSED" =>
              breaker' = "OPEN" /\ streak' = FailureThreshold
       /\ breaker = "OPEN" /\ breaker' # "OPEN" => breaker' = "HALF_OPEN" /\ cooled
       /\ breaker = "HALF_OPEN" /\ breaker' = "CLOSED" => probes' >= SuccessThreshold]_breakerVars
=============================================================================
