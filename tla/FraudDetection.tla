--------------------------- MODULE FraudDetection ---------------------------
(***************************************************************************)
(* The analysis of transactions by one process of the fraud detection      *)
(* service, for requests of one customer with one card from one address:   *)
(* every await on Redis is a step, so the requests interleave there.  The  *)
(* five rules are gathered: their commands are under way together, and     *)
(* when one raises, the request is answered 500 and the others go on.      *)
(*                                                                         *)
(* The hour and the learned model weigh in as ModelMayReject says.  The    *)
(* database calls of an analysis swallow their errors and change nothing   *)
(* an analysis reads; they are left out.                                   *)
(*                                                                         *)
(* Operators carry the prefix Fraud where the name alone might be taken.   *)
(***************************************************************************)
EXTENDS Naturals, FiniteSets

CONSTANTS Payment,      \* the requests to POST /analyze
          Amount,       \* amount of each
          Location,     \* location of each
          Nowhere,      \* no location
          Averages,     \* averages earlier payments may have left, 0 for none
          CardLimit,    \* 5: payments per card and window without a report
          SmallLimit,   \* 5: small payments per address that are reported
          MaxFaults     \* bound: Redis commands and pings that fail

ASSUME FraudAssumption ==
    /\ Amount \in [Payment -> Nat \ {0}]
    /\ Nowhere \notin {Location[p] : p \in Payment}
    /\ Averages \subseteq Nat
    /\ CardLimit \in Nat
    /\ SmallLimit \in Nat \ {0}
    /\ MaxFaults \in Nat

\* EXPIRE follows its INCR on the client that sent it; every other command
\* asks get_redis() for one.
Expires == {"cardExpire", "smallExpire"}
RuleCommands == {"card", "location", "placeSet", "average", "small"} \cup Expires
Commands == RuleCommands \cup {"blacklist", "count", "context", "ban", "learn", "store"}

VARIABLES
    redis,        \* the keys of this customer, card and address
    client,       \* _redis: "none", "set"
    pinger,       \* the command whose get_redis() awaits its ping, if any
    pending,      \* commands of each request under way
    found,        \* rules reported for each request
    verdict,      \* decision of each request once taken
    unknown,      \* requests for which the analyzer read no average
    answer,       \* response of each request
    faults,       \* faults so far
    counted,      \* history: requests counted in the card's window
    excused,      \* history: bans and lookups of requests that found no client,
                  \* and bans that ran out before the request was answered
    refused,      \* history: a rejection not so excused has been answered
    barred        \* history: requests begun after that

fraudVars == <<redis, client, pinger, pending, found, verdict, unknown, answer,
               faults, counted, excused, refused, barred>>

NoCommand == <<>>

FraudInit ==
    /\ redis \in [card : {0}, cardTtl : {FALSE}, small : {0}, smallTtl : {FALSE},
                 place : {Nowhere}, average : Averages, banned : {FALSE}]
    /\ client \in {"none", "set"}
    /\ pinger = NoCommand
    /\ pending = [p \in Payment |-> {}]
    /\ found = [p \in Payment |-> {}]
    /\ verdict = [p \in Payment |-> "none"]
    /\ unknown = {}
    /\ answer = [p \in Payment |-> "none"]
    /\ faults = 0
    /\ counted = {}
    /\ excused = {}
    /\ refused = FALSE
    /\ barred = {}

-----------------------------------------------------------------------------
\* What a command does to Redis.

Effect(p, c) ==
    CASE c = "card" -> [redis EXCEPT !.card = @ + 1]
      [] c = "cardExpire" -> [redis EXCEPT !.cardTtl = redis.card > 0]
      [] c = "small" -> [redis EXCEPT !.small = @ + 1]
      [] c = "smallExpire" -> [redis EXCEPT !.smallTtl = redis.small > 0]
      [] c = "placeSet" -> [redis EXCEPT !.place = Location[p]]
      [] c = "learn" -> [redis EXCEPT !.average = Amount[p]]
      [] c = "ban" -> [redis EXCEPT !.banned = TRUE]
      [] OTHER -> redis

\* A slip: INCR and EXPIRE as if the first count were 0.
FirstUseOfNone(count) == count = 0
FirstUse(count) == count = 1

\* A slip: the limit itself is not reported, the next one is.
OverLimitLate(count) == count > CardLimit + 1
OverLimit(count) == count > CardLimit

\* What the rules report on the reply of their command.  An unusual amount
\* scores int(5 * ratio), that is at least 25 from five times the average on.
Moved(p) == redis.place \notin {Nowhere, Location[p]}

Reported(p, c) ==
    {f \in {"card"} : c = "card" /\ OverLimit(redis.card + 1)} \cup
    {f \in {"small"} : c = "small" /\ redis.small + 1 >= SmallLimit} \cup
    {f \in {"location"} : c = "location" /\ Moved(p)} \cup
    {f \in {"unusual"} : /\ c = "average"
                         /\ redis.average # 0
                         /\ Amount[p] > 3 * redis.average} \cup
    {f \in {"extreme"} : /\ c = "average"
                         /\ redis.average # 0
                         /\ Amount[p] >= 5 * redis.average}

\* What a rule sends next: the expiry of a new counter, the location unless it
\* was another.
Follow(p, c) ==
    {f \in {"cardExpire"} : c = "card" /\ FirstUse(redis.card + 1)} \cup
    {f \in {"smallExpire"} : c = "small" /\ FirstUse(redis.small + 1)} \cup
    {f \in {"placeSet"} : c = "location" /\ ~Moved(p)}

\* Rules of severity high with a score of 25 or more reject by themselves.
High == {"card", "small", "extreme"}

\* Below them the scores are 20 for a location, 15 to 24 for an unusual amount
\* and 10 for the hour; the risk can pass 60, at the model's highest score,
\* from a sum of 35 on: with the first two.
ModelMayReject(F) == {"location", "unusual"} \subseteq F

Verdicts(F) ==
    IF F \cap High # {} THEN {"rejected"}
    ELSE IF ModelMayReject(F) THEN {"approved", "rejected"} ELSE {"approved"}

GatheredRules(p) ==
    {"card", "location", "average"} \cup (IF Amount[p] < 50 THEN {"small"} ELSE {})

Remember(u) == IF u THEN {"learn"} ELSE {"store"}

\* A slip: the address of a fraud is not blacklisted.
AfterDecisionNoBan(v, u) == Remember(u)
AfterDecision(v, u) == IF v = "rejected" THEN {"ban"} ELSE Remember(u)

\* The commands that come after c, the last one under way.
After(p, c, listed, v, u) ==
    CASE c = "blacklist" -> IF listed THEN {"store"} ELSE GatheredRules(p)
      [] c \in RuleCommands -> {"count"}
      [] c = "count" -> {"context"}
      [] c = "context" -> AfterDecision(v, u)
      [] c = "ban" -> Remember(u)
      [] c = "learn" -> {"store"}
      [] OTHER -> {}

-----------------------------------------------------------------------------

\* get_redis() for the commands S that start now, the client being cl: without
\* one the first of them creates it and pings; the others already see it.
Connect(cl, p, S) ==
    IF cl = "none" /\ S # {}
    THEN /\ client' = "set"
         /\ pinger' = <<p, IF "card" \in S THEN "card" ELSE CHOOSE c \in S : TRUE>>
    ELSE client' = cl /\ pinger' = (IF cl = "none" THEN NoCommand ELSE pinger)

FraudBegin(p) ==
    /\ pending[p] = {}
    /\ answer[p] = "none"
    /\ pending' = [pending EXCEPT ![p] = {"blacklist"}]
    /\ barred' = IF refused THEN barred \cup {p} ELSE barred
    /\ Connect(client, p, {"blacklist"})
    /\ UNCHANGED <<redis, found, verdict, unknown, answer, faults, counted,
                   excused, refused>>

\* Command c of p has returned, with its reply (read) or without because there
\* is no client, which reads as nothing found; cl is the client by then.
\* Among the gathered commands the last one continues the analysis, unless the
\* request has been answered.
Return(p, c, read, cl) ==
    LET more == IF read THEN Follow(p, c)
                ELSE IF c = "location" THEN {"placeSet"} ELSE {}
        left == (pending[p] \ {c}) \cup more
        listed == c = "blacklist" /\ read /\ redis.banned
        none == IF c = "context" THEN ~read \/ redis.average = 0 ELSE p \in unknown
    IN /\ found' = [found EXCEPT ![p] = IF answer[p] # "none" \/ c = "context" THEN {}
                                        ELSE IF read THEN @ \cup Reported(p, c) ELSE @]
       /\ unknown' = IF none /\ c # "learn" THEN unknown \cup {p} ELSE unknown \ {p}
       /\ verdict' \in
              {[verdict EXCEPT ![p] = v] :
                   v \in IF listed THEN {"rejected"}
                         ELSE IF c = "context" THEN Verdicts(found[p]) ELSE {verdict[p]}}
       /\ LET next == IF left # {} \/ answer[p] # "none" THEN left
                      ELSE After(p, c, listed, verdict'[p], none)
          IN /\ pending' = [pending EXCEPT ![p] = next]
             /\ Connect(cl, p, next \ (pending[p] \cup Expires))
       /\ answer' = IF c = "store" THEN [answer EXCEPT ![p] = verdict[p]] ELSE answer
       /\ refused' = (refused \/ (c = "store" /\ verdict[p] = "rejected" /\ <<p, "ban">> \notin excused))

UnderWay(p, c) == c \in pending[p] /\ pinger # <<p, c>>

FraudReply(p, c) ==
    /\ UnderWay(p, c)
    /\ Return(p, c, TRUE, client)
    /\ redis' = Effect(p, c)
    /\ counted' = IF c = "card" THEN counted \cup {p} ELSE counted
    /\ UNCHANGED <<faults, excused, barred>>

\* A command on an existing client raises, applied or not.  The handler
\* answers 500 and the rest of the analysis does not happen.
FraudRaise(p, c) ==
    /\ UnderWay(p, c)
    /\ faults < MaxFaults
    /\ faults' = faults + 1
    /\ redis' \in {redis, Effect(p, c)}
    /\ counted' = IF c = "card" /\ redis' # redis THEN counted \cup {p} ELSE counted
    /\ pending' = [pending EXCEPT ![p] = @ \ {c}]
    /\ answer' = IF answer[p] = "none" THEN [answer EXCEPT ![p] = "error"] ELSE answer
    /\ found' = [found EXCEPT ![p] = {}]
    /\ unknown' = unknown \ {p}
    /\ UNCHANGED <<client, pinger, verdict, excused, refused, barred>>

Pong ==
    /\ pinger # NoCommand
    /\ pinger' = NoCommand
    /\ UNCHANGED <<redis, client, pending, found, verdict, unknown, answer,
                   faults, counted, excused, refused, barred>>

\* The ping fails: there is no client, and the command that asked does without.
FraudFallOpen(p, c) ==
    /\ pinger = <<p, c>>
    /\ faults < MaxFaults
    /\ faults' = faults + 1
    /\ Return(p, c, FALSE, "none")
    /\ excused' = excused \cup ({<<p, c>>} \cap (Payment \X {"ban", "blacklist"}))
    /\ UNCHANGED <<redis, counted, barred>>

FraudStep(p) == \E c \in Commands : FraudReply(p, c) \/ FraudRaise(p, c) \/ FraudFallOpen(p, c)

\* Redis lets keys expire, whoever is reading them: the window of a card or an
\* address after 300 s, location and ban after a day, average after 30.
ExpireCard ==
    /\ redis.cardTtl
    /\ redis' = [redis EXCEPT !.card = 0, !.cardTtl = FALSE]
    /\ counted' = {}
    /\ UNCHANGED <<excused, refused, barred>>

ExpireSmall ==
    /\ redis.smallTtl
    /\ redis' = [redis EXCEPT !.small = 0, !.smallTtl = FALSE]
    /\ UNCHANGED <<counted, excused, refused, barred>>

ExpireProfile ==
    /\ \/ redis.place # Nowhere /\ redis' = [redis EXCEPT !.place = Nowhere]
       \/ redis.average # 0 /\ redis' = [redis EXCEPT !.average = 0]
    /\ UNCHANGED <<counted, excused, refused, barred>>

\* What the ban was to keep out it need not any more, and whoever relies on it
\* without having answered has none to show.
ExpireBan ==
    /\ redis.banned
    /\ redis' = [redis EXCEPT !.banned = FALSE]
    /\ refused' = FALSE
    /\ barred' = {}
    /\ excused' = excused \cup {<<p, "ban">> : p \in {q \in Payment :
                      pending[q] # {} /\ verdict[q] = "rejected" /\ "ban" \notin pending[q]}}
    /\ UNCHANGED counted

FraudExpiry ==
    /\ ExpireCard \/ ExpireSmall \/ ExpireProfile \/ ExpireBan
    /\ UNCHANGED <<client, pinger, pending, found, verdict, unknown, answer, faults>>

FraudNext ==
    \/ \E p \in Payment : FraudBegin(p) \/ FraudStep(p)
    \/ Pong
    \/ FraudExpiry

FraudSpec == FraudInit /\ [][FraudNext]_fraudVars

\* The event loop: what is awaited comes back, because Redis answers or because
\* the connection to it breaks.  The client sets no timeout of its own.
FraudFairness == WF_fraudVars(Pong \/ \E p \in Payment : FraudStep(p))

-----------------------------------------------------------------------------

FraudTypeOK ==
    /\ redis \in [card : Nat, cardTtl : BOOLEAN, small : Nat, smallTtl : BOOLEAN,
                  place : {Nowhere} \cup {Location[p] : p \in Payment},
                  average : Nat, banned : BOOLEAN]
    /\ client \in {"none", "set"}
    /\ pinger \in {NoCommand} \cup (Payment \X Commands)
    /\ pending \in [Payment -> SUBSET Commands]
    /\ found \in [Payment -> SUBSET {"card", "small", "location", "unusual", "extreme"}]
    /\ verdict \in [Payment -> {"none", "approved", "rejected"}]
    /\ unknown \subseteq Payment
    /\ answer \in [Payment -> {"none", "approved", "rejected", "error"}]
    /\ faults \in 0 .. MaxFaults
    /\ counted \subseteq Payment
    /\ excused \subseteq Payment \X {"ban", "blacklist"}
    /\ refused \in BOOLEAN
    /\ barred \subseteq Payment

\* A counter without an expiry has one on its way or has lost it to a fault: no
\* interleaving alone leaves a card or an address counted, and in the end
\* rejected, for ever.
CountersExpire ==
    Cardinality(
        {k \in {"cardExpire", "smallExpire"} :
            /\ IF k = "cardExpire" THEN redis.card > 0 /\ ~redis.cardTtl
               ELSE redis.small > 0 /\ ~redis.smallTtl
            /\ \A p \in Payment : k \notin pending[p]}) <= faults

\* Of the payments counted in one window of the card, those approved are at
\* most CardLimit, however many are analysed at once.
ApprovalsBounded ==
    Cardinality({p \in counted : answer[p] = "approved"}) <= CardLimit

\* A payment that comes after the answer that rejected another from its
\* address is not approved as long as the ban lasts, unless its own look-up
\* found no client: the ban is in Redis before the answer, unless it found none
\* either or ran out before it, and nothing that other requests do takes it out.
NoApprovalAfterRejection ==
    \A p \in barred : <<p, "blacklist">> \notin excused => answer[p] # "approved"

\* The requests under way have been answered, whatever Redis did and whichever
\* rule raised.
PaymentsAnswered == \A p \in Payment : pending[p] # {} => answer[p] # "none"
=============================================================================
