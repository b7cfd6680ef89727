----------------------- MODULE FraudDetection_proofs -----------------------
(***************************************************************************)
(* The safety properties of FraudDetection for any number of requests, any *)
(* amounts, locations and limits and any number of faults.                 *)
(*                                                                         *)
(* What a request has under way, its decision and its answer fit together  *)
(* (Phase), which is what makes Return mean one thing for each command.    *)
(* The other conjuncts of FraudInv then say what the three properties      *)
(* leave out: who of the card's window may still be approved, where the    *)
(* ban is while a rejection is on its way, and who is behind it.           *)
(***************************************************************************)
EXTENDS FraudDetection, FiniteSetTheorems, TLAPS

\* A request has come so far: its commands under way, its decision and its
\* answer fit together, and it reports nothing before its rules have run.
Phase(p) ==
    \/ /\ pending[p] = {}
       /\ answer[p] = "none"
       /\ verdict[p] = "none"
       /\ found[p] = {}
       /\ p \notin barred
    \/ /\ pending[p] = {}
       /\ answer[p] # "none"
    \/ /\ pending[p] = {"blacklist"}
       /\ answer[p] = "none"
       /\ verdict[p] = "none"
       /\ found[p] = {}
    \/ /\ pending[p] # {}
       /\ pending[p] \subseteq RuleCommands
       /\ answer[p] \in {"none", "error"}
       /\ verdict[p] = "none"
    \/ /\ pending[p] \in {{"count"}, {"context"}}
       /\ answer[p] = "none"
       /\ verdict[p] = "none"
    \/ /\ pending[p] = {"ban"}
       /\ answer[p] = "none"
       /\ verdict[p] = "rejected"
    \/ /\ pending[p] \in {{"learn"}, {"store"}}
       /\ answer[p] = "none"
       /\ verdict[p] # "none"

\* The command that pings is under way.
PingerIn == \A p \in Payment, c \in Commands : pinger = <<p, c>> => c \in pending[p]

\* A request that will not be approved, for its count of the card or an error.
Spoiled(p) ==
    \/ answer[p] \in {"rejected", "error"}
    \/ /\ answer[p] = "none"
       /\ verdict[p] = "rejected" \/ (verdict[p] = "none" /\ "card" \in found[p])

\* Every payment counted in the window has counted in Redis, and those counted
\* within the limit are the ones that may still be approved.
WindowInv ==
    /\ IsFiniteSet(counted)
    /\ Cardinality(counted) <= redis.card
    /\ Cardinality({p \in counted : ~Spoiled(p)}) <= CardLimit

\* A rejection that has been answered has its ban in Redis, and so has one that
\* is past its ban.
BanInv ==
    /\ refused => redis.banned
    /\ \A p \in Payment :
           /\ pending[p] \in {{"learn"}, {"store"}}
           /\ verdict[p] = "rejected"
           /\ <<p, "ban">> \notin excused
           => redis.banned

\* What becomes of a request that comes after such an answer.
BarredInv ==
    \A p \in barred :
        /\ "blacklist" \in pending[p] => refused
        /\ /\ "blacklist" \notin pending[p]
           /\ <<p, "blacklist">> \notin excused
           => verdict[p] = "rejected" \/ answer[p] = "error"

\* A request is answered what has been decided, or 500.
AnswerInv == \A p \in Payment : answer[p] \in {"approved", "rejected"} => answer[p] = verdict[p]

\* The inductive invariant.
FraudInv ==
    /\ FraudTypeOK
    /\ \A p \in Payment : Phase(p)
    /\ PingerIn
    /\ AnswerInv
    /\ BanInv
    /\ BarredInv
    /\ WindowInv
    /\ CountersExpire

-----------------------------------------------------------------------------
\* What the keys may hold.
RedisKeys ==
    [card : Nat, cardTtl : BOOLEAN, small : Nat, smallTtl : BOOLEAN,
     place : {Nowhere} \cup {Location[p] : p \in Payment},
     average : Nat, banned : BOOLEAN]

\* What a command does to each key.
LEMMA EffectFacts ==
    ASSUME FraudTypeOK, NEW p \in Payment, NEW c \in Commands
    PROVE  LET r == Effect(p, c)
           IN /\ r \in RedisKeys
              /\ r.card = (IF c = "card" THEN redis.card + 1 ELSE redis.card)
              /\ r.cardTtl = (IF c = "cardExpire" THEN redis.card > 0 ELSE redis.cardTtl)
              /\ r.small = (IF c = "small" THEN redis.small + 1 ELSE redis.small)
              /\ r.smallTtl = (IF c = "smallExpire" THEN redis.small > 0 ELSE redis.smallTtl)
              /\ r.banned = (IF c = "ban" THEN TRUE ELSE redis.banned)
<1>1. redis \in RedisKeys
  BY DEF FraudTypeOK, RedisKeys
<1>2. Amount[p] \in Nat
  BY FraudAssumption
<1>3. CASE c = "card"
  BY <1>1, <1>3 DEF Effect, RedisKeys
<1>4. CASE c = "cardExpire"
  <2> DEFINE some == redis.card > 0
  <2>1. some \in BOOLEAN
    OBVIOUS
  <2>2. Effect(p, c) = [redis EXCEPT !.cardTtl = some]
    BY <1>4 DEF Effect
  <2> HIDE DEF some
  <2>3. /\ Effect(p, c) \in RedisKeys
        /\ Effect(p, c).cardTtl = some
        /\ \A k \in {"card", "cardTtl", "small", "smallTtl", "banned"} \ {"cardTtl"} :
               Effect(p, c)[k] = redis[k]
    BY <1>1, <2>1, <2>2 DEF RedisKeys
  <2> QED BY <1>4, <2>3 DEF some
<1>5. CASE c = "small"
  BY <1>1, <1>5 DEF Effect, RedisKeys
<1>6. CASE c = "smallExpire"
  <2> DEFINE some == redis.small > 0
  <2>1. some \in BOOLEAN
    OBVIOUS
  <2>2. Effect(p, c) = [redis EXCEPT !.smallTtl = some]
    BY <1>6 DEF Effect
  <2> HIDE DEF some
  <2>3. /\ Effect(p, c) \in RedisKeys
        /\ Effect(p, c).smallTtl = some
        /\ \A k \in {"card", "cardTtl", "small", "smallTtl", "banned"} \ {"smallTtl"} :
               Effect(p, c)[k] = redis[k]
    BY <1>1, <2>1, <2>2 DEF RedisKeys
  <2> QED BY <1>6, <2>3 DEF some
<1>7. CASE c = "placeSet"
  BY <1>1, <1>7 DEF Effect, RedisKeys
<1>8. CASE c = "learn"
  BY <1>1, <1>2, <1>8 DEF Effect, RedisKeys
<1>9. CASE c = "ban"
  BY <1>1, <1>9 DEF Effect, RedisKeys
<1>10. CASE c \notin {"card", "cardExpire", "small", "smallExpire", "placeSet", "learn", "ban"}
  <2>1. Effect(p, c) = redis
    BY <1>10 DEF Effect
  <2> QED BY <1>1, <1>10, <2>1
<1> QED BY <1>3, <1>4, <1>5, <1>6, <1>7, <1>8, <1>9, <1>10

\* What the rules report and send next, and what follows the last command.
LEMMA RuleFacts ==
    ASSUME NEW p \in Payment, NEW c \in Commands
    PROVE  /\ Reported(p, c) \subseteq {"card", "small", "location", "unusual", "extreme"}
           /\ Follow(p, c) \subseteq {"cardExpire", "smallExpire", "placeSet"}
           /\ c \notin RuleCommands => Reported(p, c) = {} /\ Follow(p, c) = {}
           /\ "card" \in Reported(p, c) <=> c = "card" /\ redis.card + 1 > CardLimit
           /\ "cardExpire" \in Follow(p, c) <=> c = "card" /\ redis.card + 1 = 1
           /\ "smallExpire" \in Follow(p, c) <=> c = "small" /\ redis.small + 1 = 1
           /\ GatheredRules(p) # {}
           /\ GatheredRules(p) \subseteq RuleCommands \ Expires
BY DEF Reported, Follow, OverLimit, FirstUse, RuleCommands, Expires, GatheredRules

\* What follows each command but the two that decide.
LEMMA AfterFacts ==
    ASSUME NEW p \in Payment, NEW c \in Commands, NEW listed, NEW v, NEW u
    PROVE  /\ c \in RuleCommands => After(p, c, listed, v, u) = {"count"}
           /\ c = "count" => After(p, c, listed, v, u) = {"context"}
           /\ c = "context" => After(p, c, listed, v, u) = AfterDecision(v, u)
           /\ c = "ban" => After(p, c, listed, v, u) \in {{"learn"}, {"store"}}
           /\ c = "learn" => After(p, c, listed, v, u) = {"store"}
           /\ c = "store" => After(p, c, listed, v, u) = {}
BY DEF After, AfterDecision, Remember, RuleCommands, Expires

\* The part of Return that the properties see: command c of p has come back,
\* with its reply (read) or without.
Continues(p, c, read) ==
    \/ /\ c = "blacklist"
       /\ IF read /\ redis.banned
          THEN verdict'[p] = "rejected" /\ pending'[p] = {"store"}
          ELSE verdict'[p] = verdict[p] /\ pending'[p] = GatheredRules(p)
       /\ answer'[p] = answer[p]
       /\ found'[p] = found[p]
    \/ /\ c \in RuleCommands
       /\ LET more == IF read THEN Follow(p, c) ELSE IF c = "location" THEN {"placeSet"} ELSE {}
              left == (pending[p] \ {c}) \cup more
          IN pending'[p] = IF left # {} THEN left
                           ELSE IF answer[p] = "none" THEN {"count"} ELSE {}
       /\ verdict'[p] = verdict[p]
       /\ answer'[p] = answer[p]
       /\ answer[p] = "none" => found[p] \subseteq found'[p]
       /\ answer[p] = "none" /\ read => Reported(p, c) \subseteq found'[p]
    \/ /\ c = "count"
       /\ pending'[p] = {"context"}
       /\ UNCHANGED <<verdict[p], answer[p], found[p]>>
    \/ /\ c = "context"
       /\ verdict'[p] \in Verdicts(found[p])
       /\ pending'[p] \in {{"ban"}, {"learn"}, {"store"}}
       /\ pending'[p] = {"ban"} <=> verdict'[p] = "rejected"
       /\ answer'[p] = answer[p]
    \/ /\ c = "ban"
       /\ pending'[p] \in {{"learn"}, {"store"}}
       /\ UNCHANGED <<verdict[p], answer[p]>>
    \/ /\ c = "learn"
       /\ pending'[p] = {"store"}
       /\ UNCHANGED <<verdict[p], answer[p]>>
    \/ /\ c = "store"
       /\ pending'[p] = {}
       /\ verdict'[p] = verdict[p]
       /\ answer'[p] = verdict[p]

\* Nothing of the other requests changes.
OthersRest(p) ==
    \A q \in Payment \ {p} :
        UNCHANGED <<found[q], verdict[q], pending[q], answer[q]>>

\* With a client nobody's ping changes; without one at most one of the commands
\* that start pings.
LEMMA ConnectFacts ==
    ASSUME NEW cl \in {"none", "set"}, NEW p \in Payment, NEW S \in SUBSET Commands,
           Connect(cl, p, S)
    PROVE  /\ client' \in {"none", "set"}
           /\ \/ pinger' = NoCommand
              \/ pinger' = pinger /\ cl = "set"
              \/ \E c \in S : pinger' = <<p, c>>
<1>1. CASE cl = "none" /\ S # {}
  <2>1. (IF "card" \in S THEN "card" ELSE CHOOSE c \in S : TRUE) \in S
    BY <1>1
  <2> QED BY <1>1, <2>1 DEF Connect
<1>2. CASE ~(cl = "none" /\ S # {})
  BY <1>2 DEF Connect
<1> QED BY <1>1, <1>2

\* Whatever p has under way once c has come back is commands, and what c was
\* not part of stays under way.
LEMMA ReturnKeepsTypes ==
    ASSUME FraudTypeOK, NEW p \in Payment, NEW c \in Commands, NEW read \in BOOLEAN,
           NEW cl \in {"none", "set"}, Return(p, c, read, cl)
    PROVE  /\ client' \in {"none", "set"}
           /\ \/ pinger' = NoCommand
              \/ pinger' = pinger /\ cl = "set"
              \/ \E d \in pending'[p] : pinger' = <<p, d>>
           /\ found' \in [Payment -> SUBSET {"card", "small", "location", "unusual", "extreme"}]
           /\ unknown' \subseteq Payment
           /\ verdict' \in [Payment -> {"none", "approved", "rejected"}]
           /\ pending' \in [Payment -> SUBSET Commands]
           /\ pending[p] \ {c} \subseteq pending'[p]
           /\ answer' \in [Payment -> {"none", "approved", "rejected", "error"}]
           /\ refused' = (refused \/ (/\ c = "store"
                                     /\ verdict[p] = "rejected"
                                     /\ <<p, "ban">> \notin excused))
           /\ OthersRest(p)
<1> DEFINE more == IF read THEN Follow(p, c)
                   ELSE IF c = "location" THEN {"placeSet"} ELSE {}
           left == (pending[p] \ {c}) \cup more
           listed == c = "blacklist" /\ read /\ redis.banned
           none == IF c = "context" THEN ~read \/ redis.average = 0 ELSE p \in unknown
           next == IF left # {} \/ answer[p] # "none" THEN left
                   ELSE After(p, c, listed, verdict'[p], none)
           news == IF answer[p] # "none" \/ c = "context" THEN {}
                   ELSE IF read THEN found[p] \cup Reported(p, c) ELSE found[p]
           may == IF listed THEN {"rejected"}
                  ELSE IF c = "context" THEN Verdicts(found[p]) ELSE {verdict[p]}
<1>1. /\ found' = [found EXCEPT ![p] = news]
      /\ unknown' = IF none /\ c # "learn" THEN unknown \cup {p} ELSE unknown \ {p}
      /\ verdict' \in {[verdict EXCEPT ![p] = v] : v \in may}
      /\ pending' = [pending EXCEPT ![p] = next]
      /\ Connect(cl, p, next \ (pending[p] \cup Expires))
      /\ answer' = IF c = "store" THEN [answer EXCEPT ![p] = verdict[p]] ELSE answer
      /\ refused' = (refused \/ (/\ c = "store"
                                /\ verdict[p] = "rejected"
                                /\ <<p, "ban">> \notin excused))
  BY DEF Return
<1>2. Verdicts(found[p]) \subseteq {"approved", "rejected"}
  BY DEF Verdicts
<1>3. may \subseteq {"none", "approved", "rejected"}
  BY <1>2 DEF FraudTypeOK
<1>4. news \subseteq {"card", "small", "location", "unusual", "extreme"}
  BY RuleFacts DEF FraudTypeOK
<1>5. After(p, c, listed, verdict'[p], none) \subseteq Commands
  <2>1. GatheredRules(p) \subseteq Commands
    BY RuleFacts DEF Commands
  <2> QED BY <2>1 DEF After, AfterDecision, Remember, Commands
<1>6. left \subseteq Commands
  BY RuleFacts DEF FraudTypeOK, Commands, RuleCommands, Expires
<1>7. next \subseteq Commands /\ pending[p] \ {c} \subseteq next
  BY <1>5, <1>6
<1> HIDE DEF more, left, listed, none, next, news, may
<1>8. pending' \in [Payment -> SUBSET Commands] /\ pending'[p] = next
  BY <1>1, <1>7 DEF FraudTypeOK
<1>9. PICK v \in may : verdict' = [verdict EXCEPT ![p] = v]
  BY <1>1
<1>10. found' \in [Payment -> SUBSET {"card", "small", "location", "unusual", "extreme"}]
  BY <1>1, <1>4 DEF FraudTypeOK
<1>11. unknown' \subseteq Payment
  BY <1>1 DEF FraudTypeOK
<1>12. verdict' \in [Payment -> {"none", "approved", "rejected"}]
  BY <1>3, <1>9 DEF FraudTypeOK
<1>13. answer' \in [Payment -> {"none", "approved", "rejected", "error"}]
  BY <1>1 DEF FraudTypeOK
<1>14. /\ client' \in {"none", "set"}
       /\ \/ pinger' = NoCommand
          \/ pinger' = pinger /\ cl = "set"
          \/ \E d \in next : pinger' = <<p, d>>
  <2>1. next \ (pending[p] \cup Expires) \in SUBSET Commands
    BY <1>7
  <2> QED BY <1>1, <2>1, ConnectFacts
<1>15. OthersRest(p)
  BY <1>1, <1>9 DEF OthersRest, FraudTypeOK
<1> QED BY <1>1, <1>7, <1>8, <1>10, <1>11, <1>12, <1>13, <1>14, <1>15

\* In its phase a command that comes back has the one effect Continues gives it.
LEMMA ReturnContinues ==
    ASSUME FraudTypeOK, NEW p \in Payment, NEW c \in pending[p], NEW read \in BOOLEAN,
           NEW cl \in {"none", "set"}, Phase(p), Return(p, c, read, cl)
    PROVE  Continues(p, c, read)
<1> DEFINE more == IF read THEN Follow(p, c)
                   ELSE IF c = "location" THEN {"placeSet"} ELSE {}
           left == (pending[p] \ {c}) \cup more
           listed == c = "blacklist" /\ read /\ redis.banned
           none == IF c = "context" THEN ~read \/ redis.average = 0 ELSE p \in unknown
           next == IF left # {} \/ answer[p] # "none" THEN left
                   ELSE After(p, c, listed, verdict'[p], none)
<1>1. c \in Commands
  BY DEF FraudTypeOK
<1>2. /\ found'[p] = IF answer[p] # "none" \/ c = "context" THEN {}
                     ELSE IF read THEN found[p] \cup Reported(p, c) ELSE found[p]
      /\ verdict'[p] \in (IF listed THEN {"rejected"}
                         ELSE IF c = "context" THEN Verdicts(found[p]) ELSE {verdict[p]})
      /\ pending'[p] = next
      /\ answer'[p] = IF c = "store" THEN verdict[p] ELSE answer[p]
  BY DEF Return, FraudTypeOK
<1> HIDE DEF none
<1>3. ASSUME c \notin RuleCommands
      PROVE  pending[p] = {c} /\ more = {} /\ left = {} /\ answer[p] = "none"
  <2>1. pending[p] = {c} /\ answer[p] = "none"
    BY <1>3 DEF Phase
  <2>2. c # "location"
    BY <1>3 DEF RuleCommands
  <2> QED BY <1>1, <1>3, <2>1, <2>2, RuleFacts
<1>4. ASSUME c \notin RuleCommands
      PROVE  pending'[p] = After(p, c, listed, verdict'[p], none)
  BY <1>2, <1>3, <1>4
<1>5. {"blacklist", "count", "context", "ban", "learn", "store"} \cap RuleCommands = {}
  BY DEF RuleCommands, Expires
<1>6. CASE c = "blacklist"
  <2>1. c \notin RuleCommands
    BY <1>5, <1>6
  <2>2. Reported(p, c) = {} /\ answer[p] = "none"
    BY <1>1, <1>3, <2>1, RuleFacts
  <2>3. found'[p] = found[p] /\ answer'[p] = answer[p]
    BY <1>2, <1>6, <2>2
  <2>4. pending'[p] = IF listed THEN {"store"} ELSE GatheredRules(p)
    BY <1>4, <1>6, <2>1 DEF After
  <2>5. IF read /\ redis.banned
        THEN verdict'[p] = "rejected" /\ pending'[p] = {"store"}
        ELSE verdict'[p] = verdict[p] /\ pending'[p] = GatheredRules(p)
    BY <1>2, <1>6, <2>4
  <2> QED BY <1>6, <2>3, <2>5 DEF Continues
<1>7. CASE c \in RuleCommands
  <2>1. c \notin {"blacklist", "context", "store"}
    BY <1>5, <1>7
  <2>2. verdict'[p] = verdict[p] /\ answer'[p] = answer[p]
    BY <1>2, <2>1
  <2>3. /\ answer[p] = "none" => found[p] \subseteq found'[p]
        /\ answer[p] = "none" /\ read => Reported(p, c) \subseteq found'[p]
    BY <1>2, <2>1
  <2>4. After(p, c, listed, verdict'[p], none) = {"count"}
    BY <1>1, <1>7, AfterFacts
  <2>5. pending'[p] = IF left # {} THEN left
                      ELSE IF answer[p] = "none" THEN {"count"} ELSE {}
    BY <1>2, <2>4
  <2> QED BY <1>7, <2>2, <2>3, <2>5 DEF Continues
<1>8. CASE c = "count"
  <2>1. c \notin RuleCommands
    BY <1>5, <1>8
  <2>2. Reported(p, c) = {} /\ answer[p] = "none"
    BY <1>1, <1>3, <2>1, RuleFacts
  <2>3. pending'[p] = {"context"}
    BY <1>1, <1>4, <1>8, <2>1, AfterFacts
  <2>4. verdict'[p] = verdict[p] /\ answer'[p] = answer[p] /\ found'[p] = found[p]
    BY <1>2, <1>8, <2>2
  <2> QED BY <1>8, <2>3, <2>4 DEF Continues
<1>9. CASE c = "context"
  <2>1. c \notin RuleCommands
    BY <1>5, <1>9
  <2>2. verdict'[p] \in Verdicts(found[p]) /\ answer'[p] = answer[p]
    BY <1>2, <1>9
  <2>3. pending'[p] = AfterDecision(verdict'[p], none)
    BY <1>1, <1>4, <1>9, <2>1, AfterFacts
  <2>4. /\ pending'[p] \in {{"ban"}, {"learn"}, {"store"}}
        /\ pending'[p] = {"ban"} <=> verdict'[p] = "rejected"
    BY <2>3 DEF AfterDecision, Remember
  <2> QED BY <1>9, <2>2, <2>4 DEF Continues
<1>10. CASE c = "ban"
  <2>1. c \notin RuleCommands
    BY <1>5, <1>10
  <2>2. pending'[p] \in {{"learn"}, {"store"}}
    BY <1>1, <1>4, <1>10, <2>1, AfterFacts
  <2> QED BY <1>2, <1>10, <2>2 DEF Continues
<1>11. CASE c = "learn"
  <2>1. c \notin RuleCommands
    BY <1>5, <1>11
  <2>2. pending'[p] = {"store"}
    BY <1>1, <1>4, <1>11, <2>1, AfterFacts
  <2> QED BY <1>2, <1>11, <2>2 DEF Continues
<1>12. CASE c = "store"
  <2>1. c \notin RuleCommands
    BY <1>5, <1>12
  <2>2. pending'[p] = {}
    BY <1>1, <1>4, <1>12, <2>1, AfterFacts
  <2> QED BY <1>2, <1>12, <2>2 DEF Continues
<1> QED BY <1>1, <1>6, <1>7, <1>8, <1>9, <1>10, <1>11, <1>12 DEF Commands

-----------------------------------------------------------------------------
\* A step in which command c of p comes back, with its reply or without.
LEMMA ReplyReturns ==
    ASSUME FraudInv, NEW p \in Payment, NEW c \in Commands, FraudReply(p, c)
    PROVE  /\ c \in pending[p]
           /\ Return(p, c, TRUE, client)
           /\ client \in {"none", "set"}
           /\ UNCHANGED <<faults, excused, barred>>
BY DEF FraudReply, UnderWay, FraudInv, FraudTypeOK

\* The same where the ping of the command failed.
LEMMA FallOpenReturns ==
    ASSUME FraudInv, NEW p \in Payment, NEW c \in Commands, FraudFallOpen(p, c)
    PROVE  /\ c \in pending[p]
           /\ Return(p, c, FALSE, "none")
           /\ UNCHANGED <<redis, counted, barred>>
BY DEF FraudFallOpen, FraudInv, PingerIn

\* What expires: a window with its payments, or the ban with the rejection, its
\* barred payments, and the claim of whoever is past its ban.
LEMMA ExpiryFacts ==
    ASSUME FraudTypeOK, FraudExpiry
    PROVE  /\ redis' \in RedisKeys
           /\ \/ redis'.card = 0 /\ counted' = {}
              \/ redis'.card = redis.card /\ redis'.cardTtl = redis.cardTtl
                 /\ counted' = counted
           /\ \/ redis'.small = 0
              \/ redis'.small = redis.small /\ redis'.smallTtl = redis.smallTtl
           /\ excused' \subseteq Payment \X {"ban", "blacklist"}
           /\ \/ redis'.banned = redis.banned /\ UNCHANGED <<refused, barred, excused>>
              \/ /\ refused' = FALSE /\ barred' = {}
                 /\ \A q \in Payment : /\ pending[q] \in {{"learn"}, {"store"}}
                                       /\ verdict[q] = "rejected"
                                       => <<q, "ban">> \in excused'
<1>1. redis \in RedisKeys
  BY DEF FraudTypeOK, RedisKeys
<1>0. excused \subseteq Payment \X {"ban", "blacklist"}
  BY DEF FraudTypeOK
<1>2. CASE ExpireCard
  BY <1>0, <1>1, <1>2 DEF ExpireCard, RedisKeys
<1>3. CASE ExpireSmall
  BY <1>0, <1>1, <1>3 DEF ExpireSmall, RedisKeys
<1>4. CASE ExpireProfile
  BY <1>0, <1>1, <1>4 DEF ExpireProfile, RedisKeys
<1>5. CASE ExpireBan
  <2>1. /\ redis' \in RedisKeys
        /\ redis'.card = redis.card /\ redis'.cardTtl = redis.cardTtl /\ counted' = counted
        /\ redis'.small = redis.small /\ redis'.smallTtl = redis.smallTtl
        /\ refused' = FALSE /\ barred' = {}
    BY <1>1, <1>5 DEF ExpireBan, RedisKeys
  <2>2. excused' \subseteq Payment \X {"ban", "blacklist"}
    BY <1>0, <1>5 DEF ExpireBan
  <2>3. ASSUME NEW q \in Payment, pending[q] \in {{"learn"}, {"store"}}, verdict[q] = "rejected"
        PROVE  <<q, "ban">> \in excused'
    BY <1>5, <2>3 DEF ExpireBan
  <2> QED BY <2>1, <2>2, <2>3
<1> QED BY <1>2, <1>3, <1>4, <1>5 DEF FraudExpiry

\* Return keeps the type invariant if the variables beside it do.
LEMMA ReturnTypes ==
    ASSUME FraudTypeOK, NEW p \in Payment, NEW c \in Commands, NEW read \in BOOLEAN,
           NEW cl \in {"none", "set"}, Return(p, c, read, cl),
           redis' \in RedisKeys, faults' \in 0 .. MaxFaults, counted' \subseteq Payment,
           excused' \subseteq Payment \X {"ban", "blacklist"}, barred' = barred
    PROVE  FraudTypeOK'
<1>1. /\ pending' \in [Payment -> SUBSET Commands]
      /\ \/ pinger' = NoCommand
         \/ pinger' = pinger /\ cl = "set"
         \/ \E d \in pending'[p] : pinger' = <<p, d>>
  BY ReturnKeepsTypes
<1>2. pinger' \in {NoCommand} \cup (Payment \X Commands)
  BY <1>1 DEF FraudTypeOK
<1>3. refused' \in BOOLEAN
  <2>1. refused' = (refused \/ (/\ c = "store"
                              /\ verdict[p] = "rejected"
                              /\ <<p, "ban">> \notin excused))
    BY ReturnKeepsTypes
  <2> QED BY <2>1
<1>4. /\ client' \in {"none", "set"}
      /\ found' \in [Payment -> SUBSET {"card", "small", "location", "unusual", "extreme"}]
      /\ unknown' \subseteq Payment
      /\ verdict' \in [Payment -> {"none", "approved", "rejected"}]
      /\ answer' \in [Payment -> {"none", "approved", "rejected", "error"}]
  BY ReturnKeepsTypes
<1>5. barred' \subseteq Payment
  BY DEF FraudTypeOK
<1> QED BY <1>1, <1>2, <1>3, <1>4, <1>5 DEF FraudTypeOK, RedisKeys

\* The type invariant, action by action.
LEMMA FraudTypeStays ==
    ASSUME FraudInv, [FraudNext]_fraudVars
    PROVE  FraudTypeOK'
<1>1. ASSUME NEW p \in Payment, FraudBegin(p) PROVE FraudTypeOK'
  <2>1. {"blacklist"} \in SUBSET Commands
    BY DEF Commands
  <2>2. Connect(client, p, {"blacklist"}) /\ client \in {"none", "set"}
    BY <1>1 DEF FraudBegin, FraudInv, FraudTypeOK
  <2>3. client' \in {"none", "set"} /\ pinger' \in {NoCommand} \cup (Payment \X Commands)
    BY <2>1, <2>2, ConnectFacts DEF FraudInv, FraudTypeOK
  <2>4. pending' \in [Payment -> SUBSET Commands]
    BY <1>1, <2>1 DEF FraudBegin, FraudInv, FraudTypeOK
  <2> QED BY <1>1, <2>3, <2>4 DEF FraudBegin, FraudInv, FraudTypeOK
<1>2. ASSUME NEW p \in Payment, NEW c \in Commands, FraudReply(p, c) PROVE FraudTypeOK'
  <2>1. redis' = Effect(p, c) /\ FraudTypeOK
    BY <1>2 DEF FraudReply, FraudInv
  <2>2. redis' \in RedisKeys
    BY <2>1, EffectFacts
  <2>3. /\ counted' \subseteq Payment
        /\ faults' \in 0 .. MaxFaults
        /\ excused' \subseteq Payment \X {"ban", "blacklist"}
        /\ barred' = barred
    BY <1>2, <2>1 DEF FraudReply, FraudTypeOK
  <2>4. Return(p, c, TRUE, client) /\ client \in {"none", "set"}
    BY <1>2, ReplyReturns
  <2> QED BY <2>1, <2>2, <2>3, <2>4, ReturnTypes
<1>3. ASSUME NEW p \in Payment, NEW c \in Commands, FraudRaise(p, c) PROVE FraudTypeOK'
  <2>1. FraudTypeOK /\ redis' \in {redis, Effect(p, c)}
    BY <1>3 DEF FraudRaise, FraudInv
  <2>2. redis \in RedisKeys /\ Effect(p, c) \in RedisKeys
    <3>1. redis \in RedisKeys
      BY <2>1 DEF FraudTypeOK, RedisKeys
    <3> QED BY <2>1, <3>1, EffectFacts
  <2>3. faults' \in 0 .. MaxFaults /\ counted' \subseteq Payment
    BY <1>3, <2>1, FraudAssumption DEF FraudRaise, FraudTypeOK
  <2>4. /\ pending' \in [Payment -> SUBSET Commands]
        /\ answer' \in [Payment -> {"none", "approved", "rejected", "error"}]
        /\ found' \in [Payment -> SUBSET {"card", "small", "location", "unusual", "extreme"}]
        /\ unknown' \subseteq Payment
    BY <1>3, <2>1 DEF FraudRaise, FraudTypeOK
  <2>5. redis' \in RedisKeys
    BY <2>1, <2>2
  <2> QED BY <1>3, <2>1, <2>3, <2>4, <2>5 DEF FraudRaise, FraudTypeOK, RedisKeys
<1>4. ASSUME NEW p \in Payment, NEW c \in Commands, FraudFallOpen(p, c) PROVE FraudTypeOK'
  <2>1. FraudTypeOK /\ Return(p, c, FALSE, "none") /\ UNCHANGED <<redis, counted, barred>>
    BY <1>4, FallOpenReturns DEF FraudInv
  <2>2. faults' \in 0 .. MaxFaults /\ excused' \subseteq Payment \X {"ban", "blacklist"}
    BY <1>4, <2>1, FraudAssumption DEF FraudFallOpen, FraudTypeOK
  <2>3. redis' \in RedisKeys /\ counted' \subseteq Payment
    BY <2>1 DEF FraudTypeOK, RedisKeys
  <2> QED BY <2>1, <2>2, <2>3, ReturnTypes
<1>5. CASE Pong
  BY <1>5 DEF Pong, FraudInv, FraudTypeOK
<1>6. CASE FraudExpiry
  <2>1. redis' \in RedisKeys
    BY <1>6, ExpiryFacts DEF FraudInv
  <2>2. /\ counted' \subseteq Payment /\ refused' \in BOOLEAN /\ barred' \subseteq Payment
        /\ excused' \subseteq Payment \X {"ban", "blacklist"}
    BY <1>6, ExpiryFacts DEF FraudExpiry, ExpireCard, ExpireSmall, ExpireProfile, ExpireBan,
                FraudInv, FraudTypeOK
  <2> QED BY <1>6, <2>1, <2>2 DEF FraudExpiry, FraudInv, FraudTypeOK, RedisKeys
<1>7. CASE UNCHANGED fraudVars
  BY <1>7 DEF fraudVars, FraudInv, FraudTypeOK
<1> QED BY <1>1, <1>2, <1>3, <1>4, <1>5, <1>6, <1>7 DEF FraudNext, FraudStep

-----------------------------------------------------------------------------
\* A request keeps its phase when one of its commands comes back.
LEMMA PhaseContinues ==
    ASSUME FraudInv, NEW p \in Payment, NEW c \in pending[p], NEW read \in BOOLEAN,
           Continues(p, c, read), OthersRest(p), barred' = barred
    PROVE  \A q \in Payment : Phase(q)'
<1>1. ASSUME NEW q \in Payment, q # p PROVE Phase(q)'
  <2>1. UNCHANGED <<found[q], verdict[q], pending[q], answer[q]>>
    BY <1>1 DEF OthersRest
  <2> QED BY <2>1 DEF FraudInv, Phase
<1>2. Phase(p) /\ c \in Commands
  BY DEF FraudInv, FraudTypeOK
<1>3. {"blacklist", "count", "context", "ban", "learn", "store"} \cap RuleCommands = {}
  BY DEF RuleCommands, Expires
<1>4. CASE c = "blacklist"
  <2>1. answer[p] = "none" /\ verdict[p] = "none" /\ found[p] = {}
    BY <1>2, <1>3, <1>4 DEF Phase
  <2>2. GatheredRules(p) # {} /\ GatheredRules(p) \subseteq RuleCommands
    BY <1>2, RuleFacts
  <2> QED BY <1>1, <1>3, <1>4, <2>1, <2>2 DEF Continues, Phase
<1>5. CASE c \in RuleCommands
  <2>1. /\ pending[p] \subseteq RuleCommands
        /\ answer[p] \in {"none", "error"}
        /\ verdict[p] = "none"
    BY <1>2, <1>3, <1>5 DEF Phase
  <2>2. Follow(p, c) \subseteq RuleCommands /\ "placeSet" \in RuleCommands
    BY <1>2, RuleFacts DEF RuleCommands, Expires
  <2>3. /\ verdict'[p] = verdict[p]
        /\ answer'[p] = answer[p]
        /\ \/ pending'[p] # {} /\ pending'[p] \subseteq RuleCommands
           \/ pending'[p] = {"count"} /\ answer[p] = "none"
           \/ pending'[p] = {} /\ answer[p] # "none"
    BY <1>3, <1>5, <2>1, <2>2 DEF Continues
  <2> QED BY <1>1, <2>1, <2>3 DEF Phase
<1>6. CASE c = "count"
  <2>1. answer[p] = "none" /\ verdict[p] = "none"
    BY <1>2, <1>3, <1>6 DEF Phase
  <2> QED BY <1>1, <1>3, <1>6, <2>1 DEF Continues, Phase
<1>7. CASE c = "context"
  <2>1. answer[p] = "none"
    BY <1>2, <1>3, <1>7 DEF Phase
  <2>2. /\ verdict'[p] \in {"approved", "rejected"}
        /\ pending'[p] \in {{"ban"}, {"learn"}, {"store"}}
        /\ pending'[p] = {"ban"} => verdict'[p] = "rejected"
        /\ answer'[p] = answer[p]
    BY <1>3, <1>7 DEF Continues, Verdicts
  <2> QED BY <1>1, <2>1, <2>2 DEF Phase
<1>8. CASE c = "ban"
  <2>1. answer[p] = "none" /\ verdict[p] = "rejected"
    BY <1>2, <1>3, <1>8 DEF Phase
  <2> QED BY <1>1, <1>3, <1>8, <2>1 DEF Continues, Phase
<1>9. CASE c = "learn"
  <2>1. answer[p] = "none" /\ verdict[p] # "none"
    BY <1>2, <1>3, <1>9 DEF Phase
  <2> QED BY <1>1, <1>3, <1>9, <2>1 DEF Continues, Phase
<1>10. CASE c = "store"
  <2>1. verdict[p] # "none"
    BY <1>2, <1>3, <1>10 DEF Phase
  <2> QED BY <1>1, <1>3, <1>10, <2>1 DEF Continues, Phase
<1> QED BY <1>2, <1>4, <1>5, <1>6, <1>7, <1>8, <1>9, <1>10 DEF Commands

\* What FraudRaise does to the request.
LEMMA RaiseFacts ==
    ASSUME FraudInv, NEW p \in Payment, NEW c \in Commands, FraudRaise(p, c)
    PROVE  /\ c \in pending[p] /\ pinger # <<p, c>>
           /\ pending'[p] = pending[p] \ {c}
           /\ answer'[p] # "none"
           /\ answer[p] = "none" => answer'[p] = "error"
           /\ answer[p] # "none" => answer'[p] = answer[p]
           /\ verdict' = verdict
           /\ OthersRest(p)
           /\ UNCHANGED <<pinger, excused, refused, barred>>
BY DEF FraudRaise, UnderWay, OthersRest, FraudInv, FraudTypeOK

\* What FraudBegin does to the request.
LEMMA FraudBeginFacts ==
    ASSUME FraudInv, NEW p \in Payment, FraudBegin(p)
    PROVE  /\ pending[p] = {} /\ answer[p] = "none" /\ verdict[p] = "none" /\ found[p] = {}
           /\ pending'[p] = {"blacklist"}
           /\ UNCHANGED <<redis, found, verdict, answer, faults, counted, excused, refused>>
           /\ OthersRest(p)
           /\ barred' = IF refused THEN barred \cup {p} ELSE barred
           /\ p \notin barred
<1>1. Phase(p)
  BY DEF FraudInv
<1> QED BY <1>1 DEF FraudBegin, OthersRest, FraudInv, FraudTypeOK, Phase

\* A request keeps its phase in every step.
LEMMA PhasesStay ==
    ASSUME FraudInv, [FraudNext]_fraudVars
    PROVE  \A q \in Payment : Phase(q)'
<1>1. ASSUME NEW p \in Payment, FraudBegin(p) PROVE \A q \in Payment : Phase(q)'
  <2>1. Phase(p)'
    BY <1>1, FraudBeginFacts DEF Phase
  <2>2. ASSUME NEW q \in Payment, q # p PROVE Phase(q)'
    <3>1. UNCHANGED <<found[q], verdict[q], pending[q], answer[q]>> /\ (q \in barred' <=> q \in barred)
      BY <1>1, <2>2, FraudBeginFacts DEF OthersRest
    <3> QED BY <3>1 DEF FraudInv, Phase
  <2> QED BY <2>1, <2>2
<1>2. ASSUME NEW p \in Payment, NEW c \in Commands, FraudReply(p, c)
      PROVE  \A q \in Payment : Phase(q)'
  <2>1. /\ c \in pending[p] /\ Return(p, c, TRUE, client) /\ client \in {"none", "set"}
        /\ barred' = barred /\ FraudTypeOK /\ Phase(p)
    BY <1>2, ReplyReturns DEF FraudInv
  <2> QED BY <2>1, ReturnContinues, ReturnKeepsTypes, PhaseContinues
<1>3. ASSUME NEW p \in Payment, NEW c \in Commands, FraudFallOpen(p, c)
      PROVE  \A q \in Payment : Phase(q)'
  <2>1. /\ c \in pending[p] /\ Return(p, c, FALSE, "none")
        /\ barred' = barred /\ FraudTypeOK /\ Phase(p)
    BY <1>3, FallOpenReturns DEF FraudInv
  <2> QED BY <2>1, ReturnContinues, ReturnKeepsTypes, PhaseContinues
<1>4. ASSUME NEW p \in Payment, NEW c \in Commands, FraudRaise(p, c)
      PROVE  \A q \in Payment : Phase(q)'
  <2>1. Phase(p)'
    <3>1. Phase(p)
      BY DEF FraudInv
    <3>2. {"blacklist", "count", "context", "ban", "learn", "store"} \cap RuleCommands = {}
      BY DEF RuleCommands, Expires
    <3>3. pending'[p] = {} \/ (/\ pending[p] \subseteq RuleCommands
                               /\ answer[p] \in {"none", "error"}
                               /\ verdict[p] = "none")
      BY <1>4, <3>1, <3>2, RaiseFacts DEF Phase
    <3> QED BY <1>4, <3>3, RaiseFacts DEF Phase
  <2>2. ASSUME NEW q \in Payment, q # p PROVE Phase(q)'
    <3>1. UNCHANGED <<found[q], verdict[q], pending[q], answer[q]>> /\ barred' = barred
      BY <1>4, <2>2, RaiseFacts DEF OthersRest
    <3> QED BY <3>1 DEF FraudInv, Phase
  <2> QED BY <2>1, <2>2
<1>5. CASE UNCHANGED <<found, verdict, pending, answer>> /\ barred' \subseteq barred
  BY <1>5 DEF FraudInv, Phase
<1>6. CASE FraudExpiry
  <2>1. barred' \subseteq barred
    BY <1>6, ExpiryFacts DEF FraudInv
  <2> QED BY <1>5, <1>6, <2>1 DEF FraudExpiry
<1> QED BY <1>1, <1>2, <1>3, <1>4, <1>5, <1>6 DEF FraudNext, FraudStep, Pong, fraudVars

\* The steps of the requests, as the invariants see them: a request begins,
\* or a command of one comes back or raises, or the rest changes none of them.
LEMMA FraudSteps ==
    ASSUME FraudInv, [FraudNext]_fraudVars
    PROVE  \/ \E p \in Payment : FraudBegin(p)
           \/ \E p \in Payment : \E c \in pending[p] : \E read \in BOOLEAN :
                  /\ c \in Commands
                  /\ (FraudReply(p, c) /\ read) \/ (FraudFallOpen(p, c) /\ ~read)
                  /\ Continues(p, c, read)
                  /\ pending[p] \ {c} \subseteq pending'[p]
                  /\ refused' = (refused \/ (/\ c = "store"
                                            /\ verdict[p] = "rejected"
                                            /\ <<p, "ban">> \notin excused))
                  /\ OthersRest(p)
                  /\ barred' = barred
           \/ \E p \in Payment : \E c \in pending[p] : c \in Commands /\ FraudRaise(p, c)
           \/ /\ \/ Pong
                 \/ FraudExpiry
                 \/ UNCHANGED fraudVars
              /\ UNCHANGED <<pending, found, verdict, answer, faults>>
<1>1. ASSUME NEW p \in Payment, NEW c \in Commands, FraudReply(p, c)
      PROVE  /\ c \in pending[p]
             /\ Continues(p, c, TRUE)
             /\ pending[p] \ {c} \subseteq pending'[p]
             /\ refused' = (refused \/ (/\ c = "store"
                                       /\ verdict[p] = "rejected"
                                       /\ <<p, "ban">> \notin excused))
             /\ OthersRest(p)
             /\ barred' = barred
  <2>1. /\ c \in pending[p] /\ Return(p, c, TRUE, client) /\ client \in {"none", "set"}
        /\ barred' = barred /\ FraudTypeOK /\ Phase(p)
    BY <1>1, ReplyReturns DEF FraudInv
  <2> QED BY <2>1, ReturnContinues, ReturnKeepsTypes
<1>2. ASSUME NEW p \in Payment, NEW c \in Commands, FraudFallOpen(p, c)
      PROVE  /\ c \in pending[p]
             /\ Continues(p, c, FALSE)
             /\ pending[p] \ {c} \subseteq pending'[p]
             /\ refused' = (refused \/ (/\ c = "store"
                                       /\ verdict[p] = "rejected"
                                       /\ <<p, "ban">> \notin excused))
             /\ OthersRest(p)
             /\ barred' = barred
  <2>1. /\ c \in pending[p] /\ Return(p, c, FALSE, "none")
        /\ barred' = barred /\ FraudTypeOK /\ Phase(p)
    BY <1>2, FallOpenReturns DEF FraudInv
  <2> QED BY <2>1, ReturnContinues, ReturnKeepsTypes
<1>3. ASSUME NEW p \in Payment, NEW c \in Commands, FraudRaise(p, c)
      PROVE  c \in pending[p]
  BY <1>3, RaiseFacts
<1>4. ASSUME Pong \/ FraudExpiry \/ UNCHANGED fraudVars
      PROVE  UNCHANGED <<pending, found, verdict, answer, faults>>
  BY <1>4 DEF Pong, FraudExpiry, fraudVars
<1> QED BY <1>1, <1>2, <1>3, <1>4 DEF FraudNext, FraudStep

\* The command that pings is not taken out by another.
LEMMA PingerStaysIn ==
    ASSUME FraudInv, [FraudNext]_fraudVars
    PROVE  PingerIn'
<1> USE DEF NoCommand
<1>1. ASSUME NEW p \in Payment, FraudBegin(p) PROVE PingerIn'
  <2>1. {"blacklist"} \in SUBSET Commands
    BY DEF Commands
  <2>2. Connect(client, p, {"blacklist"}) /\ client \in {"none", "set"}
    BY <1>1 DEF FraudBegin, FraudInv, FraudTypeOK
  <2>3. \/ pinger' = NoCommand
        \/ pinger' = pinger
        \/ pinger' = <<p, "blacklist">>
    BY <2>1, <2>2, ConnectFacts
  <2>4. pending[p] = {} /\ pending'[p] = {"blacklist"} /\ OthersRest(p)
    BY <1>1, FraudBeginFacts
  <2> QED BY <2>3, <2>4 DEF PingerIn, FraudInv, OthersRest
<1>2. ASSUME NEW p \in Payment, NEW c \in Commands, NEW read \in BOOLEAN,
             NEW cl \in {"none", "set"}, Return(p, c, read, cl),
             cl = "set" => pinger # <<p, c>>
      PROVE  PingerIn'
  <2>1. FraudTypeOK
    BY DEF FraudInv
  <2>2. /\ \/ pinger' = NoCommand
           \/ pinger' = pinger /\ cl = "set"
           \/ \E d \in pending'[p] : pinger' = <<p, d>>
        /\ pending[p] \ {c} \subseteq pending'[p]
        /\ OthersRest(p)
    BY <1>2, <2>1, ReturnKeepsTypes
  <2> QED BY <1>2, <2>2 DEF PingerIn, FraudInv, OthersRest
<1>3. ASSUME NEW p \in Payment, NEW c \in Commands, FraudReply(p, c) PROVE PingerIn'
  BY <1>2, <1>3, ReplyReturns DEF FraudReply, UnderWay
<1>4. ASSUME NEW p \in Payment, NEW c \in Commands, FraudFallOpen(p, c) PROVE PingerIn'
  BY <1>2, <1>4, FallOpenReturns
<1>5. ASSUME NEW p \in Payment, NEW c \in Commands, FraudRaise(p, c) PROVE PingerIn'
  BY <1>5, RaiseFacts DEF PingerIn, FraudInv, OthersRest
<1>6. CASE Pong \/ FraudExpiry \/ UNCHANGED fraudVars
  BY <1>6 DEF Pong, FraudExpiry, fraudVars, PingerIn, FraudInv
<1> QED BY <1>1, <1>3, <1>4, <1>5, <1>6 DEF FraudNext, FraudStep

\* The decision an answer gave is not taken again.
LEMMA AnswersStay ==
    ASSUME FraudInv, [FraudNext]_fraudVars
    PROVE  AnswerInv'
<1>1. ASSUME NEW p \in Payment, NEW c \in pending[p], NEW read \in BOOLEAN,
             c \in Commands, Continues(p, c, read), OthersRest(p)
      PROVE  AnswerInv'
  <2>1. Phase(p) /\ AnswerInv
    BY DEF FraudInv
  <2>2. answer[p] \in {"none", "error"}
    BY <2>1 DEF Phase
  <2>3. answer'[p] \in {"approved", "rejected"} => answer'[p] = verdict'[p]
    BY <1>1, <2>2 DEF Continues
  <2> QED BY <1>1, <2>1, <2>3 DEF AnswerInv, OthersRest
<1>2. ASSUME NEW p \in Payment, NEW c \in Commands, FraudRaise(p, c) PROVE AnswerInv'
  BY <1>2, RaiseFacts DEF AnswerInv, FraudInv, OthersRest
<1>3. ASSUME NEW p \in Payment, FraudBegin(p) PROVE AnswerInv'
  BY <1>3, FraudBeginFacts DEF AnswerInv, FraudInv
<1>4. CASE UNCHANGED <<verdict, answer>>
  BY <1>4 DEF AnswerInv, FraudInv
<1> QED BY <1>1, <1>2, <1>3, <1>4, FraudSteps

\* The ban that has been written stays as long as anybody relies on it.
LEMMA BansStay ==
    ASSUME FraudInv, [FraudNext]_fraudVars
    PROVE  BanInv'
<1>1. ASSUME NEW p \in Payment, FraudBegin(p) PROVE BanInv'
  BY <1>1, FraudBeginFacts DEF BanInv, FraudInv, OthersRest
<1>2. ASSUME NEW p \in Payment, NEW c \in pending[p], NEW read \in BOOLEAN,
             c \in Commands, (FraudReply(p, c) /\ read) \/ (FraudFallOpen(p, c) /\ ~read),
             Continues(p, c, read), OthersRest(p),
             refused' = (refused \/ (/\ c = "store"
                                   /\ verdict[p] = "rejected"
                                   /\ <<p, "ban">> \notin excused))
      PROVE  BanInv'
  <2>1. Phase(p) /\ BanInv /\ FraudTypeOK
    BY DEF FraudInv
  <2>2. /\ redis.banned => redis'.banned
        /\ c = "ban" /\ read => redis'.banned
        /\ excused \subseteq excused'
        /\ c = "ban" /\ ~read => <<p, "ban">> \in excused'
    BY <1>2, <2>1, EffectFacts DEF FraudReply, FraudFallOpen
  <2>3. c = "store" => pending[p] = {"store"}
    BY <2>1 DEF Phase, RuleCommands, Expires
  <2>4. refused' => redis'.banned
    BY <1>2, <2>1, <2>2, <2>3 DEF BanInv
  <2>5. ASSUME pending'[p] \in {{"learn"}, {"store"}}, verdict'[p] = "rejected",
               <<p, "ban">> \notin excused'
        PROVE  redis'.banned
    <3>1. {"learn", "store", "count", "blacklist"} \cap RuleCommands = {}
      BY DEF RuleCommands, Expires
    <3>2. CASE c = "blacklist"
      <4>1. GatheredRules(p) # {"learn"} /\ GatheredRules(p) # {"store"}
        BY <1>2, <3>1, RuleFacts
      <4>2. read /\ redis.banned
        BY <1>2, <2>5, <3>1, <3>2, <4>1 DEF Continues
      <4> QED BY <2>2, <4>2
    <3>3. CASE c \in RuleCommands
      <4>1. verdict[p] = "none" /\ verdict'[p] = verdict[p]
        BY <1>2, <2>1, <3>3 DEF Continues, Phase, RuleCommands, Expires
      <4> QED BY <2>5, <4>1
    <3>4. CASE c = "count"
      BY <1>2, <2>5, <3>4 DEF Continues, RuleCommands, Expires
    <3>5. CASE c = "context"
      BY <1>2, <2>5, <3>5 DEF Continues, RuleCommands, Expires
    <3>6. CASE c = "ban"
      BY <2>2, <2>5, <3>6
    <3>7. CASE c = "learn"
      <4>1. pending[p] = {"learn"} /\ verdict'[p] = verdict[p]
        BY <1>2, <2>1, <3>7 DEF Continues, Phase, RuleCommands, Expires
      <4> QED BY <2>1, <2>2, <2>5, <4>1 DEF BanInv
    <3>8. CASE c = "store"
      BY <1>2, <2>5, <3>8 DEF Continues, RuleCommands, Expires
    <3> QED BY <1>2, <3>2, <3>3, <3>4, <3>5, <3>6, <3>7, <3>8 DEF Commands
  <2>6. ASSUME NEW q \in Payment, q # p, pending'[q] \in {{"learn"}, {"store"}},
               verdict'[q] = "rejected", <<q, "ban">> \notin excused'
        PROVE  redis'.banned
    BY <1>2, <2>1, <2>2, <2>6 DEF BanInv, OthersRest
  <2> QED BY <2>4, <2>5, <2>6 DEF BanInv
<1>3. ASSUME NEW p \in Payment, NEW c \in Commands, FraudRaise(p, c) PROVE BanInv'
  <2>1. Phase(p) /\ BanInv /\ FraudTypeOK
    BY DEF FraudInv
  <2>2. redis.banned => redis'.banned
    BY <1>3, <2>1, EffectFacts DEF FraudRaise
  <2>3. pending'[p] \notin {{"learn"}, {"store"}}
    BY <1>3, <2>1, RaiseFacts DEF Phase, RuleCommands, Expires
  <2> QED BY <1>3, <2>1, <2>2, <2>3, RaiseFacts DEF BanInv, OthersRest
<1>4. ASSUME FraudExpiry, UNCHANGED <<pending, verdict>> PROVE BanInv'
  <2>1. BanInv /\ FraudTypeOK
    BY DEF FraudInv
  <2>2. CASE redis'.banned = redis.banned /\ UNCHANGED <<refused, excused>>
    BY <1>4, <2>1, <2>2 DEF BanInv
  <2>3. CASE /\ refused' = FALSE
             /\ \A q \in Payment : /\ pending[q] \in {{"learn"}, {"store"}}
                                   /\ verdict[q] = "rejected"
                                   => <<q, "ban">> \in excused'
    BY <1>4, <2>3 DEF BanInv
  <2> QED BY <1>4, <2>1, <2>2, <2>3, ExpiryFacts
<1>5. CASE UNCHANGED <<redis, pending, verdict, excused, refused>>
  BY <1>5 DEF BanInv, FraudInv
<1> QED BY <1>1, <1>2, <1>3, <1>4, <1>5, FraudSteps DEF Pong, fraudVars

\* A request that was begun after a rejection finds the ban, or no client.
LEMMA BarredStay ==
    ASSUME FraudInv, [FraudNext]_fraudVars
    PROVE  BarredInv'
<1>1. ASSUME NEW p \in Payment, FraudBegin(p) PROVE BarredInv'
  <2>1. FraudTypeOK /\ BarredInv
    BY DEF FraudInv
  <2>2. ASSUME NEW q \in barred
        PROVE  q \in Payment /\ q # p /\ UNCHANGED <<pending[q], verdict[q], answer[q]>>
    BY <1>1, <2>1, FraudBeginFacts DEF FraudTypeOK, OthersRest
  <2>3. /\ UNCHANGED <<excused, refused>>
        /\ pending'[p] = {"blacklist"}
        /\ barred' = barred \/ (refused /\ barred' = barred \cup {p})
    BY <1>1, FraudBeginFacts
  <2>4. ASSUME NEW q \in barred
        PROVE  /\ "blacklist" \in pending'[q] => refused'
               /\ "blacklist" \notin pending'[q] /\ <<q, "blacklist">> \notin excused' =>
                      verdict'[q] = "rejected" \/ answer'[q] = "error"
    BY <2>1, <2>2, <2>3 DEF BarredInv
  <2>5. refused /\ barred' = barred \cup {p} =>
            \A q \in barred' : q \in barred \/ ("blacklist" \in pending'[q] /\ refused')
    BY <2>3
  <2>6. \A q \in barred' : q \in barred \/ ("blacklist" \in pending'[q] /\ refused')
    BY <2>3, <2>5
  <2> QED BY <2>4, <2>6 DEF BarredInv
<1>2. ASSUME NEW p \in Payment, NEW c \in pending[p], NEW read \in BOOLEAN,
             c \in Commands, (FraudReply(p, c) /\ read) \/ (FraudFallOpen(p, c) /\ ~read),
             Continues(p, c, read), OthersRest(p), barred' = barred,
             refused => refused'
      PROVE  BarredInv'
  <2>1. Phase(p) /\ BanInv /\ BarredInv /\ FraudTypeOK
    BY DEF FraudInv
  <2>2. /\ excused \subseteq excused'
        /\ c = "blacklist" /\ ~read => <<p, "blacklist">> \in excused'
    BY <1>2 DEF FraudReply, FraudFallOpen
  <2>3. {"blacklist", "count", "context", "ban", "learn", "store"} \cap RuleCommands = {}
    BY DEF RuleCommands, Expires
  <2>4. "blacklist" \notin pending'[p]
    <3>1. c \in RuleCommands => pending[p] \subseteq RuleCommands
      BY <2>1, <2>3 DEF Phase
    <3>2. /\ GatheredRules(p) \subseteq RuleCommands
          /\ Follow(p, c) \subseteq {"cardExpire", "smallExpire", "placeSet"}
      BY <1>2, RuleFacts
    <3> QED BY <1>2, <2>3, <3>1, <3>2 DEF Continues
  <2>5. ASSUME p \in barred, <<p, "blacklist">> \notin excused'
        PROVE  verdict'[p] = "rejected" \/ answer'[p] = "error"
    <3>1. CASE c = "blacklist"
      <4>1. read /\ redis.banned
        BY <2>1, <2>2, <2>5, <3>1 DEF BarredInv, BanInv
      <4> QED BY <1>2, <2>3, <3>1, <4>1 DEF Continues
    <3>2. CASE c # "blacklist"
      <4>1. "blacklist" \notin pending[p]
        BY <2>1, <2>3, <3>2 DEF Phase
      <4>2. verdict[p] = "rejected" \/ answer[p] = "error"
        BY <2>1, <2>2, <2>5, <4>1 DEF BarredInv
      <4>3. CASE c \in RuleCommands
        BY <1>2, <2>3, <4>2, <4>3 DEF Continues
      <4>4. CASE c \notin RuleCommands
        <5>1. answer[p] = "none"
          BY <2>1, <4>4 DEF Phase
        <5>2. c \in {"ban", "learn", "store"}
          BY <1>2, <2>1, <2>3, <3>2, <4>2, <4>4, <5>1 DEF Phase, Commands
        <5>3. verdict'[p] = verdict[p]
          BY <1>2, <2>3, <5>2 DEF Continues
        <5> QED BY <4>2, <5>1, <5>3
      <4> QED BY <4>3, <4>4
    <3> QED BY <3>1, <3>2
  <2>6. ASSUME NEW q \in barred, q # p
        PROVE  /\ "blacklist" \in pending'[q] => refused'
               /\ "blacklist" \notin pending'[q] /\ <<q, "blacklist">> \notin excused' =>
                      verdict'[q] = "rejected" \/ answer'[q] = "error"
    <3>1. q \in Payment
      BY <2>1 DEF FraudTypeOK
    <3> QED BY <1>2, <2>1, <2>2, <2>6, <3>1 DEF BarredInv, OthersRest
  <2> QED BY <1>2, <2>4, <2>5, <2>6 DEF BarredInv
<1>3. ASSUME NEW p \in Payment, NEW c \in Commands, FraudRaise(p, c) PROVE BarredInv'
  <2>1. Phase(p) /\ BarredInv /\ FraudTypeOK
    BY DEF FraudInv
  <2>2. answer'[p] = "error"
    <3>1. pending[p] # {} /\ answer[p] \in {"none", "error"}
      BY <1>3, <2>1, RaiseFacts DEF Phase
    <3> QED BY <1>3, <3>1, RaiseFacts
  <2>3. ASSUME NEW q \in barred
        PROVE  /\ "blacklist" \in pending'[q] => refused'
               /\ "blacklist" \notin pending'[q] /\ <<q, "blacklist">> \notin excused' =>
                      verdict'[q] = "rejected" \/ answer'[q] = "error"
    <3>1. q \in Payment
      BY <2>1 DEF FraudTypeOK
    <3>2. CASE q = p
      BY <1>3, <2>1, <2>2, <3>2, RaiseFacts DEF BarredInv
    <3>3. CASE q # p
      BY <1>3, <2>1, <3>1, <3>3, RaiseFacts DEF BarredInv, OthersRest
    <3> QED BY <3>2, <3>3
  <2> QED BY <1>3, <2>3, RaiseFacts DEF BarredInv
<1>4. ASSUME FraudExpiry, UNCHANGED <<pending, verdict, answer>>
      PROVE  BarredInv'
  <2>1. BarredInv /\ FraudTypeOK
    BY DEF FraudInv
  <2>2. UNCHANGED <<refused, barred, excused>> \/ barred' = {}
    BY <1>4, <2>1, ExpiryFacts
  <2>3. CASE UNCHANGED <<refused, barred, excused>>
    BY <1>4, <2>1, <2>3 DEF BarredInv
  <2>4. CASE barred' = {}
    BY <2>4 DEF BarredInv
  <2> QED BY <2>2, <2>3, <2>4
<1>5. CASE UNCHANGED <<pending, verdict, answer, excused, refused, barred>>
  BY <1>5 DEF BarredInv, FraudInv
<1> QED BY <1>1, <1>2, <1>3, <1>4, <1>5, FraudSteps DEF Pong, fraudVars

-----------------------------------------------------------------------------
\* Whoever is not to be approved stays so.
LEMMA SpoiledStays ==
    ASSUME FraudInv, NEW p \in Payment, NEW c \in pending[p], NEW read \in BOOLEAN,
           c \in Commands, Continues(p, c, read), OthersRest(p), NEW q \in Payment, Spoiled(q)
    PROVE  Spoiled(q)'
<1>1. CASE q # p
  BY <1>1 DEF Spoiled, OthersRest
<1>2. CASE q = p
  <2>1. Phase(p)
    BY DEF FraudInv
  <2>2. {"blacklist", "count", "context", "ban", "learn", "store"} \cap RuleCommands = {}
    BY DEF RuleCommands, Expires
  <2>3. CASE c \in RuleCommands
    <3>1. verdict[p] = "none"
      BY <2>1, <2>2, <2>3 DEF Phase
    <3> QED BY <1>2, <2>2, <2>3, <3>1 DEF Continues, Spoiled
  <2>4. CASE c \in {"blacklist", "count"}
    <3>1. answer[p] = "none" /\ verdict[p] = "none" /\ (c = "blacklist" => found[p] = {})
      BY <2>1, <2>2, <2>4 DEF Phase
    <3> QED BY <1>2, <2>2, <2>4, <3>1 DEF Continues, Spoiled
  <2>5. CASE c = "context"
    <3>1. answer[p] = "none" /\ verdict[p] = "none"
      BY <2>1, <2>2, <2>5 DEF Phase
    <3>2. Verdicts(found[p]) = {"rejected"}
      BY <1>2, <3>1 DEF Spoiled, Verdicts, High
    <3> QED BY <1>2, <2>2, <2>5, <3>1, <3>2 DEF Continues, Spoiled
  <2>6. CASE c \in {"ban", "learn", "store"}
    <3>1. answer[p] = "none" /\ verdict[p] # "none"
      BY <2>1, <2>2, <2>6 DEF Phase
    <3> QED BY <1>2, <2>2, <2>6, <3>1 DEF Continues, Spoiled
  <2> QED BY <2>3, <2>4, <2>5, <2>6 DEF Commands
<1> QED BY <1>1, <1>2

\* One more payment in the window, which may be approved only within the limit.
LEMMA WindowGrows ==
    ASSUME WindowInv, NEW p \in Payment,
           redis.card \in Nat, redis'.card \in Nat, redis'.card >= redis.card,
           \/ counted' = counted
           \/ /\ counted' = counted \cup {p}
              /\ redis'.card = redis.card + 1
              /\ Spoiled(p)' \/ redis.card + 1 <= CardLimit,
           \A q \in counted : Spoiled(q) => Spoiled(q)'
    PROVE  WindowInv'
<1> DEFINE clean == {q \in counted : ~Spoiled(q)}
           clean2 == {q \in counted' : ~Spoiled(q)'}
<1>1. IsFiniteSet(counted) /\ Cardinality(counted) <= redis.card /\ Cardinality(clean) <= CardLimit
  BY DEF WindowInv
<1>2. IsFiniteSet(clean) /\ Cardinality(clean) \in Nat /\ Cardinality(counted) \in Nat
  BY <1>1, FS_Subset, FS_CardinalityType
<1>3. IsFiniteSet(counted') /\ Cardinality(counted') <= redis'.card
  <2>1. CASE counted' = counted
    BY <1>1, <1>2, <2>1
  <2>2. CASE counted' = counted \cup {p} /\ redis'.card = redis.card + 1
    <3>1. /\ IsFiniteSet(counted \cup {p})
          /\ Cardinality(counted \cup {p}) \in {Cardinality(counted), Cardinality(counted) + 1}
      BY <1>1, FS_AddElement
    <3> QED BY <1>1, <1>2, <2>2, <3>1
  <2> QED BY <2>1, <2>2
<1>4. IsFiniteSet(clean2) /\ Cardinality(clean2) \in Nat /\ Cardinality(clean2) <= Cardinality(counted')
  BY <1>3, FS_Subset, FS_CardinalityType
<1>5. Cardinality(clean2) <= CardLimit
  <2>1. CASE counted' = counted \/ (counted' = counted \cup {p} /\ Spoiled(p)')
    <3>1. clean2 \subseteq clean
      BY <2>1
    <3>2. Cardinality(clean2) <= Cardinality(clean)
      BY <1>2, <3>1, FS_Subset
    <3> QED BY <1>1, <1>2, <1>4, <3>2, FraudAssumption
  <2>2. CASE redis'.card = redis.card + 1 /\ redis.card + 1 <= CardLimit
    <3>1. Cardinality(counted') \in Nat
      BY <1>3, FS_CardinalityType
    <3> QED BY <1>3, <1>4, <2>2, <3>1, FraudAssumption
  <2> QED BY <2>1, <2>2
<1> QED BY <1>3, <1>5 DEF WindowInv

\* The window's bound in every step: the count that passes the limit spoils the
\* payment that made it, the rest grow within the limit.
LEMMA WindowStays ==
    ASSUME FraudInv, [FraudNext]_fraudVars
    PROVE  WindowInv'
<1>1. FraudTypeOK /\ WindowInv /\ counted \subseteq Payment /\ redis.card \in Nat
  BY DEF FraudInv, FraudTypeOK
<1>2. ASSUME NEW p \in Payment, NEW c \in pending[p], NEW read \in BOOLEAN,
             c \in Commands, (FraudReply(p, c) /\ read) \/ (FraudFallOpen(p, c) /\ ~read),
             Continues(p, c, read), OthersRest(p)
      PROVE  WindowInv'
  <2>1. \A q \in counted : Spoiled(q) => Spoiled(q)'
    BY <1>1, <1>2, SpoiledStays
  <2>2. CASE FraudReply(p, c) /\ read /\ c = "card"
    <3>1. counted' = counted \cup {p} /\ redis'.card = redis.card + 1
      <4>1. Effect(p, c).card = redis.card + 1
        BY <1>1, <1>2, <2>2, EffectFacts
      <4> QED BY <2>2, <4>1 DEF FraudReply
    <3>2. Spoiled(p)' \/ redis.card + 1 <= CardLimit
      <4>1. "card" \in RuleCommands /\ "card" \notin {"blacklist", "count", "context", "ban", "learn", "store"}
        BY DEF RuleCommands
      <4>2. Phase(p)
        BY DEF FraudInv
      <4>3. answer[p] \in {"none", "error"} /\ verdict[p] = "none"
        BY <2>2, <4>1, <4>2 DEF Phase
      <4>4. /\ verdict'[p] = verdict[p] /\ answer'[p] = answer[p]
            /\ answer[p] = "none" => Reported(p, c) \subseteq found'[p]
        BY <1>2, <2>2, <4>1 DEF Continues
      <4>5. redis.card + 1 > CardLimit => "card" \in Reported(p, c)
        BY <1>2, <2>2, RuleFacts
      <4> QED BY <1>1, <4>3, <4>4, <4>5, FraudAssumption DEF Spoiled
    <3> QED BY <1>1, <2>1, <3>1, <3>2, WindowGrows
  <2>3. CASE ~(FraudReply(p, c) /\ read /\ c = "card")
    <3>1. counted' = counted
      BY <1>2, <2>3 DEF FraudReply, FraudFallOpen
    <3>2. redis'.card = redis.card
      <4>1. c # "card" => Effect(p, c).card = redis.card
        BY <1>1, <1>2, EffectFacts
      <4> QED BY <1>2, <2>3, <4>1 DEF FraudReply, FraudFallOpen
    <3> QED BY <1>1, <2>1, <3>1, <3>2, WindowGrows
  <2> QED BY <2>2, <2>3
<1>3. ASSUME NEW p \in Payment, NEW c \in Commands, FraudRaise(p, c) PROVE WindowInv'
  <2>1. answer'[p] = "error"
    <3>1. pending[p] # {} /\ answer[p] \in {"none", "error"}
      BY <1>3, RaiseFacts DEF Phase, FraudInv
    <3> QED BY <1>3, <3>1, RaiseFacts
  <2>2. Spoiled(p)'
    BY <2>1 DEF Spoiled
  <2>3. ASSUME NEW q \in counted, Spoiled(q) PROVE Spoiled(q)'
    <3>1. CASE q = p
      BY <2>2, <3>1
    <3>2. CASE q # p
      BY <1>1, <1>3, <2>3, <3>2, RaiseFacts DEF Spoiled, OthersRest
    <3> QED BY <3>1, <3>2
  <2>4. \/ counted' = counted /\ redis'.card \in {redis.card, redis.card + 1}
        \/ counted' = counted \cup {p} /\ redis'.card = redis.card + 1
    <3>1. Effect(p, c).card = IF c = "card" THEN redis.card + 1 ELSE redis.card
      BY <1>1, <1>3, EffectFacts
    <3>2. /\ redis' = redis \/ redis' = Effect(p, c)
          /\ counted' = IF c = "card" /\ redis' # redis THEN counted \cup {p} ELSE counted
      BY <1>3 DEF FraudRaise
    <3>3. CASE c = "card" /\ redis' # redis
      BY <3>1, <3>2, <3>3
    <3>4. CASE c # "card" \/ redis' = redis
      BY <3>1, <3>2, <3>4
    <3> QED BY <3>3, <3>4
  <2>5. redis'.card \in Nat /\ redis'.card >= redis.card
    BY <1>1, <2>4
  <2> QED BY <1>1, <2>2, <2>3, <2>4, <2>5, WindowGrows
<1>4. ASSUME NEW p \in Payment, FraudBegin(p) PROVE WindowInv'
  BY <1>1, <1>4, FraudBeginFacts DEF WindowInv, Spoiled
<1>5. ASSUME FraudExpiry, UNCHANGED <<found, verdict, answer>> PROVE WindowInv'
  <2>1. \/ redis'.card = 0 /\ counted' = {}
        \/ redis'.card = redis.card /\ counted' = counted
    BY <1>1, <1>5, ExpiryFacts
  <2>2. CASE redis'.card = 0 /\ counted' = {}
    <3>1. {q \in counted' : ~Spoiled(q)'} = {}
      BY <2>2
    <3> QED BY <2>2, <3>1, FS_EmptySet, FraudAssumption DEF WindowInv
  <2>3. CASE redis'.card = redis.card /\ counted' = counted
    BY <1>1, <1>5, <2>3 DEF WindowInv, Spoiled
  <2> QED BY <2>1, <2>2, <2>3
<1>6. CASE UNCHANGED <<redis, counted, found, verdict, answer>>
  BY <1>1, <1>6 DEF WindowInv, Spoiled
<1> QED BY <1>2, <1>3, <1>4, <1>5, <1>6, FraudSteps DEF Pong, fraudVars

-----------------------------------------------------------------------------
\* The counters that have no expiry and none under way.
Lost ==
    {k \in {"cardExpire", "smallExpire"} :
        /\ IF k = "cardExpire" THEN redis.card > 0 /\ ~redis.cardTtl
           ELSE redis.small > 0 /\ ~redis.smallTtl
        /\ \A p \in Payment : k \notin pending[p]}

\* They are at most two.
LEMMA LostFew ==
    ASSUME NEW S, S \subseteq {"cardExpire", "smallExpire"}
    PROVE  IsFiniteSet(S) /\ Cardinality(S) \in Nat
<1>1. IsFiniteSet({"cardExpire"} \cup {"smallExpire"})
  BY FS_Singleton, FS_AddElement
<1>2. S \subseteq {"cardExpire"} \cup {"smallExpire"}
  OBVIOUS
<1>3. IsFiniteSet(S)
  BY <1>1, <1>2, FS_Subset
<1> QED BY <1>3, FS_CardinalityType

\* A step that loses none keeps the bound.
LEMMA NoneLost ==
    ASSUME FraudInv, faults' \in Nat, faults' >= faults, Lost' \subseteq Lost
    PROVE  CountersExpire'
<1>1. IsFiniteSet(Lost) /\ Cardinality(Lost) \in Nat /\ Cardinality(Lost') \in Nat
  BY LostFew DEF Lost
<1>2. Cardinality(Lost') <= Cardinality(Lost)
  BY <1>1, FS_Subset
<1>3. Cardinality(Lost) <= faults /\ faults \in Nat
  BY FraudAssumption DEF FraudInv, CountersExpire, Lost, FraudTypeOK
<1>4. Cardinality(Lost') <= faults'
  BY <1>1, <1>2, <1>3
<1> QED BY <1>4 DEF CountersExpire, Lost

\* The same for a fault that loses one.
LEMMA OneLost ==
    ASSUME FraudInv, faults' = faults + 1, NEW k, Lost' \subseteq Lost \cup {k}
    PROVE  CountersExpire'
<1>1. IsFiniteSet(Lost) /\ Cardinality(Lost) \in Nat /\ Cardinality(Lost') \in Nat
  BY LostFew DEF Lost
<1>2. /\ IsFiniteSet(Lost \cup {k})
      /\ Cardinality(Lost \cup {k}) \in {Cardinality(Lost), Cardinality(Lost) + 1}
  BY <1>1, FS_AddElement
<1>3. Cardinality(Lost') <= Cardinality(Lost \cup {k})
  BY <1>2, FS_Subset
<1>4. Cardinality(Lost) <= faults /\ faults \in Nat
  BY FraudAssumption DEF FraudInv, CountersExpire, Lost, FraudTypeOK
<1>5. Cardinality(Lost') <= faults'
  BY <1>1, <1>2, <1>3, <1>4
<1> QED BY <1>5 DEF CountersExpire, Lost

\* Only a fault loses an expiry: the first count has it under way at once.
LEMMA ExpiriesStay ==
    ASSUME FraudInv, [FraudNext]_fraudVars
    PROVE  CountersExpire'
<1>1. FraudTypeOK /\ faults \in Nat /\ redis.card \in Nat /\ redis.small \in Nat
  BY FraudAssumption DEF FraudInv, FraudTypeOK
<1>2. ASSUME NEW p \in Payment, FraudBegin(p) PROVE CountersExpire'
  <2>1. \A q \in Payment : pending[q] \subseteq pending'[q]
    BY <1>2, FraudBeginFacts DEF OthersRest
  <2>2. Lost' \subseteq Lost
    BY <1>2, <2>1, FraudBeginFacts DEF Lost
  <2> QED BY <1>1, <1>2, <2>2, FraudBeginFacts, NoneLost
<1>3. ASSUME NEW p \in Payment, NEW c \in pending[p], c \in Commands,
             FraudReply(p, c), Continues(p, c, TRUE), OthersRest(p),
             pending[p] \ {c} \subseteq pending'[p]
      PROVE  CountersExpire'
  <2>1. /\ redis'.card = (IF c = "card" THEN redis.card + 1 ELSE redis.card)
        /\ redis'.cardTtl = (IF c = "cardExpire" THEN redis.card > 0 ELSE redis.cardTtl)
        /\ redis'.small = (IF c = "small" THEN redis.small + 1 ELSE redis.small)
        /\ redis'.smallTtl = (IF c = "smallExpire" THEN redis.small > 0 ELSE redis.smallTtl)
        /\ faults' = faults
    BY <1>1, <1>3, EffectFacts DEF FraudReply
  <2>2. \A q \in Payment : pending[q] \ {c} \subseteq pending'[q]
    BY <1>3 DEF OthersRest
  <2>3. {"card", "cardExpire", "small", "smallExpire"} \subseteq RuleCommands
        /\ {"blacklist", "count", "context", "ban", "learn", "store"} \cap RuleCommands = {}
    BY DEF RuleCommands, Expires
  <2>4. Follow(p, c) # {} => Follow(p, c) \subseteq pending'[p]
    <3>1. c \in RuleCommands \/ Follow(p, c) = {}
      BY <1>3, RuleFacts
    <3> QED BY <1>3, <2>3, <3>1 DEF Continues
  <2>5. "cardExpire" \in Lost' => "cardExpire" \in Lost
    <3> SUFFICES ASSUME "cardExpire" \in Lost' PROVE "cardExpire" \in Lost
      OBVIOUS
    <3>1. redis'.card > 0 /\ ~redis'.cardTtl /\ \A q \in Payment : "cardExpire" \notin pending'[q]
      BY DEF Lost
    <3>2. c # "cardExpire"
      BY <1>1, <2>1, <3>1
    <3>3. redis.card > 0
      <4>1. CASE c = "card"
        <5>1. redis.card + 1 # 1
          BY <1>3, <2>4, <3>1, <4>1, RuleFacts
        <5> QED BY <1>1, <5>1
      <4>2. CASE c # "card"
        BY <2>1, <3>1, <4>2
      <4> QED BY <4>1, <4>2
    <3> QED BY <2>1, <2>2, <3>1, <3>2, <3>3 DEF Lost
  <2>6. "smallExpire" \in Lost' => "smallExpire" \in Lost
    <3> SUFFICES ASSUME "smallExpire" \in Lost' PROVE "smallExpire" \in Lost
      OBVIOUS
    <3>1. redis'.small > 0 /\ ~redis'.smallTtl /\ \A q \in Payment : "smallExpire" \notin pending'[q]
      BY DEF Lost
    <3>2. c # "smallExpire"
      BY <1>1, <2>1, <3>1
    <3>3. redis.small > 0
      <4>1. CASE c = "small"
        <5>1. redis.small + 1 # 1
          BY <1>3, <2>4, <3>1, <4>1, RuleFacts
        <5> QED BY <1>1, <5>1
      <4>2. CASE c # "small"
        BY <2>1, <3>1, <4>2
      <4> QED BY <4>1, <4>2
    <3> QED BY <2>1, <2>2, <3>1, <3>2, <3>3 DEF Lost
  <2>7. Lost' \subseteq Lost
    BY <2>5, <2>6 DEF Lost
  <2> QED BY <1>1, <2>1, <2>7, NoneLost
<1>4. ASSUME NEW p \in Payment, NEW c \in pending[p], c \in Commands, FraudFallOpen(p, c),
             OthersRest(p), pending[p] \ {c} \subseteq pending'[p]
      PROVE  CountersExpire'
  <2>1. redis' = redis /\ faults' = faults + 1
    BY <1>4, FallOpenReturns DEF FraudFallOpen
  <2>2. \A q \in Payment : pending[q] \ {c} \subseteq pending'[q]
    BY <1>4 DEF OthersRest
  <2>3. Lost' \subseteq Lost \cup {c}
    BY <2>1, <2>2 DEF Lost
  <2> QED BY <2>1, <2>3, OneLost
<1>5. ASSUME NEW p \in Payment, NEW c \in Commands, FraudRaise(p, c) PROVE CountersExpire'
  <2>1. faults' = faults + 1 /\ (redis' = redis \/ redis' = Effect(p, c))
    BY <1>5 DEF FraudRaise
  <2>2. \A q \in Payment : pending[q] \ {c} \subseteq pending'[q]
    BY <1>5, RaiseFacts DEF OthersRest
  <2>3. LET r == Effect(p, c)
        IN /\ r.card = (IF c = "card" THEN redis.card + 1 ELSE redis.card)
           /\ r.cardTtl = (IF c = "cardExpire" THEN redis.card > 0 ELSE redis.cardTtl)
           /\ r.small = (IF c = "small" THEN redis.small + 1 ELSE redis.small)
           /\ r.smallTtl = (IF c = "smallExpire" THEN redis.small > 0 ELSE redis.smallTtl)
    BY <1>1, EffectFacts
  <2>4. PICK k \in {"cardExpire", "smallExpire"} : k = "cardExpire" <=> c \in {"card", "cardExpire"}
    OBVIOUS
  <2>5. ASSUME NEW l \in Lost', l # k PROVE l \in Lost
    <3>1. CASE l = "cardExpire"
      <4>1. c \notin {"card", "cardExpire"}
        BY <2>4, <2>5, <3>1
      <4>2. redis'.card = redis.card /\ redis'.cardTtl = redis.cardTtl
        BY <2>1, <2>3, <4>1
      <4> QED BY <2>2, <2>5, <3>1, <4>1, <4>2 DEF Lost
    <3>2. CASE l = "smallExpire"
      <4>1. c \in {"card", "cardExpire"}
        BY <2>4, <2>5, <3>2
      <4>2. redis'.small = redis.small /\ redis'.smallTtl = redis.smallTtl
        BY <2>1, <2>3, <4>1
      <4> QED BY <2>2, <2>5, <3>2, <4>1, <4>2 DEF Lost
    <3> QED BY <2>5, <3>1, <3>2 DEF Lost
  <2>6. Lost' \subseteq Lost \cup {k}
    BY <2>5
  <2> QED BY <2>1, <2>6, OneLost
<1>6. ASSUME FraudExpiry, UNCHANGED <<pending, faults>> PROVE CountersExpire'
  <2>1. /\ \/ redis'.card = 0
           \/ redis'.card = redis.card /\ redis'.cardTtl = redis.cardTtl
        /\ \/ redis'.small = 0
           \/ redis'.small = redis.small /\ redis'.smallTtl = redis.smallTtl
    BY <1>1, <1>6, ExpiryFacts
  <2>2. Lost' \subseteq Lost
    BY <1>6, <2>1 DEF Lost
  <2> QED BY <1>1, <1>6, <2>2, NoneLost
<1>7. CASE UNCHANGED <<redis, pending, faults>>
  BY <1>7 DEF CountersExpire, FraudInv
<1> QED
  <2>1. ASSUME NEW p \in Payment, NEW c \in pending[p], NEW read \in BOOLEAN, c \in Commands,
               (FraudReply(p, c) /\ read) \/ (FraudFallOpen(p, c) /\ ~read),
               Continues(p, c, read), OthersRest(p), pending[p] \ {c} \subseteq pending'[p]
        PROVE  CountersExpire'
    <3>1. CASE read
      BY <1>3, <2>1, <3>1
    <3>2. CASE ~read
      BY <1>4, <2>1, <3>2
    <3> QED BY <3>1, <3>2
  <2> QED BY <1>2, <1>5, <1>6, <1>7, <2>1, FraudSteps DEF Pong, fraudVars

-----------------------------------------------------------------------------
\* A process that starts.
LEMMA FraudInitial == FraudInit => FraudInv
<1> SUFFICES ASSUME FraudInit PROVE FraudInv
  OBVIOUS
<1>1. /\ redis.card = 0 /\ redis.small = 0 /\ redis.banned = FALSE
      /\ redis \in RedisKeys
  <2>1. redis \in [card : {0}, cardTtl : {FALSE}, small : {0}, smallTtl : {FALSE},
                   place : {Nowhere}, average : Averages, banned : {FALSE}]
    BY DEF FraudInit
  <2>2. redis.card = 0 /\ redis.small = 0 /\ redis.banned = FALSE
    BY <2>1
  <2>3. Averages \subseteq Nat
    BY FraudAssumption
  <2>4. \E a \in Nat : redis = [card |-> 0, cardTtl |-> FALSE, small |-> 0, smallTtl |-> FALSE,
                               place |-> Nowhere, average |-> a, banned |-> FALSE]
    BY <2>1, <2>3
  <2>5. PICK a \in Nat : redis = [card |-> 0, cardTtl |-> FALSE, small |-> 0, smallTtl |-> FALSE,
                                 place |-> Nowhere, average |-> a, banned |-> FALSE]
    BY <2>4
  <2>6. redis \in RedisKeys
    BY <2>5 DEF RedisKeys
  <2> QED BY <2>2, <2>6
<1>2. FraudTypeOK
  <2>1. /\ client \in {"none", "set"} /\ pinger = NoCommand /\ unknown = {}
        /\ pending = [p \in Payment |-> {}] /\ found = [p \in Payment |-> {}]
        /\ verdict = [p \in Payment |-> "none"] /\ answer = [p \in Payment |-> "none"]
        /\ counted = {} /\ excused = {} /\ refused = FALSE /\ barred = {} /\ faults = 0
    BY DEF FraudInit
  <2>2. faults \in 0 .. MaxFaults
    BY <2>1, FraudAssumption
  <2>3. /\ pending \in [Payment -> SUBSET Commands]
        /\ found \in [Payment -> SUBSET {"card", "small", "location", "unusual", "extreme"}]
        /\ verdict \in [Payment -> {"none", "approved", "rejected"}]
        /\ answer \in [Payment -> {"none", "approved", "rejected", "error"}]
    BY <2>1
  <2> QED BY <1>1, <2>1, <2>2, <2>3 DEF FraudTypeOK, RedisKeys
<1>3. /\ \A p \in Payment : Phase(p)
      /\ AnswerInv /\ BanInv /\ BarredInv
  BY DEF FraudInit, Phase, AnswerInv, BanInv, BarredInv
<1>4. PingerIn
  BY DEF FraudInit, PingerIn, NoCommand
<1>5. WindowInv
  <2>1. {p \in counted : ~Spoiled(p)} = {} /\ counted = {}
    BY DEF FraudInit
  <2> QED BY <1>1, <2>1, FS_EmptySet, FraudAssumption DEF WindowInv
<1>6. CountersExpire
  <2>1. Lost = {} /\ faults = 0
    BY <1>1 DEF Lost, FraudInit
  <2>2. Cardinality(Lost) <= faults
    BY <2>1, FS_EmptySet
  <2> QED BY <2>2 DEF CountersExpire, Lost
<1> QED BY <1>2, <1>3, <1>4, <1>5, <1>6 DEF FraudInv

\* The invariant, in every state of any number of concurrent requests.
THEOREM FraudInvariant == FraudSpec => []FraudInv
<1>1. FraudInv /\ [FraudNext]_fraudVars => FraudInv'
  BY FraudTypeStays, PhasesStay, PingerStaysIn, AnswersStay, BansStay, BarredStay,
     WindowStays, ExpiriesStay
     DEF FraudInv
<1> QED BY <1>1, FraudInitial, PTL DEF FraudSpec

\* CountersExpire: check_multiple_transactions_same_card and the small amounts
\* leave no counter without an expiry unless Redis failed.
THEOREM CountersAlwaysExpire == FraudSpec => []CountersExpire
<1>1. FraudInv => CountersExpire
  BY DEF FraudInv
<1> QED BY <1>1, FraudInvariant, PTL

\* ApprovalsBounded: whatever the order in which concurrent requests count and
\* decide, a card's window holds at most CardLimit approved payments.
THEOREM ApprovalsAreBounded == FraudSpec => []ApprovalsBounded
<1>1. ASSUME FraudInv PROVE ApprovalsBounded
  <2> DEFINE approved == {p \in counted : answer[p] = "approved"}
             clean == {p \in counted : ~Spoiled(p)}
  <2>1. approved \subseteq clean
    BY DEF Spoiled
  <2>2. IsFiniteSet(clean) /\ Cardinality(clean) <= CardLimit
    BY <1>1, FS_Subset DEF FraudInv, WindowInv
  <2>3. /\ Cardinality(approved) <= Cardinality(clean)
        /\ Cardinality(approved) \in Nat /\ Cardinality(clean) \in Nat
    BY <2>1, <2>2, FS_Subset, FS_CardinalityType
  <2>4. Cardinality(approved) <= CardLimit
    BY <2>2, <2>3, FraudAssumption
  <2> QED BY <2>4 DEF ApprovalsBounded
<1> QED BY <1>1, FraudInvariant, PTL

\* NoApprovalAfterRejection: add_to_blacklist is awaited before the answer, so
\* who comes after it finds the ban.
THEOREM NoneApprovedAfterRejection == FraudSpec => []NoApprovalAfterRejection
<1>1. ASSUME FraudInv PROVE NoApprovalAfterRejection
  <2> SUFFICES ASSUME NEW p \in barred, <<p, "blacklist">> \notin excused, answer[p] = "approved"
               PROVE  FALSE
    BY DEF NoApprovalAfterRejection
  <2>1. p \in Payment /\ Phase(p) /\ BarredInv /\ AnswerInv
    BY <1>1 DEF FraudInv, FraudTypeOK
  <2>2. "blacklist" \notin pending[p]
    BY <2>1 DEF Phase
  <2>3. verdict[p] = "rejected"
    BY <2>1, <2>2 DEF BarredInv
  <2> QED BY <2>1, <2>3 DEF AnswerInv
<1> QED BY <1>1, FraudInvariant, PTL
=============================================================================
