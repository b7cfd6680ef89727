--------------------- MODULE NotificationService_proofs ---------------------
(***************************************************************************)
(* Proofs about NotificationService for any events, users, preferences,    *)
(* replicas, slots and limits.                                             *)
(***************************************************************************)
EXTENDS NotificationService, FiniteSetTheorems, TLAPS

\* A channel of an event that has been answered for.
Settled(e, c) == \E status \in {"sent", "failed"} : <<e, c, status>> \in recorded

\* An idle slot has no delivery; a handler is at a channel of an event that can
\* be handled, or past the last one, and has settled those it has passed.
SlotInv(s) ==
    /\ pc[s] = "idle" => msg[s] = None /\ pos[s] = 1 /\ ~held[s]
    /\ pc[s] # "idle" =>
          /\ msg[s] \in Msg
          /\ msg[s].event \notin Broken
          /\ pos[s] <= Len(Wants[msg[s].event]) + 1
          /\ \A i \in 1 .. pos[s] - 1 : Settled(msg[s].event, Wants[msg[s].event][i])
    /\ pc[s] = "send" => pos[s] <= Len(Wants[msg[s].event])

HandlersInv == \A s \in Slot : SlotInv(s)

Inv == TypeOK /\ HandlersInv /\ AckedIsRecorded

\* The handler in s is at a channel.
At(s) == pc[s] # "idle" /\ pos[s] <= Len(Wants[msg[s].event])

-----------------------------------------------------------------------------
\* What a handler reads is of its type.
LEMMA HandlerReads ==
    ASSUME TypeOK, NEW s \in Slot, SlotInv(s), pc[s] # "idle"
    PROVE  /\ msg[s] \in Msg
           /\ msg[s].event \in Event
           /\ Wants[msg[s].event] \in Seq(Channel)
           /\ pos[s] \in Nat \ {0}
           /\ User[msg[s].event] \in Users
           /\ Home[s] \in Replica
           /\ At(s) => Here(s) \in Channel
<1>1. msg[s] \in Msg /\ msg[s].event \in Event
  BY DEF SlotInv, Msg
<1>2. Wants[msg[s].event] \in Seq(Channel) /\ Home[s] \in Replica
  BY <1>1, NotificationAssumption
<1>3. pos[s] \in Nat \ {0}
  BY DEF TypeOK
<1>4. At(s) => Here(s) \in Channel
  BY <1>2, <1>3 DEF At, Here
<1> QED BY <1>1, <1>2, <1>3, <1>4 DEF Users

\* Records are only added, so what is settled stays settled.
LEMMA SettledStays ==
    ASSUME recorded \subseteq recorded', NEW e, NEW c, Settled(e, c)
    PROVE  Settled(e, c)'
BY DEF Settled

\* A handler whose variables do not change keeps its invariant.
LEMMA SlotUndisturbed ==
    ASSUME NEW s \in Slot, SlotInv(s), recorded \subseteq recorded',
           pc'[s] = pc[s], msg'[s] = msg[s], pos'[s] = pos[s], held'[s] = held[s]
    PROVE  SlotInv(s)'
BY SettledStays DEF SlotInv

\* A handler that records its channel and goes on to the next.
LEMMA AdvanceKeeps ==
    ASSUME TypeOK, HandlersInv, NEW s \in Slot, At(s),
           NEW status \in {"sent", "failed"}, Record(s, status), Advance(s),
           UNCHANGED <<msg, held>>
    PROVE  /\ HandlersInv'
           /\ recorded \subseteq recorded'
           /\ recorded' \subseteq Event \X Channel \X {"sent", "failed"}
           /\ pc' \in [Slot -> {"idle", "next", "send"}]
           /\ pos' \in [Slot -> Nat \ {0}]
           /\ attempt' \in [Slot -> 1 .. MaxAttempts]
<1>1. SlotInv(s) /\ pc[s] # "idle"
  BY DEF HandlersInv, At
<1>2. msg[s].event \in Event /\ Here(s) \in Channel /\ pos[s] \in Nat \ {0}
      /\ msg[s] \in Msg /\ Wants[msg[s].event] \in Seq(Channel)
  BY <1>1, HandlerReads
<1>3. recorded \subseteq recorded'
      /\ recorded' \subseteq Event \X Channel \X {"sent", "failed"}
  BY <1>2 DEF Record, TypeOK
<1>4. /\ pc' \in [Slot -> {"idle", "next", "send"}]
      /\ pos' \in [Slot -> Nat \ {0}]
      /\ attempt' \in [Slot -> 1 .. MaxAttempts]
  BY <1>2, NotificationAssumption DEF Advance, TypeOK
<1>5. SlotInv(s)'
  <2>1. pc'[s] = "next" /\ pos'[s] = pos[s] + 1
    BY DEF Advance, TypeOK
  <2>2. \A i \in Nat : i = pos[s] => Settled(msg[s].event, Wants[msg[s].event][i])'
    BY DEF Record, Settled, Here
  <2>3. \A i \in 1 .. pos[s] - 1 : Settled(msg[s].event, Wants[msg[s].event][i])'
    BY <1>1, <1>3, SettledStays DEF SlotInv
  <2>4. \A i \in 1 .. pos'[s] - 1 : Settled(msg[s].event, Wants[msg[s].event][i])'
    BY <1>2, <2>1, <2>2, <2>3
  <2>5. pos'[s] <= Len(Wants[msg[s].event]) + 1
    BY <1>2, <2>1 DEF At
  <2> QED BY <1>1, <2>1, <2>4, <2>5 DEF SlotInv
<1>6. ASSUME NEW t \in Slot, t # s PROVE SlotInv(t)'
  <2>1. pc'[t] = pc[t] /\ pos'[t] = pos[t] /\ msg'[t] = msg[t] /\ held'[t] = held[t]
    BY <1>6 DEF Advance, TypeOK
  <2> QED BY <1>3, <2>1, SlotUndisturbed DEF HandlersInv
<1> QED BY <1>3, <1>4, <1>5, <1>6 DEF HandlersInv

\* More records leave the acknowledged events recorded.
LEMMA AckedStay ==
    ASSUME AckedIsRecorded, recorded \subseteq recorded', acked' = acked
    PROVE  AckedIsRecorded'
BY DEF AckedIsRecorded

\* A counted call keeps the counter's type.
LEMMA TryKeeps ==
    ASSUME TypeOK, NEW s \in Slot, SlotInv(s), At(s), Try(s)
    PROVE  tries' \in [Event -> [Channel -> Nat]]
<1>1. msg[s].event \in Event /\ Here(s) \in Channel
  BY HandlerReads DEF At
<1>2. tries \in [Event -> [Channel -> Nat]]
  BY DEF TypeOK
<1> QED BY <1>1, <1>2 DEF Try

\* A counted send stays within the limit it was checked against.
LEMMA CountKeeps ==
    ASSUME TypeOK, NEW s \in Slot, SlotInv(s), At(s), Allowed(s),
           used' = [used EXCEPT ![Home[s]][User[msg[s].event]][Here(s)] = @ + 1]
    PROVE  /\ used' \in [Replica -> [Users -> [Channel -> Nat]]]
           /\ \A r \in Replica, u \in Users, c \in Channel : used'[r][u][c] <= Most(c)
<1>1. Home[s] \in Replica /\ User[msg[s].event] \in Users /\ Here(s) \in Channel
  BY HandlerReads DEF At
<1>2. PICK r0 \in Replica, u0 \in Users, c0 \in Channel :
          r0 = Home[s] /\ u0 = User[msg[s].event] /\ c0 = Here(s)
  BY <1>1
<1>3. /\ used \in [Replica -> [Users -> [Channel -> Nat]]]
      /\ \A r \in Replica, u \in Users, c \in Channel : used[r][u][c] <= Most(c)
  BY DEF TypeOK
<1>4. /\ used[r0][u0][c0] \in Nat
      /\ used[r0][u0][c0] = 0 \/ used[r0][u0][c0] < Limit[c0]
      /\ Limit[c0] \in Nat
  BY <1>2, <1>3, NotificationAssumption DEF Allowed
<1>5. used' = [used EXCEPT ![r0][u0][c0] = used[r0][u0][c0] + 1]
  BY <1>2
<1>6. PICK n \in Nat : n = used[r0][u0][c0] + 1
  BY <1>4
<1>7. used' = [used EXCEPT ![r0][u0][c0] = n] /\ n <= Most(c0)
  <2>1. n <= Most(c0)
    BY <1>4, <1>6 DEF Most
  <2> QED BY <1>5, <1>6, <2>1
<1>8. used' \in [Replica -> [Users -> [Channel -> Nat]]]
  <2>1. used[r0] \in [Users -> [Channel -> Nat]]
    BY <1>3
  <2>2. PICK h : h = [used[r0] EXCEPT ![u0][c0] = n]
    OBVIOUS
  <2>3. h \in [Users -> [Channel -> Nat]]
    BY <2>1, <2>2
  <2>4. used' = [used EXCEPT ![r0] = h]
    BY <1>7, <2>2
  <2> QED BY <1>3, <2>3, <2>4
<1>9. ASSUME NEW r \in Replica, NEW u \in Users, NEW c \in Channel
      PROVE  used'[r][u][c] <= Most(c)
  <2>1. PICK h : h = [used[r0] EXCEPT ![u0][c0] = n]
    OBVIOUS
  <2>2. used[r0] \in [Users -> [Channel -> Nat]] /\ used' = [used EXCEPT ![r0] = h]
    BY <1>3, <1>7, <2>1
  <2>3. CASE r # r0
    BY <1>3, <2>2, <2>3
  <2>4. CASE r = r0
    <3>1. used'[r] = h
      BY <1>3, <2>2, <2>4
    <3>2. h[u][c] <= Most(c)
      <4>1. h[u][c] = IF u = u0 /\ c = c0 THEN n ELSE used[r0][u][c]
        BY <2>1, <2>2
      <4> QED BY <1>3, <1>7, <4>1
    <3> QED BY <3>1, <3>2
  <2> QED BY <2>3, <2>4
<1> QED BY <1>8, <1>9

-----------------------------------------------------------------------------
(* One lemma per action *)

LEMMA Initially == Init => Inv
<1> SUFFICES ASSUME Init PROVE Inv
  OBVIOUS
<1>1. TypeOK
  <2>1. used \in [Replica -> [Users -> [Channel -> Nat]]]
        /\ \A r \in Replica, u \in Users, c \in Channel : used[r][u][c] <= Most(c)
    BY NotificationAssumption DEF Init, Most
  <2>2. ready \in [Msg -> Nat]
    BY DEF Init
  <2> QED BY <2>1, <2>2, NotificationAssumption DEF Init, TypeOK
<1>2. HandlersInv
  BY DEF Init, HandlersInv, SlotInv
<1>3. AckedIsRecorded
  BY DEF Init, AckedIsRecorded
<1> QED BY <1>1, <1>2, <1>3 DEF Inv

LEMMA DeliverKeeps ==
    ASSUME Inv, NEW s \in Slot, NEW m \in Msg, Deliver(s, m)
    PROVE  Inv'
<1>1. TypeOK'
  <2>1. ready' \in [Msg -> Nat]
    BY DEF Inv, TypeOK, Deliver, Consumable
  <2> QED BY <2>1 DEF Inv, TypeOK, Deliver, memory
<1>2. m.event \in Event /\ m.event \notin Broken /\ Wants[m.event] \in Seq(Channel)
  BY NotificationAssumption DEF Msg, Deliver
<1>3. SlotInv(s)'
  <2>1. pc'[s] = "next" /\ msg'[s] = m /\ pos'[s] = 1
    BY DEF Inv, TypeOK, HandlersInv, SlotInv, Deliver, Consumable
  <2>2. 1 <= Len(Wants[m.event]) + 1
    BY <1>2
  <2> QED BY <1>2, <2>1, <2>2 DEF SlotInv
<1>4. ASSUME NEW t \in Slot, t # s PROVE SlotInv(t)'
  BY <1>4, SlotUndisturbed DEF Inv, TypeOK, HandlersInv, Deliver
<1>5. AckedIsRecorded'
  BY AckedStay DEF Inv, Deliver
<1> QED BY <1>1, <1>3, <1>4, <1>5 DEF Inv, HandlersInv

\* What is published again is a message of the same event.
LEMMA RepublishedType ==
    ASSUME NEW m \in Msg
    PROVE  Republished(m) \in Msg /\ Republished(m).event = m.event
<1>1. m \in [event : Event, retry : 0 .. MaxAttempts] /\ MaxAttempts \in Nat
  BY NotificationAssumption DEF Msg
<1>2. PICK n \in 0 .. MaxAttempts : Republished(m) = [m EXCEPT !.retry = n]
  BY <1>1 DEF Republished
<1> QED BY <1>1, <1>2 DEF Msg

LEMMA DeliverBrokenKeeps ==
    ASSUME Inv, NEW s \in Slot, NEW m \in Msg, DeliverBroken(s, m)
    PROVE  Inv'
<1>1. ready' \in [Msg -> Nat]
  BY RepublishedType DEF Inv, TypeOK, DeliverBroken, Consumable
<1>2. TypeOK'
  BY <1>1 DEF Inv, TypeOK, DeliverBroken, handlers, memory
<1>3. HandlersInv'
  BY SlotUndisturbed DEF Inv, HandlersInv, DeliverBroken, handlers
<1>4. AckedIsRecorded'
  BY AckedStay DEF Inv, DeliverBroken
<1> QED BY <1>2, <1>3, <1>4 DEF Inv

LEMMA RateLimitedKeeps ==
    ASSUME Inv, NEW s \in Slot, RateLimited(s)
    PROVE  Inv'
<1>1. At(s)
  BY DEF RateLimited, AtChannel, At
<1>2. /\ HandlersInv'
      /\ recorded \subseteq recorded'
      /\ recorded' \subseteq Event \X Channel \X {"sent", "failed"}
      /\ pc' \in [Slot -> {"idle", "next", "send"}]
      /\ pos' \in [Slot -> Nat \ {0}]
      /\ attempt' \in [Slot -> 1 .. MaxAttempts]
  BY <1>1, AdvanceKeeps DEF Inv, RateLimited
<1>3. TypeOK'
  BY <1>2 DEF Inv, TypeOK, RateLimited, memory
<1>4. AckedIsRecorded'
  BY <1>2, AckedStay DEF Inv, RateLimited
<1> QED BY <1>2, <1>3, <1>4 DEF Inv

\* A breaker that resets keeps its type.
LEMMA ResetKeeps ==
    ASSUME TypeOK, NEW r \in Replica, NEW u \in Users, Reset(r, u)
    PROVE  failures' \in [Replica -> [Users -> 0 .. Threshold]]
           /\ cooled' \subseteq Replica \X Users
<1>1. failures \in [Replica -> [Users -> 0 .. Threshold]] /\ cooled \subseteq Replica \X Users
  BY DEF TypeOK
<1>2. 0 \in 0 .. Threshold
  BY NotificationAssumption
<1>3. [failures EXCEPT ![r][u] = 0] \in [Replica -> [Users -> 0 .. Threshold]]
  BY <1>1, <1>2
<1> QED BY <1>1, <1>3 DEF Reset

LEMMA StartSendKeeps ==
    ASSUME Inv, NEW s \in Slot, StartSend(s)
    PROVE  Inv'
<1> DEFINE r == Home[s]
           u == User[msg[s].event]
<1>1. At(s) /\ SlotInv(s)
  BY DEF StartSend, AtChannel, At, Inv, HandlersInv
<1>2. r \in Replica /\ u \in Users
  BY <1>1, HandlerReads DEF At, Inv
<1>3. /\ used' \in [Replica -> [Users -> [Channel -> Nat]]]
      /\ \A q \in Replica, v \in Users, c \in Channel : used'[q][v][c] <= Most(c)
  BY <1>1, CountKeeps DEF Inv, StartSend
<1>4. UNCHANGED <<ready, msg, held, link, acked, faults>>
  BY DEF StartSend
<1>5. ASSUME NEW status \in {"sent", "failed"}, Record(s, status), Advance(s),
             UNCHANGED <<failures, cooled>>, Try(s) \/ UNCHANGED tries
      PROVE  Inv'
  <2>1. /\ HandlersInv'
        /\ recorded \subseteq recorded'
        /\ recorded' \subseteq Event \X Channel \X {"sent", "failed"}
        /\ pc' \in [Slot -> {"idle", "next", "send"}]
        /\ pos' \in [Slot -> Nat \ {0}]
        /\ attempt' \in [Slot -> 1 .. MaxAttempts]
    BY <1>1, <1>4, <1>5, AdvanceKeeps DEF Inv
  <2>2. tries' \in [Event -> [Channel -> Nat]]
    BY <1>1, <1>5, TryKeeps DEF Inv, TypeOK
  <2>3. TypeOK'
    BY <1>3, <1>4, <1>5, <2>1, <2>2 DEF Inv, TypeOK
  <2>4. AckedIsRecorded'
    BY <1>4, <2>1, AckedStay DEF Inv
  <2> QED BY <2>1, <2>3, <2>4 DEF Inv
<1>6. ASSUME pc' = [pc EXCEPT ![s] = "send"], UNCHANGED <<pos, attempt, recorded, tries>>,
             Reset(r, u) \/ UNCHANGED <<failures, cooled>>
      PROVE  Inv'
  <2>1. failures' \in [Replica -> [Users -> 0 .. Threshold]]
        /\ cooled' \subseteq Replica \X Users
    BY <1>2, <1>6, ResetKeeps DEF Inv, TypeOK
  <2>2. TypeOK'
    BY <1>3, <1>4, <1>6, <2>1 DEF Inv, TypeOK
  <2>3. SlotInv(s)'
    BY <1>1, <1>4, <1>6 DEF Inv, TypeOK, SlotInv, At, Settled
  <2>4. ASSUME NEW t \in Slot, t # s PROVE SlotInv(t)'
    BY <1>4, <1>6, <2>4, SlotUndisturbed DEF Inv, TypeOK, HandlersInv
  <2>5. AckedIsRecorded'
    BY <1>4, <1>6, AckedStay DEF Inv
  <2> QED BY <2>2, <2>3, <2>4, <2>5 DEF Inv, HandlersInv
<1>7. CASE Here(s) = "sms" /\ Record(s, "sent") /\ Try(s) /\ Advance(s)
           /\ UNCHANGED <<failures, cooled>>
  BY <1>5, <1>7
<1>8. CASE Record(s, "failed") /\ Advance(s) /\ UNCHANGED <<failures, cooled, tries>>
  BY <1>5, <1>8
<1>9. CASE pc' = [pc EXCEPT ![s] = "send"] /\ UNCHANGED <<pos, attempt, recorded, tries>>
           /\ (IF Here(s) = "webhook" THEN Reset(r, u) ELSE UNCHANGED <<failures, cooled>>)
  BY <1>6, <1>9
<1> QED BY <1>7, <1>8, <1>9 DEF StartSend, SendSMS

LEMMA SendSucceedsKeeps ==
    ASSUME Inv, NEW s \in Slot, SendSucceeds(s)
    PROVE  Inv'
<1> DEFINE r == Home[s]
           u == User[msg[s].event]
<1>1. At(s) /\ SlotInv(s)
  BY DEF SendSucceeds, At, Inv, HandlersInv, SlotInv
<1>2. r \in Replica /\ u \in Users
  BY <1>1, HandlerReads DEF At, Inv
<1>3. /\ HandlersInv'
      /\ recorded \subseteq recorded'
      /\ recorded' \subseteq Event \X Channel \X {"sent", "failed"}
      /\ pc' \in [Slot -> {"idle", "next", "send"}]
      /\ pos' \in [Slot -> Nat \ {0}]
      /\ attempt' \in [Slot -> 1 .. MaxAttempts]
  BY <1>1, AdvanceKeeps DEF Inv, SendSucceeds
<1>4. tries' \in [Event -> [Channel -> Nat]]
  BY <1>1, TryKeeps DEF Inv, SendSucceeds
<1>5. failures' \in [Replica -> [Users -> 0 .. Threshold]]
      /\ cooled' \subseteq Replica \X Users
  <2>1. failures \in [Replica -> [Users -> 0 .. Threshold]] /\ cooled \subseteq Replica \X Users
        /\ 0 \in 0 .. Threshold
    BY NotificationAssumption DEF Inv, TypeOK
  <2>2. [failures EXCEPT ![r][u] = 0] \in [Replica -> [Users -> 0 .. Threshold]]
    BY <1>2, <2>1
  <2> QED BY <2>1, <2>2 DEF SendSucceeds
<1>6. TypeOK'
  BY <1>3, <1>4, <1>5 DEF Inv, TypeOK, SendSucceeds
<1>7. AckedIsRecorded'
  BY <1>3, AckedStay DEF Inv, SendSucceeds
<1> QED BY <1>3, <1>6, <1>7 DEF Inv

\* A failure counted at a breaker keeps its type.
LEMMA RecordFailureKeeps ==
    ASSUME TypeOK, NEW r \in Replica, NEW u \in Users, RecordFailure(r, u)
    PROVE  failures' \in [Replica -> [Users -> 0 .. Threshold]]
           /\ cooled' \subseteq Replica \X Users
<1>1. failures \in [Replica -> [Users -> 0 .. Threshold]] /\ cooled \subseteq Replica \X Users
  BY DEF TypeOK
<1>2. PICK n \in 0 .. Threshold :
          n = IF failures[r][u] < Threshold THEN failures[r][u] + 1 ELSE failures[r][u]
  BY <1>1, NotificationAssumption
<1>3. failures' = [failures EXCEPT ![r][u] = n]
  BY <1>2 DEF RecordFailure
<1> QED BY <1>1, <1>2, <1>3 DEF RecordFailure

LEMMA SendFailsKeeps ==
    ASSUME Inv, NEW s \in Slot, SendFails(s)
    PROVE  Inv'
<1>1. At(s) /\ SlotInv(s)
  BY DEF SendFails, At, Inv, HandlersInv, SlotInv
<1>2. Home[s] \in Replica /\ User[msg[s].event] \in Users
  BY <1>1, HandlerReads DEF At, Inv
<1>3. tries' \in [Event -> [Channel -> Nat]]
  BY <1>1, TryKeeps DEF Inv, SendFails
<1>4. CASE Retries(attempt[s])
  <2>1. attempt' \in [Slot -> 1 .. MaxAttempts]
    <3>1. attempt \in [Slot -> 1 .. MaxAttempts] /\ MaxAttempts \in Nat
      BY NotificationAssumption DEF Inv, TypeOK
    <3>2. attempt[s] + 1 \in 1 .. MaxAttempts
      BY <1>4, <3>1 DEF Retries
    <3>3. attempt' = [attempt EXCEPT ![s] = attempt[s] + 1]
      BY <1>4 DEF SendFails
    <3> QED BY <3>1, <3>2, <3>3
  <2>2. TypeOK'
    BY <1>3, <1>4, <2>1 DEF Inv, TypeOK, SendFails
  <2>3. HandlersInv'
    BY <1>4, SlotUndisturbed DEF Inv, HandlersInv, SendFails
  <2>4. AckedIsRecorded'
    BY <1>4, AckedStay DEF Inv, SendFails
  <2> QED BY <2>2, <2>3, <2>4 DEF Inv
<1>5. CASE ~Retries(attempt[s])
  <2>1. /\ HandlersInv'
        /\ recorded \subseteq recorded'
        /\ recorded' \subseteq Event \X Channel \X {"sent", "failed"}
        /\ pc' \in [Slot -> {"idle", "next", "send"}]
        /\ pos' \in [Slot -> Nat \ {0}]
        /\ attempt' \in [Slot -> 1 .. MaxAttempts]
    BY <1>1, <1>5, AdvanceKeeps DEF Inv, SendFails
  <2>2. failures' \in [Replica -> [Users -> 0 .. Threshold]]
        /\ cooled' \subseteq Replica \X Users
    BY <1>2, <1>5, RecordFailureKeeps DEF Inv, TypeOK, SendFails
  <2>3. TypeOK'
    BY <1>3, <1>5, <2>1, <2>2 DEF Inv, TypeOK, SendFails
  <2>4. AckedIsRecorded'
    BY <1>5, <2>1, AckedStay DEF Inv, SendFails
  <2> QED BY <2>1, <2>3, <2>4 DEF Inv
<1> QED BY <1>4, <1>5

\* The end of a handler frees its slot and leaves the others alone.
LEMMA AckKeeps ==
    ASSUME Inv, NEW s \in Slot, Ack(s)
    PROVE  Inv'
<1>1. SlotInv(s) /\ pc[s] = "next"
  BY DEF Ack, Inv, HandlersInv
<1>2. /\ msg[s].event \in Event \ Broken /\ pos[s] \in Nat \ {0}
      /\ Wants[msg[s].event] \in Seq(Channel)
  BY <1>1, HandlerReads DEF Inv, SlotInv
<1>3. TypeOK'
  <2>1. acked' \subseteq Event \ Broken
    BY <1>2 DEF Ack, Inv, TypeOK
  <2>2. /\ pc' \in [Slot -> {"idle", "next", "send"}]
        /\ msg' \in [Slot -> Msg \cup {None}]
        /\ pos' \in [Slot -> Nat \ {0}]
        /\ held' \in [Slot -> BOOLEAN]
    BY DEF Ack, Release, Inv, TypeOK
  <2> QED BY <2>1, <2>2 DEF Inv, TypeOK, Ack, memory
<1>4. SlotInv(s)'
  BY DEF Ack, Release, Inv, TypeOK, SlotInv
<1>5. ASSUME NEW t \in Slot, t # s PROVE SlotInv(t)'
  BY <1>5, SlotUndisturbed DEF Ack, Release, Inv, TypeOK, HandlersInv
<1>6. AckedIsRecorded'
  <2>1. recorded' = recorded /\ acked' \subseteq acked \cup {msg[s].event}
    BY DEF Ack
  <2>2. \A i \in 1 .. Len(Wants[msg[s].event]) : Settled(msg[s].event, Wants[msg[s].event][i])
    BY <1>1, <1>2 DEF SlotInv, Ack
  <2>3. \A e \in acked' : \A i \in 1 .. Len(Wants[e]) : Settled(e, Wants[e][i])
    BY <2>1, <2>2 DEF Inv, AckedIsRecorded, Settled
  <2> QED BY <2>1, <2>3 DEF AckedIsRecorded, Settled
<1> QED BY <1>3, <1>4, <1>5, <1>6 DEF Inv, HandlersInv

LEMMA WindowElapsesKeeps ==
    ASSUME Inv, NEW r \in Replica, NEW u \in Users, NEW c \in Channel, WindowElapses(r, u, c)
    PROVE  Inv'
<1>1. used \in [Replica -> [Users -> [Channel -> Nat]]]
      /\ \A q \in Replica, v \in Users, d \in Channel : used[q][v][d] <= Most(d)
      /\ \A e \in Channel : 0 <= Most(e)
  BY NotificationAssumption DEF Inv, TypeOK, Most
<1>2. PICK h : h = [used[r] EXCEPT ![u][c] = 0]
  OBVIOUS
<1>3. h \in [Users -> [Channel -> Nat]]
  BY <1>1, <1>2
<1>4. used' = [used EXCEPT ![r] = h]
  BY <1>2 DEF WindowElapses
<1>5. used' \in [Replica -> [Users -> [Channel -> Nat]]]
  BY <1>1, <1>3, <1>4
<1>6. ASSUME NEW q \in Replica, NEW v \in Users, NEW d \in Channel
      PROVE  used'[q][v][d] <= Most(d)
  <2>1. used'[q][v][d] = 0 \/ used'[q][v][d] = used[q][v][d]
    BY <1>1, <1>2, <1>4
  <2> QED BY <1>1, <2>1
<1>7. TypeOK'
  BY <1>5, <1>6 DEF Inv, TypeOK, WindowElapses, handlers
<1>8. HandlersInv'
  BY SlotUndisturbed DEF Inv, HandlersInv, WindowElapses, handlers
<1>9. AckedIsRecorded'
  BY AckedStay DEF Inv, WindowElapses
<1> QED BY <1>7, <1>8, <1>9 DEF Inv

LEMMA BreakerCoolsKeeps ==
    ASSUME Inv, NEW r \in Replica, NEW u \in Users, BreakerCools(r, u)
    PROVE  Inv'
<1>1. TypeOK'
  BY DEF Inv, TypeOK, BreakerCools, handlers
<1>2. HandlersInv'
  BY SlotUndisturbed DEF Inv, HandlersInv, BreakerCools, handlers
<1>3. AckedIsRecorded'
  BY AckedStay DEF Inv, BreakerCools
<1> QED BY <1>1, <1>2, <1>3 DEF Inv

\* What the broker takes back from a replica is added to the queue.
LEMMA RequeuedFacts ==
    ASSUME TypeOK, NEW r \in Replica
    PROVE  /\ Requeued(r) \in [Msg -> Nat]
           /\ \A m \in Msg : Requeued(r)[m] >= ready[m]
           /\ \A s \in Slot, m \in Msg :
                  Home[s] = r /\ held[s] /\ msg[s] = m => Requeued(r)[m] > 0
<1>1. \A m \in Msg : IsFiniteSet(Unacked(r, m))
  BY NotificationAssumption, FS_Subset DEF Unacked
<1>2. \A m \in Msg : Cardinality(Unacked(r, m)) \in Nat
  BY <1>1, FS_CardinalityType
<1>3. ready \in [Msg -> Nat]
  BY DEF TypeOK
<1>4. Requeued(r) \in [Msg -> Nat] /\ \A m \in Msg : Requeued(r)[m] >= ready[m]
  BY <1>2, <1>3 DEF Requeued
<1>5. ASSUME NEW s \in Slot, NEW m \in Msg, Home[s] = r, held[s], msg[s] = m
      PROVE  Requeued(r)[m] > 0
  <2>1. s \in Unacked(r, m)
    BY <1>5 DEF Unacked
  <2>2. Cardinality(Unacked(r, m)) # 0
    BY <1>1, <2>1, FS_EmptySet
  <2> QED BY <1>2, <1>3, <2>2 DEF Requeued
<1> QED BY <1>4, <1>5

\* Slots of one replica set to a value of the type.
LEMMA OnReplicaType ==
    ASSUME NEW S, NEW f \in [Slot -> S], NEW r \in Replica, NEW v \in S
    PROVE  OnReplica(r, f, v) \in [Slot -> S]
BY DEF OnReplica

LEMMA CrashKeeps ==
    ASSUME Inv, NEW r \in Replica, Crash(r)
    PROVE  Inv'
<1>1. ready' \in [Msg -> Nat]
  BY RequeuedFacts DEF Inv, Crash
<1>2. /\ pc' \in [Slot -> {"idle", "next", "send"}]
      /\ msg' \in [Slot -> Msg \cup {None}]
      /\ pos' \in [Slot -> Nat \ {0}]
      /\ held' \in [Slot -> BOOLEAN]
  <2>1. pc' \in [Slot -> {"idle", "next", "send"}]
    BY OnReplicaType DEF Crash, Inv, TypeOK
  <2>2. msg' \in [Slot -> Msg \cup {None}]
    BY OnReplicaType DEF Crash, Inv, TypeOK
  <2>3. pos' \in [Slot -> Nat \ {0}]
    BY DEF Crash, OnReplica, Inv, TypeOK
  <2>4. held' \in [Slot -> BOOLEAN]
    BY OnReplicaType DEF Crash, Inv, TypeOK
  <2> QED BY <2>1, <2>2, <2>3, <2>4
<1>3. attempt' \in [Slot -> 1 .. MaxAttempts]
  <2>1. 1 \in 1 .. MaxAttempts
    BY NotificationAssumption
  <2> QED BY <2>1, OnReplicaType DEF Crash, Inv, TypeOK
<1>4. used' \in [Replica -> [Users -> [Channel -> Nat]]]
      /\ \A q \in Replica, u \in Users, c \in Channel : used'[q][u][c] <= Most(c)
  <2>1. /\ used \in [Replica -> [Users -> [Channel -> Nat]]]
        /\ \A q \in Replica, u \in Users, c \in Channel : used[q][u][c] <= Most(c)
        /\ \A d \in Channel : 0 <= Most(d)
    BY NotificationAssumption DEF Inv, TypeOK, Most
  <2>2. used' = [used EXCEPT ![r] = [u \in Users |-> [c \in Channel |-> 0]]]
    BY DEF Crash
  <2> QED BY <2>1, <2>2
<1>5. failures' \in [Replica -> [Users -> 0 .. Threshold]]
      /\ cooled' \subseteq Replica \X Users
  <2>1. 0 \in 0 .. Threshold
    BY NotificationAssumption
  <2> QED BY <2>1 DEF Crash, Inv, TypeOK
<1>6. faults' \in 0 .. MaxFaults
  BY NotificationAssumption DEF Crash, Fault, Inv, TypeOK
<1>7. TypeOK'
  BY <1>1, <1>2, <1>3, <1>4, <1>5, <1>6 DEF Crash, Inv, TypeOK
<1>8. ASSUME NEW s \in Slot PROVE SlotInv(s)'
  <2>1. CASE Home[s] = r
    <3>1. pc'[s] = "idle" /\ msg'[s] = None /\ pos'[s] = 1 /\ held'[s] = FALSE
      BY <2>1 DEF Crash, OnReplica
    <3> QED BY <3>1 DEF SlotInv
  <2>2. CASE Home[s] # r
    BY <2>2, SlotUndisturbed DEF Crash, OnReplica, Inv, HandlersInv
  <2> QED BY <2>1, <2>2
<1>9. AckedIsRecorded'
  BY AckedStay DEF Inv, Crash
<1> QED BY <1>7, <1>8, <1>9 DEF Inv, HandlersInv

LEMMA RestartKeeps ==
    ASSUME Inv, NEW r \in Replica, Restart(r)
    PROVE  Inv'
<1>1. TypeOK'
  BY DEF Inv, TypeOK, Restart, handlers, memory
<1>2. HandlersInv'
  BY SlotUndisturbed DEF Inv, HandlersInv, Restart, handlers
<1>3. AckedIsRecorded'
  BY AckedStay DEF Inv, Restart
<1> QED BY <1>1, <1>2, <1>3 DEF Inv

LEMMA DisconnectKeeps ==
    ASSUME Inv, NEW r \in Replica, Disconnect(r)
    PROVE  Inv'
<1>1. ready' \in [Msg -> Nat]
  BY RequeuedFacts DEF Inv, Disconnect
<1>2. held' \in [Slot -> BOOLEAN]
  BY OnReplicaType DEF Disconnect, Inv, TypeOK
<1>3. faults' \in 0 .. MaxFaults
  BY NotificationAssumption DEF Disconnect, Fault, Inv, TypeOK
<1>4. TypeOK'
  BY <1>1, <1>2, <1>3 DEF Disconnect, Inv, TypeOK, memory
<1>5. ASSUME NEW s \in Slot PROVE SlotInv(s)'
  <2>1. held'[s] => held[s]
    BY DEF Disconnect, OnReplica
  <2> QED BY <2>1 DEF Disconnect, Inv, HandlersInv, SlotInv, Settled
<1>6. AckedIsRecorded'
  BY AckedStay DEF Inv, Disconnect
<1> QED BY <1>4, <1>5, <1>6 DEF Inv, HandlersInv

-----------------------------------------------------------------------------
(* The invariant *)

LEMMA StepKeeps ==
    ASSUME Inv, [Next]_vars
    PROVE  Inv'
<1>1. ASSUME NEW e \in Event, Consume(e) PROVE Inv'
  BY <1>1, DeliverKeeps, DeliverBrokenKeeps DEF Consume
<1>2. ASSUME NEW s \in Slot, HandlerStep(s) PROVE Inv'
  BY <1>2, RateLimitedKeeps, StartSendKeeps, SendSucceedsKeeps, SendFailsKeeps, AckKeeps
     DEF HandlerStep
<1>3. ASSUME NEW r \in Replica, Crash(r) \/ Restart(r) \/ Disconnect(r) PROVE Inv'
  BY <1>3, CrashKeeps, RestartKeeps, DisconnectKeeps
<1>4. ASSUME NEW r \in Replica, NEW u \in Users, BreakerCools(r, u) PROVE Inv'
  BY <1>4, BreakerCoolsKeeps
<1>5. ASSUME NEW r \in Replica, NEW u \in Users, NEW c \in Channel, WindowElapses(r, u, c)
      PROVE  Inv'
  BY <1>5, WindowElapsesKeeps
<1>6. CASE UNCHANGED vars
  <2>1. TypeOK'
    BY <1>6 DEF vars, handlers, memory, Inv, TypeOK
  <2>2. HandlersInv'
    BY <1>6, SlotUndisturbed DEF vars, handlers, Inv, HandlersInv
  <2>3. AckedIsRecorded'
    BY <1>6, AckedStay DEF vars, Inv
  <2> QED BY <2>1, <2>2, <2>3 DEF Inv
<1> QED BY <1>1, <1>2, <1>3, <1>4, <1>5, <1>6 DEF Next

\* Handlers, records and types together are an invariant.
THEOREM Invariance == Spec => []Inv
BY Initially, StepKeeps, PTL DEF Spec

\* All variables keep their types, the rate-limit counters their limits.
THEOREM TypeCorrect == Spec => []TypeOK
BY Invariance, PTL DEF Inv

\* An acknowledged event was sent or recorded as failed on every channel.
THEOREM AcknowledgedAreRecorded == Spec => []AckedIsRecorded
BY Invariance, PTL DEF Inv

-----------------------------------------------------------------------------
(* No event is lost *)

\* Steps that touch neither the queue nor the deliveries lose nothing.
LEMMA NothingMoves ==
    ASSUME NoEventLost, acked \subseteq acked', UNCHANGED <<ready, msg, held>>
    PROVE  NoEventLost'
BY DEF NoEventLost

LEMMA DeliveryLosesNothing ==
    ASSUME Inv, NoEventLost, NEW s \in Slot, NEW m \in Msg, Deliver(s, m)
    PROVE  NoEventLost'
<1>1. /\ ready \in [Msg -> Nat] /\ held \in [Slot -> BOOLEAN] /\ msg \in [Slot -> Msg \cup {None}]
      /\ ~held[s]
  BY DEF Inv, TypeOK, HandlersInv, SlotInv, Deliver, Consumable
<1>2. held'[s] /\ msg'[s] = m
  BY <1>1 DEF Deliver
<1>3. \A t \in Slot : held[t] => held'[t] /\ msg'[t] = msg[t]
  BY <1>1 DEF Deliver
<1>4. \A n \in Msg : n # m => ready'[n] = ready[n]
  BY <1>1 DEF Deliver
<1>5. acked' = acked
  BY DEF Deliver
<1> QED BY <1>2, <1>3, <1>4, <1>5 DEF NoEventLost

LEMMA RepublicationLosesNothing ==
    ASSUME Inv, NoEventLost, NEW s \in Slot, NEW m \in Msg, DeliverBroken(s, m)
    PROVE  NoEventLost'
<1>1. ready \in [Msg -> Nat] /\ Republished(m) \in Msg /\ Republished(m).event = m.event
      /\ ready[m] > 0
  BY RepublishedType DEF Inv, TypeOK, DeliverBroken, Consumable
<1>2. ready'[Republished(m)] > 0
  BY <1>1 DEF DeliverBroken
<1>3. \A n \in Msg : n # m /\ ready[n] > 0 => ready'[n] > 0
  BY <1>1 DEF DeliverBroken
<1>4. UNCHANGED <<msg, held, acked>>
  BY DEF DeliverBroken, handlers
<1> QED BY <1>1, <1>2, <1>3, <1>4 DEF NoEventLost

LEMMA AckLosesNothing ==
    ASSUME Inv, NoEventLost, NEW s \in Slot, Ack(s)
    PROVE  NoEventLost'
<1>1. \A t \in Slot : t # s => held'[t] = held[t] /\ msg'[t] = msg[t]
  BY DEF Ack, Release, Inv, TypeOK
<1>2. ready' = ready /\ acked \subseteq acked' /\ (held[s] => msg[s].event \in acked')
  BY DEF Ack
<1> QED BY <1>1, <1>2 DEF NoEventLost

\* A closed connection returns what was unacknowledged.
LEMMA RequeueLosesNothing ==
    ASSUME Inv, NoEventLost, NEW r \in Replica, ready' = Requeued(r), acked' = acked,
           \A t \in Slot : Home[t] # r => held'[t] = held[t] /\ msg'[t] = msg[t]
    PROVE  NoEventLost'
<1> SUFFICES ASSUME NEW e \in Event \ acked
             PROVE  \/ \E m \in Msg : m.event = e /\ ready'[m] > 0
                    \/ \E s \in Slot : held'[s] /\ msg'[s].event = e
  BY DEF NoEventLost
<1>1. CASE \E m \in Msg : m.event = e /\ ready[m] > 0
  <2>1. PICK m \in Msg : m.event = e /\ ready[m] > 0
    BY <1>1
  <2>2. ready[m] \in Nat /\ ready'[m] \in Nat /\ ready'[m] >= ready[m]
    BY RequeuedFacts DEF Inv, TypeOK
  <2> QED BY <2>1, <2>2
<1>2. CASE \E s \in Slot : held[s] /\ msg[s].event = e
  <2>1. PICK s \in Slot : held[s] /\ msg[s].event = e
    BY <1>2
  <2>2. CASE Home[s] # r
    BY <2>1, <2>2
  <2>3. CASE Home[s] = r
    <3>1. msg[s] \in Msg
      BY <2>1 DEF Inv, HandlersInv, SlotInv
    <3>2. ready'[msg[s]] > 0
      BY <2>1, <2>3, <3>1, RequeuedFacts DEF Inv
    <3> QED BY <2>1, <3>1, <3>2
  <2> QED BY <2>2, <2>3
<1> QED BY <1>1, <1>2 DEF NoEventLost

LEMMA NoStepLoses ==
    ASSUME Inv, NoEventLost, [Next]_vars
    PROVE  NoEventLost'
<1>1. ASSUME NEW e \in Event, Consume(e) PROVE NoEventLost'
  BY <1>1, DeliveryLosesNothing, RepublicationLosesNothing DEF Consume
<1>2. ASSUME NEW s \in Slot, HandlerStep(s) PROVE NoEventLost'
  <2>1. CASE Ack(s)
    BY <2>1, AckLosesNothing
  <2>2. CASE RateLimited(s) \/ StartSend(s) \/ SendSucceeds(s) \/ SendFails(s)
    BY <2>2, NothingMoves DEF RateLimited, StartSend, SendSucceeds, SendFails
  <2> QED BY <1>2, <2>1, <2>2 DEF HandlerStep
<1>3. ASSUME NEW r \in Replica, Crash(r) \/ Disconnect(r) PROVE NoEventLost'
  <2>1. ready' = Requeued(r) /\ acked' = acked
    BY <1>3 DEF Crash, Disconnect
  <2>2. \A t \in Slot : Home[t] # r => held'[t] = held[t] /\ msg'[t] = msg[t]
    <3>1. CASE Crash(r)
      BY <3>1, Zenon DEF Crash, OnReplica
    <3>2. CASE Disconnect(r)
      BY <3>2, Zenon DEF Disconnect, OnReplica
    <3> QED BY <1>3, <3>1, <3>2
  <2> QED BY <2>1, <2>2, RequeueLosesNothing
<1>4. ASSUME NEW r \in Replica, Restart(r) PROVE NoEventLost'
  BY <1>4, NothingMoves DEF Restart, handlers
<1>5. ASSUME NEW r \in Replica, NEW u \in Users,
             BreakerCools(r, u) \/ \E c \in Channel : WindowElapses(r, u, c)
      PROVE  NoEventLost'
  BY <1>5, NothingMoves DEF BreakerCools, WindowElapses, handlers
<1>6. CASE UNCHANGED vars
  BY <1>6, NothingMoves DEF vars, handlers
<1> QED BY <1>1, <1>2, <1>3, <1>4, <1>5, <1>6 DEF Next

\* Until it is acknowledged an event is in the queue or with a handler whose
\* death returns it there.
THEOREM NothingIsLost == Spec => []NoEventLost
<1>1. Init => NoEventLost
  <2> SUFFICES ASSUME Init, NEW e \in Event
               PROVE  \E m \in Msg : m.event = e /\ ready[m] > 0
    BY DEF NoEventLost
  <2>1. [event |-> e, retry |-> 0] \in Msg
    BY NotificationAssumption DEF Msg
  <2> QED BY <2>1 DEF Init
<1>2. Inv /\ NoEventLost /\ [Next]_vars => NoEventLost'
  BY NoStepLoses
<1> QED BY <1>1, <1>2, Invariance, PTL DEF Spec

\* A broken message is at every moment in notification_queue: the catch block
\* publishes it to where the service consumes, and nothing acknowledges it for
\* good.  So what BrokenLeave says of an event, and the run notify_broken refutes
\* on one instance, is false of every broken event in every behaviour.
THEOREM BrokenNeverLeave ==
    ASSUME NEW e \in Broken
    PROVE  /\ Spec => [](\E m \in Msg : m.event = e /\ ready[m] > 0)
           /\ Spec => ~<>[](\A m \in Msg : m.event = e => ready[m] = 0)
<1> DEFINE Queued == \E m \in Msg : m.event = e /\ ready[m] > 0
           Gone == \A m \in Msg : m.event = e => ready[m] = 0
<1>1. Inv /\ NoEventLost => Queued
  <2> SUFFICES ASSUME Inv, NoEventLost PROVE Queued
    OBVIOUS
  <2>1. e \in Event \ acked
    BY NotificationAssumption DEF Inv, TypeOK
  <2>2. \A s \in Slot : held[s] => msg[s].event \notin Broken
    BY DEF Inv, HandlersInv, SlotInv
  <2> QED BY <2>1, <2>2 DEF NoEventLost
<1>2. Queued => ~Gone
  OBVIOUS
<1> QED BY <1>1, <1>2, Invariance, NothingIsLost, PTL

-----------------------------------------------------------------------------
(***************************************************************************)
(* TriesBounded, for any number of replicas and slots.  Each call draws    *)
(* on a budget: the calls that handlers under way may still make, whether  *)
(* the broker waits for them or not, and those of the handler to come.     *)
(* Only a fault adds to it, and at most MaxAttempts per event and channel, *)
(* because there is one copy of the event to deliver again.                *)
(***************************************************************************)

\* The message an event starts with.
First(e) == [event |-> e, retry |-> 0]

\* There is one copy of an event that can be handled: the first message, in the
\* queue or unacknowledged with one handler.
OneCopy(e) ==
    /\ \A m \in Msg : m.event = e /\ m # First(e) => ready[m] = 0
    /\ ready[First(e)] \in {0, 1}
    /\ \A s \in Slot : held[s] /\ msg[s].event = e =>
           msg[s] = First(e) /\ ready[First(e)] = 0
    /\ \A s, t \in Slot :
           held[s] /\ held[t] /\ msg[s].event = e /\ msg[t].event = e => s = t

\* Channel c of e is still before the handler in s, or it is at c and has not
\* called yet.
Ahead(s, e, c) ==
    \E i \in 1 .. Len(Wants[e]) :
        Wants[e][i] = c /\ (i > pos[s] \/ (i = pos[s] /\ pc[s] = "next"))

\* The calls the handler in s may still make about e on c, acknowledged or not.
Left(s, e, c) ==
    IF pc[s] = "idle" \/ msg[s].event # e THEN 0
    ELSE IF Ahead(s, e, c) THEN MaxAttempts
    ELSE IF pc[s] = "send" /\ Wants[e][pos[s]] = c THEN MaxAttempts - attempt[s] + 1
    ELSE 0

\* Those calls one by one, and the calls of the handler to come.
Pending(e, c) == {x \in Slot \X (1 .. MaxAttempts) : x[2] <= Left(x[1], e, c)}
Waiting(e) == IF ready[First(e)] = 1 THEN MaxAttempts ELSE 0

Budget(e, c) ==
    tries[e][c] + Cardinality(Pending(e, c)) + Waiting(e) <= MaxAttempts * (1 + faults)

CallsInv ==
    /\ \A e \in Event \ Broken : OneCopy(e)
    /\ \A e \in Event \ Broken, c \in Channel : Budget(e, c)
    /\ \A e \in Broken, c \in Channel : tries[e][c] = 0

-----------------------------------------------------------------------------
(* Cardinalities *)

\* What a handler has left is a number of attempts, now
LEMMA LeftType ==
    ASSUME TypeOK, NEW s \in Slot, NEW e, NEW c
    PROVE  Left(s, e, c) \in 0 .. MaxAttempts
<1>1. attempt[s] \in 1 .. MaxAttempts /\ MaxAttempts \in Nat \ {0}
  BY NotificationAssumption DEF TypeOK
<1>2. MaxAttempts - attempt[s] + 1 \in 0 .. MaxAttempts
  BY <1>1
<1> QED BY <1>1, <1>2 DEF Left

\* and after a step.
LEMMA LeftTypeNext ==
    ASSUME TypeOK', NEW s \in Slot, NEW e, NEW c
    PROVE  Left(s, e, c)' \in 0 .. MaxAttempts
<1>1. attempt'[s] \in 1 .. MaxAttempts /\ MaxAttempts \in Nat \ {0}
  BY NotificationAssumption DEF TypeOK
<1>2. MaxAttempts - attempt'[s] + 1 \in 0 .. MaxAttempts
  BY <1>1
<1> QED BY <1>1, <1>2 DEF Left

LEMMA PendingFinite ==
    ASSUME NEW e, NEW c
    PROVE  IsFiniteSet(Pending(e, c)) /\ Cardinality(Pending(e, c)) \in Nat
<1>1. IsFiniteSet(1 .. MaxAttempts)
  BY NotificationAssumption, FS_Interval
<1>2. IsFiniteSet(Slot \X (1 .. MaxAttempts))
  BY <1>1, NotificationAssumption, FS_Product
<1>3. Pending(e, c) \in SUBSET (Slot \X (1 .. MaxAttempts))
  BY DEF Pending
<1>4. IsFiniteSet(Pending(e, c))
  BY <1>2, <1>3, FS_Subset
<1> QED BY <1>4, FS_CardinalityType

\* Handlers that have no more left than before have no more calls pending.
LEMMA PendingShrinks ==
    ASSUME TypeOK, TypeOK', NEW e, NEW c,
           \A t \in Slot : Left(t, e, c)' <= Left(t, e, c)
    PROVE  /\ Pending(e, c)' \subseteq Pending(e, c)
           /\ Cardinality(Pending(e, c)') \in Nat
           /\ Cardinality(Pending(e, c)') <= Cardinality(Pending(e, c))
<1>1. \A t \in Slot : Left(t, e, c) \in 0 .. MaxAttempts /\ Left(t, e, c)' \in 0 .. MaxAttempts
  BY LeftType, LeftTypeNext
<1>2. MaxAttempts \in Nat
  BY NotificationAssumption
<1>3. Pending(e, c)' \subseteq Pending(e, c)
  BY <1>1, <1>2 DEF Pending
<1> QED BY <1>3, PendingFinite, FS_Subset, FS_CardinalityType

\* A call that a handler makes is one it had left.
LEMMA PendingSpent ==
    ASSUME TypeOK, TypeOK', NEW e, NEW c, NEW s \in Slot,
           \A t \in Slot : Left(t, e, c)' <= Left(t, e, c),
           Left(s, e, c)' < Left(s, e, c)
    PROVE  /\ Cardinality(Pending(e, c)') \in Nat
           /\ Cardinality(Pending(e, c)') + 1 <= Cardinality(Pending(e, c))
<1>1. Left(s, e, c) \in 0 .. MaxAttempts /\ Left(s, e, c)' \in 0 .. MaxAttempts
      /\ MaxAttempts \in Nat
  BY LeftType, LeftTypeNext, NotificationAssumption
<1> DEFINE x == <<s, Left(s, e, c)>>
<1>2. Left(s, e, c) \in 1 .. MaxAttempts
  BY <1>1
<1>3. x \in Pending(e, c)
  BY <1>1, <1>2 DEF Pending
<1>4. PICK n \in 1 .. MaxAttempts : n = Left(s, e, c)
  BY <1>2
<1>5. <<s, n>> \notin Pending(e, c)'
  BY <1>1, <1>4 DEF Pending
<1>6. Pending(e, c)' \subseteq Pending(e, c)
      /\ Cardinality(Pending(e, c)') \in Nat
  BY PendingShrinks
<1>7. Pending(e, c)' \subseteq Pending(e, c) \ {<<s, n>>}
  BY <1>5, <1>6
<1>8. IsFiniteSet(Pending(e, c) \ {<<s, n>>})
      /\ Cardinality(Pending(e, c) \ {<<s, n>>}) = Cardinality(Pending(e, c)) - 1
  BY <1>3, <1>4, PendingFinite, FS_RemoveElement
<1>9. Cardinality(Pending(e, c)') <= Cardinality(Pending(e, c) \ {<<s, n>>})
  BY <1>7, <1>8, FS_Subset
<1> QED BY <1>6, <1>8, <1>9, PendingFinite

\* A handler that begins has at most MaxAttempts calls to make.
LEMMA PendingGrows ==
    ASSUME TypeOK, TypeOK', NEW e, NEW c, NEW s \in Slot,
           \A t \in Slot : t # s => Left(t, e, c)' <= Left(t, e, c)
    PROVE  /\ Cardinality(Pending(e, c)') \in Nat
           /\ Cardinality(Pending(e, c)') <= Cardinality(Pending(e, c)) + MaxAttempts
<1> DEFINE Q == {s} \X (1 .. MaxAttempts)
<1>1. MaxAttempts \in Nat \ {0}
  BY NotificationAssumption
<1>2. IsFiniteSet(1 .. MaxAttempts) /\ Cardinality(1 .. MaxAttempts) = MaxAttempts
  BY <1>1, FS_Interval
<1>3. IsFiniteSet({s}) /\ Cardinality({s}) = 1
  BY FS_Singleton
<1>4. IsFiniteSet(Q) /\ Cardinality(Q) = 1 * MaxAttempts
  BY <1>2, <1>3, FS_Product, ZenonT(30)
<1>5. \A t \in Slot : Left(t, e, c) \in 0 .. MaxAttempts /\ Left(t, e, c)' \in 0 .. MaxAttempts
  BY LeftType, LeftTypeNext
<1>6. Pending(e, c)' \subseteq Pending(e, c) \cup Q
  <2> SUFFICES ASSUME NEW t \in Slot, NEW n \in 1 .. MaxAttempts, n <= Left(t, e, c)'
               PROVE  <<t, n>> \in Pending(e, c) \cup Q
    BY DEF Pending
  <2>1. CASE t = s
    BY <2>1
  <2>2. CASE t # s
    <3>1. n <= Left(t, e, c)
      BY <1>1, <1>5, <2>2
    <3> QED BY <3>1 DEF Pending
  <2> QED BY <2>1, <2>2
<1> HIDE DEF Q
<1>7. /\ IsFiniteSet(Pending(e, c) \cup Q)
      /\ Cardinality(Pending(e, c) \cup Q)
             = Cardinality(Pending(e, c)) + Cardinality(Q) - Cardinality(Pending(e, c) \cap Q)
  BY <1>4, PendingFinite, FS_Union
<1>8. Cardinality(Pending(e, c) \cap Q) \in Nat
  BY <1>4, FS_Intersection, FS_CardinalityType
<1>9. Cardinality(Pending(e, c) \cup Q) <= Cardinality(Pending(e, c)) + MaxAttempts
  BY <1>1, <1>4, <1>7, <1>8, PendingFinite
<1>10. IsFiniteSet(Pending(e, c)')
       /\ Cardinality(Pending(e, c)') <= Cardinality(Pending(e, c) \cup Q)
  BY <1>6, <1>7, FS_Subset
<1>11. Cardinality(Pending(e, c)') \in Nat /\ Cardinality(Pending(e, c) \cup Q) \in Nat
  BY <1>7, <1>10, FS_CardinalityType
<1> QED BY <1>1, <1>9, <1>10, <1>11, PendingFinite

-----------------------------------------------------------------------------
(* Steps and the budget *)

\* The queue and the deliveries of the event are left alone, or handed back.
LEMMA OneCopyStays ==
    ASSUME NEW e \in Event, OneCopy(e),
           \A m \in Msg : m.event = e => ready'[m] = ready[m],
           \A t \in Slot : held'[t] /\ msg'[t].event = e => held[t] /\ msg[t] = msg'[t]
    PROVE  OneCopy(e)'
<1>1. First(e) \in Msg /\ First(e).event = e
  BY NotificationAssumption DEF First, Msg
<1>2. ready'[First(e)] = ready[First(e)]
  BY <1>1
<1> QED BY <1>2 DEF OneCopy, First

\* A step without a call in which no handler gets more to do.
LEMMA BudgetStays ==
    ASSUME TypeOK, TypeOK', NEW e \in Event, NEW c \in Channel, Budget(e, c),
           \A t \in Slot : Left(t, e, c)' <= Left(t, e, c),
           Waiting(e)' <= Waiting(e), tries'[e][c] = tries[e][c], UNCHANGED faults
    PROVE  Budget(e, c)'
<1>1. tries[e][c] \in Nat /\ faults \in Nat /\ MaxAttempts \in Nat
  BY NotificationAssumption DEF TypeOK
<1>2. Waiting(e) \in Nat /\ Waiting(e)' \in Nat
  BY <1>1 DEF Waiting
<1>3. /\ Cardinality(Pending(e, c)') \in Nat
      /\ Cardinality(Pending(e, c)') <= Cardinality(Pending(e, c))
  BY PendingShrinks
<1>4. Cardinality(Pending(e, c)) \in Nat
  BY PendingFinite
<1>5. MaxAttempts * (1 + faults) \in Nat
  BY <1>1
<1> QED BY <1>1, <1>2, <1>3, <1>4, <1>5 DEF Budget

\* A call, drawn from what its handler had left.
LEMMA BudgetSpent ==
    ASSUME TypeOK, TypeOK', NEW e \in Event, NEW c \in Channel, Budget(e, c),
           NEW s \in Slot,
           \A t \in Slot : Left(t, e, c)' <= Left(t, e, c),
           Left(s, e, c)' < Left(s, e, c),
           tries'[e][c] = tries[e][c] + 1, UNCHANGED <<ready, faults>>
    PROVE  Budget(e, c)'
<1>1. tries[e][c] \in Nat /\ faults \in Nat /\ MaxAttempts \in Nat
  BY NotificationAssumption DEF TypeOK
<1>2. Waiting(e) \in Nat /\ Waiting(e)' = Waiting(e)
  BY <1>1 DEF Waiting
<1>3. /\ Cardinality(Pending(e, c)') \in Nat
      /\ Cardinality(Pending(e, c)') + 1 <= Cardinality(Pending(e, c))
  BY PendingSpent
<1>4. Cardinality(Pending(e, c)) \in Nat
  BY PendingFinite
<1>5. MaxAttempts * (1 + faults) \in Nat
  BY <1>1
<1> QED BY <1>1, <1>2, <1>3, <1>4, <1>5 DEF Budget

\* The other handlers have what they had.
LEMMA OthersLeft ==
    ASSUME NEW t \in Slot, NEW e, NEW c,
           pc'[t] = pc[t], msg'[t] = msg[t], pos'[t] = pos[t], attempt'[t] = attempt[t]
    PROVE  Left(t, e, c)' = Left(t, e, c)
BY DEF Left, Ahead

\* A handler that goes on to the next channel gives up what it had left here.
LEMMA AdvanceSpends ==
    ASSUME Inv, TypeOK', NEW s \in Slot, At(s), Advance(s), UNCHANGED msg,
           NEW e \in Event, NEW c \in Channel
    PROVE  /\ Left(s, e, c)' <= Left(s, e, c)
           /\ e = msg[s].event /\ c = Here(s) => Left(s, e, c)' < Left(s, e, c)
<1>1. /\ pc[s] \in {"next", "send"} /\ pos[s] \in Nat \ {0}
      /\ pos[s] <= Len(Wants[msg[s].event])
      /\ attempt[s] \in 1 .. MaxAttempts
  BY DEF Inv, TypeOK, At
<1>2. pc'[s] = "next" /\ pos'[s] = pos[s] + 1 /\ msg'[s] = msg[s]
  BY DEF Advance, Inv, TypeOK
<1>3. Left(s, e, c) \in 0 .. MaxAttempts /\ Left(s, e, c)' \in 0 .. MaxAttempts
      /\ MaxAttempts \in Nat \ {0}
  BY LeftType, LeftTypeNext, NotificationAssumption DEF Inv
<1>4. CASE msg[s].event # e
  BY <1>2, <1>3, <1>4 DEF Left
<1>5. CASE msg[s].event = e
  <2>1. Wants[e] \in Seq(Channel)
        /\ \A i, j \in 1 .. Len(Wants[e]) : Wants[e][i] = Wants[e][j] => i = j
    BY NotificationAssumption
  <2>2. Ahead(s, e, c)' => \E i \in 1 .. Len(Wants[e]) : Wants[e][i] = c /\ i > pos[s]
    BY <1>1, <1>2, <2>1 DEF Ahead
  <2>3. Ahead(s, e, c)' => Ahead(s, e, c)
    BY <2>2 DEF Ahead
  <2>4. Left(s, e, c)' = IF Ahead(s, e, c)' THEN MaxAttempts ELSE 0
    BY <1>2, <1>5 DEF Left
  <2>5. Left(s, e, c)' <= Left(s, e, c)
    <3>1. Ahead(s, e, c) => Left(s, e, c) = MaxAttempts
      BY <1>1, <1>5 DEF Left
    <3> QED BY <1>3, <2>3, <2>4, <3>1
  <2>6. ASSUME c = Here(s) PROVE Left(s, e, c)' < Left(s, e, c)
    <3>1. c = Wants[e][pos[s]] /\ pos[s] \in 1 .. Len(Wants[e])
      BY <1>1, <1>5, <2>1, <2>6 DEF Here
    <3>2. ~Ahead(s, e, c)'
      BY <1>1, <2>1, <2>2, <3>1
    <3>3. CASE pc[s] = "next"
      <4>1. Ahead(s, e, c)
        BY <3>1, <3>3 DEF Ahead
      <4> QED BY <1>3, <1>5, <2>4, <3>2, <3>3, <4>1 DEF Left
    <3>4. CASE pc[s] = "send"
      <4>1. Left(s, e, c) \in {MaxAttempts, MaxAttempts - attempt[s] + 1}
        BY <1>5, <3>1, <3>4 DEF Left
      <4> QED BY <1>1, <1>3, <2>4, <3>2, <4>1
    <3> QED BY <1>1, <3>3, <3>4
  <2> QED BY <2>5, <2>6
<1> QED BY <1>4, <1>5

\* A handler that stays at its channel, calls or starts to.
LEMMA StaySpends ==
    ASSUME Inv, TypeOK', NEW s \in Slot, At(s), pc'[s] = "send",
           pos'[s] = pos[s], msg'[s] = msg[s],
           pc[s] = "next" \/ (pc[s] = "send" /\ attempt'[s] = attempt[s] + 1),
           NEW e \in Event, NEW c \in Channel
    PROVE  /\ Left(s, e, c)' <= Left(s, e, c)
           /\ pc[s] = "send" /\ e = msg[s].event /\ c = Here(s)
                  => Left(s, e, c)' < Left(s, e, c)
<1>1. /\ pos[s] \in Nat \ {0} /\ pos[s] <= Len(Wants[msg[s].event])
      /\ attempt[s] \in 1 .. MaxAttempts /\ attempt'[s] \in 1 .. MaxAttempts
  BY DEF Inv, TypeOK, At
<1>2. Left(s, e, c) \in 0 .. MaxAttempts /\ Left(s, e, c)' \in 0 .. MaxAttempts
      /\ MaxAttempts \in Nat \ {0}
  BY LeftType, LeftTypeNext, NotificationAssumption DEF Inv
<1>3. CASE msg[s].event # e
  BY <1>2, <1>3 DEF Left
<1>4. CASE msg[s].event = e
  <2>1. Wants[e] \in Seq(Channel)
        /\ \A i, j \in 1 .. Len(Wants[e]) : Wants[e][i] = Wants[e][j] => i = j
    BY NotificationAssumption
  <2>2. Ahead(s, e, c)' => \E i \in 1 .. Len(Wants[e]) : Wants[e][i] = c /\ i > pos[s]
    BY DEF Ahead
  <2>3. Ahead(s, e, c)' => Ahead(s, e, c)
    BY <2>2 DEF Ahead
  <2>4. Left(s, e, c)' = IF Ahead(s, e, c)' THEN MaxAttempts
                         ELSE IF Wants[e][pos[s]] = c THEN MaxAttempts - attempt'[s] + 1 ELSE 0
    BY <1>4 DEF Left
  <2>5. Ahead(s, e, c) => Left(s, e, c) = MaxAttempts
    BY <1>4 DEF Left
  <2>6. ASSUME c = Wants[e][pos[s]]
        PROVE  /\ ~Ahead(s, e, c)'
               /\ pc[s] = "next" => Ahead(s, e, c)
               /\ pc[s] = "send" => Left(s, e, c) \in {MaxAttempts, MaxAttempts - attempt[s] + 1}
    <3>1. pos[s] \in 1 .. Len(Wants[e])
      BY <1>1, <1>4, <2>1
    <3>2. ~Ahead(s, e, c)'
      BY <1>1, <2>1, <2>2, <2>6, <3>1
    <3>3. pc[s] = "next" => Ahead(s, e, c)
      BY <2>6, <3>1 DEF Ahead
    <3>4. pc[s] = "send" => Left(s, e, c) \in {MaxAttempts, MaxAttempts - attempt[s] + 1}
      BY <1>4, <2>6 DEF Left
    <3> QED BY <3>2, <3>3, <3>4
  <2>7. CASE c = Wants[e][pos[s]]
    <3>1. Left(s, e, c)' = MaxAttempts - attempt'[s] + 1
      BY <2>4, <2>6, <2>7
    <3>2. CASE pc[s] = "next"
      BY <1>1, <1>2, <2>5, <2>6, <2>7, <3>1, <3>2
    <3>3. CASE pc[s] = "send"
      BY <1>1, <1>2, <2>6, <2>7, <3>1, <3>3, SMTT(30)
    <3> QED BY <3>2, <3>3
  <2>8. CASE c # Wants[e][pos[s]]
    <3>1. Left(s, e, c)' <= Left(s, e, c)
      BY <1>2, <2>3, <2>4, <2>5, <2>8
    <3> QED BY <1>4, <2>8, <3>1 DEF Here
  <2> QED BY <2>7, <2>8
<1> QED BY <1>3, <1>4

-----------------------------------------------------------------------------
(* CallsInv is kept by every step *)

\* What a step of a handler does to the counters of calls.
Calls(s) ==
    \/ UNCHANGED tries
    \/ /\ Try(s)
       /\ \A e \in Event, c \in Channel :
              e = msg[s].event /\ c = Here(s) => Left(s, e, c)' < Left(s, e, c)

\* Steps of a handler that is at a channel.
LEMMA HandlerStays ==
    ASSUME Inv, TypeOK', CallsInv, NEW s \in Slot, At(s),
           UNCHANGED <<ready, msg, held, faults>>, Calls(s),
           \A t \in Slot, e \in Event, c \in Channel : Left(t, e, c)' <= Left(t, e, c)
    PROVE  CallsInv'
<1>1. /\ msg[s].event \in Event \ Broken
      /\ Here(s) \in Channel
      /\ tries \in [Event -> [Channel -> Nat]]
  BY HandlerReads DEF At, Inv, TypeOK, HandlersInv, SlotInv
<1>2. ASSUME NEW e \in Event \ Broken PROVE OneCopy(e)'
  BY OneCopyStays DEF CallsInv
<1>3. ASSUME NEW e \in Event \ Broken, NEW c \in Channel PROVE Budget(e, c)'
  <2>1. \A t \in Slot : Left(t, e, c)' <= Left(t, e, c)
    OBVIOUS
  <2>2. Budget(e, c) /\ TypeOK
    BY DEF CallsInv, Inv
  <2>3. CASE tries'[e][c] = tries[e][c]
    <3>1. Waiting(e)' <= Waiting(e)
      BY NotificationAssumption DEF Waiting
    <3> QED BY <2>1, <2>2, <2>3, <3>1, BudgetStays
  <2>4. CASE Try(s) /\ e = msg[s].event /\ c = Here(s) /\ ~UNCHANGED tries
    <3>1. tries'[e][c] = tries[e][c] + 1
      BY <1>1, <2>4 DEF Try
    <3>2. Left(s, e, c)' < Left(s, e, c)
      BY <2>4 DEF Calls
    <3> QED BY <2>1, <2>2, <3>1, <3>2, BudgetSpent
  <2>5. CASE Try(s) /\ ~(e = msg[s].event /\ c = Here(s))
    <3>1. tries'[e][c] = tries[e][c]
      BY <1>1, <2>5 DEF Try
    <3> QED BY <2>3, <3>1
  <2> QED BY <2>3, <2>4, <2>5 DEF Calls
<1>4. ASSUME NEW e \in Broken, NEW c \in Channel PROVE tries'[e][c] = 0
  <2>1. tries'[e][c] = tries[e][c]
    <3>1. CASE UNCHANGED tries
      BY <3>1
    <3>2. CASE Try(s)
      <4>1. e \in Event /\ e # msg[s].event
        BY <1>1, NotificationAssumption
      <4> QED BY <1>1, <3>2, <4>1 DEF Try
    <3> QED BY <3>1, <3>2 DEF Calls
  <2> QED BY <2>1 DEF CallsInv
<1> QED BY <1>2, <1>3, <1>4 DEF CallsInv

\* A handler that goes on, with or without a call.
LEMMA HandlerAdvances ==
    ASSUME Inv, TypeOK', CallsInv, NEW s \in Slot, At(s), Advance(s),
           UNCHANGED <<ready, msg, held, faults>>, Try(s) \/ UNCHANGED tries
    PROVE  CallsInv'
<1>1. ASSUME NEW t \in Slot, NEW e \in Event, NEW c \in Channel
      PROVE  Left(t, e, c)' <= Left(t, e, c)
  <2>1. CASE t = s
    BY <2>1, AdvanceSpends
  <2>2. CASE t # s
    <3>1. pc'[t] = pc[t] /\ pos'[t] = pos[t] /\ attempt'[t] = attempt[t] /\ msg'[t] = msg[t]
      BY <2>2 DEF Advance, Inv, TypeOK
    <3>2. Left(t, e, c)' = Left(t, e, c)
      BY <3>1, OthersLeft
    <3>3. Left(t, e, c) \in 0 .. MaxAttempts
      BY LeftType DEF Inv
    <3> QED BY <3>2, <3>3
  <2> QED BY <2>1, <2>2
<1>2. Calls(s)
  BY AdvanceSpends DEF Calls
<1> QED BY <1>1, <1>2, HandlerStays

\* A handler that stays at its channel.
LEMMA HandlerWaits ==
    ASSUME Inv, TypeOK', CallsInv, NEW s \in Slot, At(s), UNCHANGED <<ready, msg, held, pos, faults>>,
           \/ pc[s] = "next" /\ UNCHANGED <<attempt, tries>>
           \/ pc[s] = "send" /\ attempt' = [attempt EXCEPT ![s] = @ + 1] /\ Try(s),
           pc' = [pc EXCEPT ![s] = "send"]
    PROVE  CallsInv'
<1>1. pc'[s] = "send" /\ (pc[s] = "next" \/ (pc[s] = "send" /\ attempt'[s] = attempt[s] + 1))
  BY DEF Inv, TypeOK
<1>2. ASSUME NEW e \in Event, NEW c \in Channel
      PROVE  /\ Left(s, e, c)' <= Left(s, e, c)
             /\ pc[s] = "send" /\ e = msg[s].event /\ c = Here(s)
                    => Left(s, e, c)' < Left(s, e, c)
  BY <1>1, StaySpends
<1>3. ASSUME NEW t \in Slot, NEW e \in Event, NEW c \in Channel
      PROVE  Left(t, e, c)' <= Left(t, e, c)
  <2>1. CASE t = s
    BY <1>2, <2>1
  <2>2. CASE t # s
    <3>1. pc'[t] = pc[t] /\ pos'[t] = pos[t] /\ attempt'[t] = attempt[t] /\ msg'[t] = msg[t]
      BY <2>2 DEF Inv, TypeOK
    <3>2. Left(t, e, c)' = Left(t, e, c)
      BY <3>1, OthersLeft
    <3>3. Left(t, e, c) \in 0 .. MaxAttempts
      BY LeftType DEF Inv
    <3> QED BY <3>2, <3>3
  <2> QED BY <2>1, <2>2
<1>4. Calls(s)
  BY <1>2 DEF Calls
<1> QED BY <1>3, <1>4, HandlerStays

LEMMA HandlerStepCalls ==
    ASSUME Inv, TypeOK', CallsInv, NEW s \in Slot,
           RateLimited(s) \/ StartSend(s) \/ SendSucceeds(s) \/ SendFails(s)
    PROVE  CallsInv'
<1>1. At(s) /\ UNCHANGED <<ready, msg, held, faults>>
  <2>1. CASE RateLimited(s)
    BY <2>1 DEF RateLimited, AtChannel, At
  <2>2. CASE StartSend(s)
    BY <2>2 DEF StartSend, AtChannel, At
  <2>3. CASE SendSucceeds(s)
    BY <2>3 DEF SendSucceeds, At, Inv, HandlersInv, SlotInv
  <2>4. CASE SendFails(s)
    BY <2>4 DEF SendFails, At, Inv, HandlersInv, SlotInv
  <2> QED BY <2>1, <2>2, <2>3, <2>4
<1>2. CASE RateLimited(s)
  BY <1>1, <1>2, HandlerAdvances DEF RateLimited
<1>3. CASE StartSend(s)
  <2>1. CASE Advance(s) /\ (Try(s) \/ UNCHANGED tries)
    BY <1>1, <2>1, HandlerAdvances
  <2>2. CASE pc' = [pc EXCEPT ![s] = "send"] /\ UNCHANGED <<pos, attempt, tries>>
    BY <1>1, <1>3, <2>2, HandlerWaits DEF StartSend, AtChannel
  <2> QED BY <1>3, <2>1, <2>2 DEF StartSend, SendSMS
<1>4. CASE SendSucceeds(s)
  BY <1>1, <1>4, HandlerAdvances DEF SendSucceeds
<1>5. CASE SendFails(s)
  <2>1. CASE Retries(attempt[s])
    <3>1. pc' = [pc EXCEPT ![s] = "send"] /\ pc[s] = "send" /\ UNCHANGED pos
      BY <1>5, <2>1 DEF SendFails, Inv, TypeOK
    <3> QED BY <1>1, <1>5, <2>1, <3>1, HandlerWaits DEF SendFails
  <2>2. CASE ~Retries(attempt[s])
    BY <1>1, <1>5, <2>2, HandlerAdvances DEF SendFails
  <2> QED BY <2>1, <2>2
<1> QED BY <1>2, <1>3, <1>4, <1>5

\* Steps that make no call, give no handler more to do and leave the copies of
\* events that can be handled where they are.
LEMMA Undisturbed ==
    ASSUME Inv, TypeOK', CallsInv, UNCHANGED <<tries, faults>>,
           \A m \in Msg : m.event \notin Broken => ready'[m] = ready[m],
           \A t \in Slot : held'[t] => held[t] /\ msg[t] = msg'[t],
           \A t \in Slot, e \in Event, c \in Channel : Left(t, e, c)' <= Left(t, e, c)
    PROVE  CallsInv'
<1>1. ASSUME NEW e \in Event \ Broken PROVE OneCopy(e)'
  BY OneCopyStays DEF CallsInv
<1>2. ASSUME NEW e \in Event \ Broken, NEW c \in Channel PROVE Budget(e, c)'
  <2>1. First(e) \in Msg /\ First(e).event = e
    BY NotificationAssumption DEF First, Msg
  <2>2. Waiting(e)' <= Waiting(e)
    BY <2>1, NotificationAssumption DEF Waiting
  <2> QED BY <2>2, BudgetStays DEF CallsInv, Inv
<1> QED BY <1>1, <1>2 DEF CallsInv

LEMMA AckCalls ==
    ASSUME Inv, TypeOK', CallsInv, NEW s \in Slot, Ack(s)
    PROVE  CallsInv'
<1>1. ASSUME NEW t \in Slot, NEW e \in Event, NEW c \in Channel
      PROVE  Left(t, e, c)' <= Left(t, e, c)
  <2>1. Left(t, e, c) \in 0 .. MaxAttempts /\ MaxAttempts \in Nat
    BY LeftType, NotificationAssumption DEF Inv
  <2>2. CASE t = s
    <3>1. pc'[s] = "idle"
      BY DEF Ack, Release, Inv, TypeOK
    <3> QED BY <2>1, <2>2, <3>1 DEF Left
  <2>3. CASE t # s
    <3>1. pc'[t] = pc[t] /\ pos'[t] = pos[t] /\ attempt'[t] = attempt[t] /\ msg'[t] = msg[t]
      BY <2>3 DEF Ack, Release, Inv, TypeOK
    <3>2. Left(t, e, c)' = Left(t, e, c)
      BY <3>1, OthersLeft
    <3> QED BY <2>1, <3>2
  <2> QED BY <2>2, <2>3
<1>2. \A t \in Slot : held'[t] => held[t] /\ msg[t] = msg'[t]
  BY DEF Ack, Release, Inv, TypeOK
<1> QED BY <1>1, <1>2, Undisturbed DEF Ack

\* Steps that leave the handlers alone.
LEMMA HandlersRest ==
    ASSUME Inv, TypeOK', CallsInv, UNCHANGED <<tries, faults, handlers>>,
           \A m \in Msg : m.event \notin Broken => ready'[m] = ready[m]
    PROVE  CallsInv'
<1>1. ASSUME NEW t \in Slot, NEW e \in Event, NEW c \in Channel
      PROVE  Left(t, e, c)' <= Left(t, e, c)
  <2>1. Left(t, e, c) \in 0 .. MaxAttempts /\ MaxAttempts \in Nat
    BY LeftType, NotificationAssumption DEF Inv
  <2>2. Left(t, e, c)' = Left(t, e, c)
    BY OthersLeft DEF handlers
  <2> QED BY <2>1, <2>2
<1> QED BY <1>1, Undisturbed DEF handlers

LEMMA RepublicationCalls ==
    ASSUME Inv, TypeOK', CallsInv, NEW s \in Slot, NEW m \in Msg, DeliverBroken(s, m)
    PROVE  CallsInv'
<1>1. ready \in [Msg -> Nat] /\ Republished(m) \in Msg /\ Republished(m).event = m.event
      /\ m.event \in Broken
  BY RepublishedType DEF Inv, TypeOK, DeliverBroken
<1>2. \A n \in Msg : n.event \notin Broken => ready'[n] = ready[n]
  BY <1>1 DEF DeliverBroken
<1> QED BY <1>2, HandlersRest DEF DeliverBroken

\* A delivery moves the copy from the queue to a handler and its budget with it.
LEMMA DeliveryCalls ==
    ASSUME Inv, TypeOK', CallsInv, NEW s \in Slot, NEW m \in Msg, Deliver(s, m)
    PROVE  CallsInv'
<1>1. /\ ready \in [Msg -> Nat] /\ held \in [Slot -> BOOLEAN] /\ msg \in [Slot -> Msg \cup {None}]
      /\ pc[s] = "idle" /\ ~held[s]
      /\ m.event \in Event \ Broken
  BY DEF Inv, TypeOK, HandlersInv, SlotInv, Deliver, Consumable, Msg
<1>2. \A t \in Slot : t # s => /\ held'[t] = held[t] /\ msg'[t] = msg[t] /\ pc'[t] = pc[t]
                               /\ pos'[t] = pos[t] /\ attempt'[t] = attempt[t]
  BY DEF Deliver, Inv, TypeOK
<1>3. held'[s] /\ msg'[s] = m /\ pc'[s] = "next"
  BY DEF Deliver, Inv, TypeOK
<1>4. m = First(m.event) /\ ready[m] = 1 /\ ready'[m] = 0
  <2>1. ready[m] > 0 /\ OneCopy(m.event)
    BY <1>1 DEF Deliver, Consumable, CallsInv
  <2>2. m = First(m.event)
    BY <2>1 DEF OneCopy
  <2>3. ready[m] = 1
    BY <2>1, <2>2 DEF OneCopy
  <2> QED BY <1>1, <2>2, <2>3 DEF Deliver
<1>5. \A n \in Msg : n # m => ready'[n] = ready[n]
  BY <1>1 DEF Deliver
<1>6. UNCHANGED <<tries, faults>>
  BY DEF Deliver
<1>7. ASSUME NEW t \in Slot, t # s, NEW e, NEW c PROVE Left(t, e, c)' <= Left(t, e, c)
  <2>1. Left(t, e, c)' = Left(t, e, c)
    BY <1>2, <1>7, OthersLeft
  <2>2. Left(t, e, c) \in 0 .. MaxAttempts
    BY LeftType DEF Inv
  <2> QED BY <2>1, <2>2
<1>8. ASSUME NEW e \in Event \ Broken, e # m.event PROVE OneCopy(e)'
  <2>1. \A n \in Msg : n.event = e => ready'[n] = ready[n]
    BY <1>5, <1>8
  <2>2. \A t \in Slot : held'[t] /\ msg'[t].event = e => held[t] /\ msg[t] = msg'[t]
    BY <1>2, <1>3, <1>8
  <2> QED BY <2>1, <2>2, OneCopyStays DEF CallsInv
<1>9. ASSUME NEW e \in Event \ Broken, e = m.event PROVE OneCopy(e)'
  <2>1. OneCopy(e)
    BY DEF CallsInv
  <2>2. \A t \in Slot : held[t] => msg[t].event # e
    BY <1>4, <1>9, <2>1 DEF OneCopy
  <2>3. \A t \in Slot : held'[t] /\ msg'[t].event = e => t = s
    BY <1>2, <2>2
  <2>4. \A n \in Msg : n.event = e => ready'[n] = 0
    BY <1>4, <1>5, <1>9, <2>1 DEF OneCopy
  <2>5. First(e) = m /\ First(e)' = First(e)
    BY <1>4, <1>9 DEF First
  <2> QED BY <1>3, <1>4, <2>3, <2>4, <2>5 DEF OneCopy
<1>10. ASSUME NEW e \in Event \ Broken, NEW c \in Channel, e # m.event PROVE Budget(e, c)'
  <2>1. Left(s, e, c)' <= Left(s, e, c)
    <3>1. Left(s, e, c)' = 0
      BY <1>3, <1>10 DEF Left
    <3> QED BY <3>1, LeftType, NotificationAssumption DEF Inv
  <2>2. \A t \in Slot : Left(t, e, c)' <= Left(t, e, c)
    BY <1>7, <2>1
  <2>3. First(e) \in Msg /\ First(e) # m
    BY <1>10, NotificationAssumption DEF First, Msg
  <2>4. Waiting(e)' <= Waiting(e)
    BY <1>5, <2>3, NotificationAssumption DEF Waiting
  <2>5. Budget(e, c) /\ TypeOK
    BY DEF CallsInv, Inv
  <2> QED BY <1>6, <2>2, <2>4, <2>5, BudgetStays
<1>11. ASSUME NEW e \in Event \ Broken, NEW c \in Channel, e = m.event PROVE Budget(e, c)'
  <2>1. tries[e][c] \in Nat /\ faults \in Nat /\ MaxAttempts \in Nat
    BY NotificationAssumption DEF Inv, TypeOK
  <2>2. Waiting(e) = MaxAttempts /\ Waiting(e)' = 0
    BY <1>4, <1>11 DEF Waiting
  <2>3. /\ Cardinality(Pending(e, c)') \in Nat
        /\ Cardinality(Pending(e, c)') <= Cardinality(Pending(e, c)) + MaxAttempts
    BY <1>7, PendingGrows DEF Inv
  <2>4. Cardinality(Pending(e, c)) \in Nat
    BY PendingFinite
  <2>5. Budget(e, c)
    BY DEF CallsInv
  <2>6. MaxAttempts * (1 + faults) \in Nat
    BY <2>1
  <2> QED BY <1>6, <2>1, <2>2, <2>3, <2>4, <2>5, <2>6 DEF Budget
<1> QED BY <1>6, <1>8, <1>9, <1>10, <1>11 DEF CallsInv

\* A fault may bring the copy back to the queue, and pays for its next handler.
LEMMA FaultCalls ==
    ASSUME Inv, TypeOK', CallsInv, NEW r \in Replica,
           ready' = Requeued(r), faults' = faults + 1, UNCHANGED tries,
           \A t \in Slot : held'[t] => held[t] /\ msg[t] = msg'[t] /\ Home[t] # r,
           \A t \in Slot, e \in Event, c \in Channel : Left(t, e, c)' <= Left(t, e, c)
    PROVE  CallsInv'
<1>1. ready \in [Msg -> Nat] /\ held \in [Slot -> BOOLEAN] /\ msg \in [Slot -> Msg \cup {None}]
  BY DEF Inv, TypeOK
<1>2. ASSUME NEW e \in Event \ Broken
      PROVE  OneCopy(e)'
  <2>1. OneCopy(e) /\ First(e) \in Msg /\ First(e).event = e
    BY NotificationAssumption DEF CallsInv, First, Msg
  <2>2. \A n \in Msg : ready'[n] = ready[n] + Cardinality(Unacked(r, n))
    BY DEF Requeued
  <2>3. ASSUME NEW n \in Msg, n.event = e, \A t \in Slot : ~(Home[t] = r /\ held[t] /\ msg[t] = n)
        PROVE  ready'[n] = ready[n]
    <3>1. Unacked(r, n) = {}
      BY <2>3 DEF Unacked
    <3>2. Cardinality(Unacked(r, n)) = 0
      BY <3>1, FS_EmptySet
    <3>3. ready'[n] = ready[n] + Cardinality(Unacked(r, n)) /\ ready[n] \in Nat
      BY <1>1, <2>2, <2>3
    <3> QED BY <3>2, <3>3
  <2>4. \A n \in Msg : n.event = e /\ n # First(e) => ready'[n] = 0
    BY <2>1, <2>3 DEF OneCopy
  <2>5. CASE \E t \in Slot : Home[t] = r /\ held[t] /\ msg[t].event = e
    <3>1. PICK t \in Slot : Home[t] = r /\ held[t] /\ msg[t].event = e
      BY <2>5
    <3>2. msg[t] = First(e) /\ ready[First(e)] = 0
          /\ \A u \in Slot : held[u] /\ msg[u].event = e => u = t
      BY <2>1, <3>1 DEF OneCopy
    <3>3. Unacked(r, First(e)) = {t}
      BY <2>1, <3>1, <3>2 DEF Unacked
    <3>4. ready'[First(e)] = 1
      <4>1. Cardinality(Unacked(r, First(e))) = 1
        BY <3>3, FS_Singleton
      <4>2. ready'[First(e)] = ready[First(e)] + Cardinality(Unacked(r, First(e)))
        BY <2>1, <2>2
      <4> QED BY <3>2, <4>1, <4>2
    <3>5. \A u \in Slot : ~(held'[u] /\ msg'[u].event = e)
      BY <3>1, <3>2
    <3> QED BY <2>4, <3>4, <3>5 DEF OneCopy, First
  <2>6. CASE \A t \in Slot : ~(Home[t] = r /\ held[t] /\ msg[t].event = e)
    <3>1. \A n \in Msg : n.event = e => ready'[n] = ready[n]
      BY <2>3, <2>6
    <3> QED BY <2>1, <3>1, OneCopyStays
  <2> QED BY <2>5, <2>6
<1>3. ASSUME NEW e \in Event \ Broken, NEW c \in Channel PROVE Budget(e, c)'
  <2>1. tries[e][c] \in Nat /\ faults \in Nat /\ MaxAttempts \in Nat
    BY NotificationAssumption DEF Inv, TypeOK
  <2>2. Waiting(e) \in Nat /\ Waiting(e)' \in Nat /\ Waiting(e)' <= MaxAttempts
    BY <2>1 DEF Waiting
  <2>3. /\ Cardinality(Pending(e, c)') \in Nat
        /\ Cardinality(Pending(e, c)') <= Cardinality(Pending(e, c))
    BY PendingShrinks DEF Inv
  <2>4. Cardinality(Pending(e, c)) \in Nat
    BY PendingFinite
  <2>5. Budget(e, c)
    BY DEF CallsInv
  <2>6. MaxAttempts * (1 + faults) \in Nat
        /\ MaxAttempts * (1 + (faults + 1)) = MaxAttempts * (1 + faults) + MaxAttempts
    BY <2>1
  <2> QED BY <2>1, <2>2, <2>3, <2>4, <2>5, <2>6 DEF Budget
<1> QED BY <1>2, <1>3 DEF CallsInv

LEMMA CrashCalls ==
    ASSUME Inv, TypeOK', CallsInv, NEW r \in Replica, Crash(r)
    PROVE  CallsInv'
<1>1. \A t \in Slot : held'[t] => held[t] /\ msg[t] = msg'[t] /\ Home[t] # r
  BY DEF Crash, OnReplica
<1>2. ASSUME NEW t \in Slot, NEW e \in Event, NEW c \in Channel
      PROVE  Left(t, e, c)' <= Left(t, e, c)
  <2>1. Left(t, e, c) \in 0 .. MaxAttempts /\ MaxAttempts \in Nat
    BY LeftType, NotificationAssumption DEF Inv
  <2>2. CASE Home[t] = r
    <3>1. pc'[t] = "idle"
      BY <2>2 DEF Crash, OnReplica
    <3> QED BY <2>1, <3>1 DEF Left
  <2>3. CASE Home[t] # r
    <3>1. pc'[t] = pc[t] /\ pos'[t] = pos[t] /\ attempt'[t] = attempt[t] /\ msg'[t] = msg[t]
      BY <2>3 DEF Crash, OnReplica
    <3>2. Left(t, e, c)' = Left(t, e, c)
      BY <3>1, OthersLeft
    <3> QED BY <2>1, <3>2
  <2> QED BY <2>2, <2>3
<1> QED BY <1>1, <1>2, FaultCalls DEF Crash, Fault

LEMMA DisconnectCalls ==
    ASSUME Inv, TypeOK', CallsInv, NEW r \in Replica, Disconnect(r)
    PROVE  CallsInv'
<1>1. \A t \in Slot : held'[t] => held[t] /\ msg[t] = msg'[t] /\ Home[t] # r
  BY DEF Disconnect, OnReplica
<1>2. ASSUME NEW t \in Slot, NEW e \in Event, NEW c \in Channel
      PROVE  Left(t, e, c)' <= Left(t, e, c)
  <2>1. Left(t, e, c) \in 0 .. MaxAttempts /\ MaxAttempts \in Nat
    BY LeftType, NotificationAssumption DEF Inv
  <2>2. Left(t, e, c)' = Left(t, e, c)
    BY OthersLeft DEF Disconnect
  <2> QED BY <2>1, <2>2
<1> QED BY <1>1, <1>2, FaultCalls DEF Disconnect, Fault

-----------------------------------------------------------------------------
(* The bound *)

\* Before the first delivery the budget is the first handler's.
LEMMA CallsInitially == Init => CallsInv
<1> SUFFICES ASSUME Init PROVE CallsInv
  OBVIOUS
<1>1. ASSUME NEW e \in Event PROVE OneCopy(e)
  <2>1. First(e) \in Msg /\ First(e).retry = 0
    BY NotificationAssumption DEF First, Msg
  <2>2. ASSUME NEW m \in Msg, m.event = e, m # First(e) PROVE ready[m] = 0
    <3>1. m.retry # 0
      BY <2>2 DEF First, Msg
    <3> QED BY <3>1 DEF Init
  <2>3. ready[First(e)] = 1
    BY <2>1 DEF Init
  <2>4. \A s \in Slot : ~held[s]
    BY DEF Init
  <2> QED BY <2>2, <2>3, <2>4 DEF OneCopy
<1>2. ASSUME NEW e \in Event, NEW c \in Channel PROVE Budget(e, c)
  <2>1. MaxAttempts \in Nat \ {0}
    BY NotificationAssumption
  <2>2. \A s \in Slot : Left(s, e, c) = 0
    BY DEF Init, Left
  <2>3. Pending(e, c) = {}
    BY <2>1, <2>2 DEF Pending
  <2>4. Cardinality(Pending(e, c)) = 0
    BY <2>3, FS_EmptySet
  <2>5. tries[e][c] = 0 /\ faults = 0
    BY DEF Init
  <2>6. Waiting(e) <= MaxAttempts /\ Waiting(e) \in Nat
    BY <2>1 DEF Waiting
  <2> QED BY <2>1, <2>4, <2>5, <2>6 DEF Budget
<1>3. \A e \in Broken, c \in Channel : tries[e][c] = 0
  BY NotificationAssumption DEF Init
<1> QED BY <1>1, <1>2, <1>3 DEF CallsInv

LEMMA CallsKept ==
    ASSUME Inv, Inv', CallsInv, [Next]_vars
    PROVE  CallsInv'
<1> USE DEF Inv
<1>1. ASSUME NEW e \in Event, Consume(e) PROVE CallsInv'
  BY <1>1, DeliveryCalls, RepublicationCalls DEF Consume
<1>2. ASSUME NEW s \in Slot, HandlerStep(s) PROVE CallsInv'
  BY <1>2, HandlerStepCalls, AckCalls DEF HandlerStep
<1>3. ASSUME NEW r \in Replica, Crash(r) \/ Disconnect(r) PROVE CallsInv'
  BY <1>3, CrashCalls, DisconnectCalls
<1>4. ASSUME NEW r \in Replica, Restart(r) PROVE CallsInv'
  BY <1>4, HandlersRest DEF Restart
<1>5. ASSUME NEW r \in Replica, NEW u \in Users,
             BreakerCools(r, u) \/ \E c \in Channel : WindowElapses(r, u, c)
      PROVE  CallsInv'
  BY <1>5, HandlersRest DEF BreakerCools, WindowElapses
<1>6. CASE UNCHANGED vars
  BY <1>6, HandlersRest DEF vars
<1> QED BY <1>1, <1>2, <1>3, <1>4, <1>5, <1>6 DEF Next

\* The bound follows from the budget.
LEMMA BudgetBounds == TypeOK /\ CallsInv => TriesBounded
<1> SUFFICES ASSUME TypeOK, CallsInv, NEW e \in Event, NEW c \in Channel
             PROVE  tries[e][c] <= MaxAttempts * (1 + faults)
  BY DEF TriesBounded
<1>1. tries[e][c] \in Nat /\ faults \in Nat /\ MaxAttempts \in Nat
  BY NotificationAssumption DEF TypeOK
<1>2. MaxAttempts * (1 + faults) \in Nat
  BY <1>1
<1>3. CASE e \in Broken
  BY <1>2, <1>3 DEF CallsInv
<1>4. CASE e \notin Broken
  <2>1. Budget(e, c)
    BY <1>4 DEF CallsInv
  <2>2. Cardinality(Pending(e, c)) \in Nat /\ Waiting(e) \in Nat
    BY <1>1, PendingFinite DEF Waiting
  <2> QED BY <1>1, <1>2, <2>1, <2>2 DEF Budget
<1> QED BY <1>3, <1>4

\* The provider of a channel is called at most MaxAttempts times for an event,
\* and as often again for each fault.
THEOREM CallsAreBounded == Spec => []TriesBounded
<1>1. Inv /\ Inv' /\ CallsInv /\ [Next]_vars => CallsInv'
  BY CallsKept
<1>2. Inv /\ CallsInv => TriesBounded
  BY BudgetBounds DEF Inv
<1> QED BY <1>1, <1>2, CallsInitially, Invariance, PTL DEF Spec
=============================================================================
