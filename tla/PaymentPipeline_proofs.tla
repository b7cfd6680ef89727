----------------------- MODULE PaymentPipeline_proofs -----------------------
(***************************************************************************)
(* Proofs about PaymentPipeline for any payments, replicas, slots, rate    *)
(* limit and number of faults.                                             *)
(***************************************************************************)
EXTENDS PaymentPipelineInv, FiniteSetTheorems, SequenceTheorems, TLAPS

USE DEF Lifecycle!Charged, MilestonesInOrder, StoreTellsNoLie

\* The ledger of outside effects only grows.
LedgerGrows ==
    /\ cleared \subseteq cleared'
    /\ settled \subseteq settled'
    /\ \A t \in Txn : charges[t] <= charges'[t]

-----------------------------------------------------------------------------
(* The operators the workers are built from *)

\* A status written by a worker is one of the state machine's, and one the
\* abstract specification may record.
LEMMA WrittenType ==
    ASSUME NEW q \in Worker, NEW v \in Verdict
    PROVE  /\ Written(q, v) \in Status
           /\ Written(q, v) \in Lifecycle!StoredStatus
  BY DEF Worker, Verdict, Written, Status, Lifecycle!StoredStatus

\* Every message is in some worker's queue and about some payment.
LEMMA WorkerOfMsg ==
    ASSUME NEW m \in Msg
    PROVE  m.queue \in Worker /\ m.txn \in Txn /\ m.retry \in 0 .. MaxRetry
  BY DEF Msg, Worker, MaxRetry

\* What is published is a message, unless it is dead-lettered.
LEMMA SuccessorType ==
    ASSUME NEW m \in Msg, NEW v \in Verdict,
           ~Buries(m, v), ~Terminal(m.queue, v)
    PROVE  Successor(m, v) \in Msg /\ Successor(m, v).txn = m.txn
  <1>1. CASE m.queue = "validation" /\ v = "reject"
    <2>1. m \in [queue : {"validation"}, txn : Txn, retry : 0 .. MaxRetry]
      BY <1>1 DEF Msg, Worker
    <2>2. m.retry + 1 \in 0 .. MaxRetry
      BY <1>1, <2>1 DEF Buries, MaxRetry
    <2>3. Successor(m, v) = [m EXCEPT !.retry = m.retry + 1]
      BY <1>1 DEF Successor
    <2> QED  BY <2>1, <2>2, <2>3 DEF Msg
  <1>2. CASE ~(m.queue = "validation" /\ v = "reject")
    BY <1>2, WorkerOfMsg DEF Msg, Worker, Verdict, Successor, Terminal
  <1> QED  BY <1>1, <1>2

\* A decision that is not refuted justifies what the worker stores ...
LEMMA WrittenJustified ==
    ASSUME NEW q \in Worker, NEW v \in Verdict, NEW t \in Txn,
           LedgerInv, Earned(q, t), Supported(q, v, t)
    PROVE  Lifecycle!Justified(t, Written(q, v))
  BY DEF Worker, Verdict, LedgerInv, Lifecycle!MilestonesInOrder, Earned,
         Supported, Written, Lifecycle!Justified

\* ... and earns the message it publishes its queue.
LEMMA SuccessorEarned ==
    ASSUME NEW m \in Msg, NEW v \in Verdict, ~Buries(m, v), ~Terminal(m.queue, v),
           Supported(m.queue, v, m.txn)
    PROVE  LET n == Successor(m, v) IN Earned(n.queue, n.txn)
  <1>1. CASE m.queue = "validation" /\ v = "reject"
    <2>1. m \in [queue : {"validation"}, txn : Txn, retry : 0 .. MaxRetry]
      BY <1>1 DEF Msg, Worker
    <2>2. Successor(m, v).queue = "validation"
      BY <1>1, <2>1 DEF Successor
    <2> QED  BY <2>2 DEF Earned
  <1>2. CASE ~(m.queue = "validation" /\ v = "reject")
    BY <1>2, WorkerOfMsg DEF Worker, Verdict, Successor, Terminal, Supported, Earned
  <1> QED  BY <1>1, <1>2

\* A handler goes on to publish only if its branch is not terminal.
LEMMA AfterStorePC ==
    ASSUME NEW q \in Worker, NEW v \in Verdict
    PROVE  /\ AfterStore(q, v) \in {"publish", "notify", "ack"}
           /\ AfterStore(q, v) = "publish" => ~Terminal(q, v)
  BY DEF Worker, Verdict, AfterStore, Terminal

\* What was earned, supported or justified stays so while the ledger grows.
LEMMA Monotone ==
    ASSUME TypeOK, TypeOK', LedgerGrows, NEW t \in Txn
    PROVE  /\ \A q \in Worker : Earned(q, t) => Earned(q, t)'
           /\ \A q \in Worker, v \in Verdict : Supported(q, v, t) => Supported(q, v, t)'
           /\ \A st : Lifecycle!Justified(t, st) => Lifecycle!Justified(t, st)'
  <1>1. charges[t] > 0 => charges'[t] > 0
    BY DEF TypeOK, LedgerGrows
  <1> QED  BY <1>1 DEF LedgerGrows, Earned, Supported, Lifecycle!Justified

-----------------------------------------------------------------------------
(* Outstanding Redis commands *)

WaitingPC == {"store", "fraudGet", "fraudCache"}

\* A handler with a command outstanding is waiting for it on that replica.
LEMMA Awaiting ==
    ASSUME TypeOK, ConnInv, NEW r \in Replica, NEW i \in 1 .. Len(conn[r]),
           NEW s \in Slot, conn[r][i].by = s
    PROVE  Home[s] = r /\ pc[s] \in WaitingPC
  <1>1. conn[r][i] \in Cmd
    BY ElementOfSeq DEF TypeOK
  <1>2. conn[r][i].op \in {"set", "get", "cache"}
    BY <1>1 DEF Cmd
  <1>3. CmdAwaited(r, conn[r][i])
    BY DEF ConnInv, ConnOK
  <1>4. s # None
    BY PipelineAssumption
  <1> QED  BY <1>2, <1>3, <1>4 DEF CmdAwaited, Waiting, WaitingPC

\* Whoever awaits the head of the pipeline has nothing else outstanding.
LEMMA HeadIsOnly ==
    ASSUME TypeOK, ConnInv, NEW r \in Replica, conn[r] # <<>>
    PROVE  /\ Head(conn[r]) \in Cmd
           /\ Head(conn[r]) = conn[r][1]
           /\ 1 \in 1 .. Len(conn[r])
           /\ CmdJustified(Head(conn[r])) /\ CmdAwaited(r, Head(conn[r]))
           /\ Tail(conn[r]) \in Seq(Cmd)
           /\ Len(Tail(conn[r])) = Len(conn[r]) - 1
           /\ \A i \in 1 .. Len(Tail(conn[r])) :
                /\ Tail(conn[r])[i] = conn[r][i + 1]
                /\ i + 1 \in 1 .. Len(conn[r])
                /\ Head(conn[r]).by # None => Tail(conn[r])[i].by # Head(conn[r]).by
  <1>1. conn[r] \in Seq(Cmd)
    BY DEF TypeOK
  <1>2. /\ Head(conn[r]) \in Cmd
        /\ Head(conn[r]) = conn[r][1]
        /\ Tail(conn[r]) \in Seq(Cmd)
        /\ Len(Tail(conn[r])) = Len(conn[r]) - 1
        /\ \A i \in 1 .. Len(Tail(conn[r])) : Tail(conn[r])[i] = conn[r][i + 1]
        /\ Len(conn[r]) \in Nat \ {0}
    BY <1>1, HeadTailProperties, EmptySeq
  <1>3. 1 \in 1 .. Len(conn[r])
    BY <1>2
  <1>4. CmdJustified(Head(conn[r])) /\ CmdAwaited(r, Head(conn[r]))
    BY <1>2, <1>3 DEF ConnInv, ConnOK
  <1>5. ASSUME NEW i \in 1 .. Len(Tail(conn[r]))
        PROVE  /\ i + 1 \in 1 .. Len(conn[r])
               /\ Head(conn[r]).by # None => Tail(conn[r])[i].by # Head(conn[r]).by
    <2>1. i + 1 \in 1 .. Len(conn[r]) /\ i + 1 # 1
      BY <1>2
    <2> QED  BY <1>2, <1>3, <2>1 DEF ConnInv, ConnOK, OneEach
  <1> QED  BY <1>2, <1>3, <1>4, <1>5

\* One replica's pipeline loses its head or not, then gains a command or not,
\* while only handlers without a command in what remains change.
LEMMA ConnStep ==
    ASSUME TypeOK, TypeOK', ConnInv, LedgerGrows, NEW r \in Replica,
           NEW p \in Seq(Cmd),
           p = conn[r] \/ (conn[r] # <<>> /\ p = Tail(conn[r])),
           \A x \in Replica \ {r} : conn'[x] = conn[x],
           \/ conn'[r] = p
           \/ \E c \in Cmd : /\ conn'[r] = Append(p, c)
                             /\ CmdJustified(c)' /\ CmdAwaited(r, c)'
                             /\ \A i \in 1 .. Len(p) : c.by # None => p[i].by # c.by,
           \A s \in Slot : pc'[s] # pc[s] \/ msg'[s] # msg[s] =>
               /\ \A i \in 1 .. Len(p) : p[i].by # s
               /\ Home[s] = r
    PROVE  ConnInv'
  <1>1. ASSUME NEW x \in Replica, NEW c \in Cmd, CmdJustified(c), CmdAwaited(x, c),
               c.by # None => pc'[c.by] = pc[c.by] /\ msg'[c.by] = msg[c.by]
        PROVE  CmdJustified(c)' /\ CmdAwaited(x, c)'
    <2>1. c.txn \in Txn
      BY DEF Cmd
    <2>2. CmdJustified(c)'
      BY <1>1, <2>1, Monotone DEF CmdJustified, LedgerGrows
    <2> QED  BY <1>1, <2>2 DEF CmdAwaited
  <1>2. ASSUME NEW x \in Replica, x # r
        PROVE  ConnOK(x, conn[x])'
    <2>1. conn'[x] = conn[x] /\ conn[x] \in Seq(Cmd)
      BY <1>2 DEF TypeOK
    <2>2. ASSUME NEW i \in 1 .. Len(conn[x])
          PROVE  (CmdJustified(conn[x][i]) /\ CmdAwaited(x, conn[x][i]))'
      <3>1. PICK c \in Cmd : c = conn[x][i]
        BY <2>1, ElementOfSeq
      <3>2. CmdJustified(c) /\ CmdAwaited(x, c)
        BY <3>1 DEF ConnInv, ConnOK
      <3>3. c.by # None => c.by \in Slot /\ Home[c.by] = x
        BY <3>2 DEF CmdAwaited, Cmd
      <3>4. c.by # None => pc'[c.by] = pc[c.by] /\ msg'[c.by] = msg[c.by]
        BY <3>3, <1>2
      <3>5. CmdJustified(c)' /\ CmdAwaited(x, c)'
        BY <1>1, <3>2, <3>4
      <3> QED  BY <3>5, <3>1, <2>1 DEF CmdJustified, CmdAwaited, Lifecycle!Justified
    <2>3. OneEach(conn[x])'
      BY <2>1 DEF ConnInv, ConnOK, OneEach
    <2> QED  BY <2>1, <2>2, <2>3 DEF ConnOK
  <1>3. ConnOK(r, conn[r])'
    <2>1. ASSUME NEW i \in 1 .. Len(p)
          PROVE  /\ p[i] \in Cmd
                 /\ CmdJustified(p[i])' /\ CmdAwaited(r, p[i])'
      <3>1. PICK c \in Cmd : c = p[i]
        BY ElementOfSeq
      <3>2. \E j \in 1 .. Len(conn[r]) : c = conn[r][j]
        <4>1. CASE p = conn[r]
          BY <4>1, <3>1
        <4>2. CASE conn[r] # <<>> /\ p = Tail(conn[r])
          <5>1. i \in 1 .. Len(Tail(conn[r]))
            BY <4>2
          <5>2. c = conn[r][i + 1] /\ i + 1 \in 1 .. Len(conn[r])
            BY <5>1, <4>2, <3>1, HeadIsOnly
          <5> QED  BY <5>2
        <4> QED  BY <4>1, <4>2
      <3>3. CmdJustified(c) /\ CmdAwaited(r, c)
        BY <3>2 DEF ConnInv, ConnOK, CmdJustified, CmdAwaited
      <3>4. c.by # None => c.by \in Slot
        BY DEF Cmd
      <3>5. c.by # None => pc'[c.by] = pc[c.by] /\ msg'[c.by] = msg[c.by]
        BY <3>1, <3>4
      <3> QED  BY <3>1, <3>3, <3>5, <1>1
    <2>2. OneEach(p)
      <3>1. CASE p = conn[r]
        BY <3>1 DEF ConnInv, ConnOK
      <3>2. CASE conn[r] # <<>> /\ p = Tail(conn[r])
        BY <3>2, HeadIsOnly DEF ConnInv, ConnOK, OneEach
      <3> QED  BY <3>1, <3>2
    <2>3. CASE conn'[r] = p
      BY <2>1, <2>2, <2>3
         DEF ConnOK, CmdJustified, CmdAwaited, Lifecycle!Justified
    <2>4. CASE \E c \in Cmd : /\ conn'[r] = Append(p, c)
                              /\ CmdJustified(c)' /\ CmdAwaited(r, c)'
                              /\ \A i \in 1 .. Len(p) : c.by # None => p[i].by # c.by
      <3>1. PICK c \in Cmd : /\ conn'[r] = Append(p, c)
                             /\ CmdJustified(c)' /\ CmdAwaited(r, c)'
                             /\ \A i \in 1 .. Len(p) : c.by # None => p[i].by # c.by
        BY <2>4
      <3>2. /\ Len(conn'[r]) = Len(p) + 1
            /\ \A i \in 1 .. Len(p) : conn'[r][i] = p[i]
            /\ conn'[r][Len(p) + 1] = c
            /\ Len(p) \in Nat
        BY <3>1, AppendProperties, LenProperties
      <3>3. ASSUME NEW i \in 1 .. Len(conn'[r])
            PROVE  (CmdJustified(conn[r][i]) /\ CmdAwaited(r, conn[r][i]))'
        <4>1. CASE i \in 1 .. Len(p)
          BY <4>1, <3>2, <2>1 DEF CmdJustified, CmdAwaited, Lifecycle!Justified
        <4>2. CASE i = Len(p) + 1
          BY <4>2, <3>1, <3>2 DEF CmdJustified, CmdAwaited, Lifecycle!Justified
        <4> QED  BY <3>2, <4>1, <4>2
      <3>4. OneEach(conn[r])'
        <4>1. SUFFICES ASSUME NEW i \in 1 .. Len(conn'[r]), NEW j \in 1 .. Len(conn'[r]),
                              i # j, conn'[r][i].by # None
                       PROVE  conn'[r][i].by # conn'[r][j].by
          BY DEF OneEach
        <4>2. i \in 1 .. Len(p) \/ i = Len(p) + 1
          BY <3>2
        <4>3. j \in 1 .. Len(p) \/ j = Len(p) + 1
          BY <3>2
        <4> QED  BY <4>1, <4>2, <4>3, <3>1, <3>2, <2>2 DEF OneEach
      <3> QED  BY <3>3, <3>4 DEF ConnOK
    <2> QED  BY <2>3, <2>4
  <1> QED  BY <1>2, <1>3 DEF ConnInv

\* Commands nobody waits for any more stay what they were to Redis.
LEMMA OrphansOK ==
    ASSUME TypeOK, ConnInv, NEW r \in Replica, NEW n \in 0 .. Len(conn[r])
    PROVE  /\ Orphaned(r, n) \in Seq(Cmd)
           /\ Len(Orphaned(r, n)) = n
           /\ \A i \in 1 .. n : /\ i \in 1 .. Len(conn[r])
                              /\ Orphaned(r, n)[i].by = None
                              /\ Orphaned(r, n)[i].op = conn[r][i].op
                              /\ CmdJustified(Orphaned(r, n)[i])
  <1>1. conn[r] \in Seq(Cmd) /\ Len(conn[r]) \in Nat
    BY LenProperties DEF TypeOK
  <1>2. ASSUME NEW i \in 1 .. n
        PROVE  /\ i \in 1 .. Len(conn[r])
               /\ [conn[r][i] EXCEPT !.by = None] \in Cmd
               /\ [conn[r][i] EXCEPT !.by = None].by = None
               /\ [conn[r][i] EXCEPT !.by = None].op = conn[r][i].op
               /\ CmdJustified([conn[r][i] EXCEPT !.by = None])
    <2>1. i \in 1 .. Len(conn[r])
      BY <1>1
    <2>2. PICK c \in Cmd : c = conn[r][i]
      BY <1>1, <2>1, ElementOfSeq
    <2>3. CmdJustified(c)
      BY <2>1, <2>2 DEF ConnInv, ConnOK, CmdJustified
    <2>4. PICK d : d = [c EXCEPT !.by = None]
      OBVIOUS
    <2>5. d \in Cmd /\ d.by = None /\ d.op = c.op /\ d.txn = c.txn /\ d.val = c.val
      BY <2>4 DEF Cmd
    <2>6. CmdJustified(d)
      BY <2>3, <2>5 DEF CmdJustified
    <2> QED  BY <2>1, <2>2, <2>4, <2>5, <2>6
  <1>3. Orphaned(r, n) \in [1 .. n -> Cmd]
    BY <1>2 DEF Orphaned
  <1>4. n \in Nat
    BY <1>1
  <1>5. Orphaned(r, n) \in Seq(Cmd) /\ Len(Orphaned(r, n)) = n
    BY <1>3, <1>4, SeqDef, LenProperties
  <1>6. \A i \in 1 .. n : Orphaned(r, n)[i] = [conn[r][i] EXCEPT !.by = None]
    BY DEF Orphaned
  <1> QED  BY <1>2, <1>5, <1>6

\* A replica whose replies are lost keeps its pipeline in order, whether the
\* client is gone, has given up or sends everything again.
LEMMA OrphanStep ==
    ASSUME TypeOK, ConnInv, UNCHANGED ledger, NEW r \in Replica,
           NEW n \in 0 .. Len(conn[r]),
           \A x \in Replica \ {r} : conn'[x] = conn[x],
           \A s \in Slot : Home[s] # r => pc'[s] = pc[s] /\ msg'[s] = msg[s],
           \/ conn'[r] = Orphaned(r, n)
           \/ conn'[r] = Orphaned(r, n) \o conn[r] /\ UNCHANGED <<pc, msg>>
    PROVE  conn'[r] \in Seq(Cmd) /\ ConnInv'
  <1>a. PICK q \in Seq(Cmd) : q = Orphaned(r, n)
    BY OrphansOK
  <1>b. PICK l \in Seq(Cmd) : l = conn[r]
    BY DEF TypeOK
  <1>1. /\ Len(q) = n /\ n \in Nat /\ Len(l) \in Nat
        /\ \A i \in 1 .. n : q[i] \in Cmd /\ q[i].by = None /\ CmdJustified(q[i])
    <2>1. Len(q) = n /\ Len(l) \in Nat /\ n \in Nat
      BY <1>a, <1>b, OrphansOK, LenProperties
    <2>2. ASSUME NEW i \in 1 .. n
          PROVE  q[i] \in Cmd /\ q[i].by = None /\ CmdJustified(q[i])
      <3>1. q[i] \in Cmd
        BY <2>1, ElementOfSeq
      <3> QED  BY <3>1, <1>a, OrphansOK DEF CmdJustified
    <2> QED  BY <2>1, <2>2
  <1>2. ASSUME NEW c \in Cmd, CmdJustified(c)
        PROVE  CmdJustified(c)'
    BY <1>2 DEF CmdJustified, Lifecycle!Justified, ledger
  <1>3. ASSUME NEW x \in Replica, x # r \/ UNCHANGED <<pc, msg>>,
               NEW i \in 1 .. Len(conn[x]), NEW c \in Cmd, c = conn[x][i]
        PROVE  CmdJustified(c)' /\ CmdAwaited(x, c)'
    <2>1. CmdJustified(c) /\ CmdAwaited(x, c)
      BY <1>3 DEF ConnInv, ConnOK, CmdJustified, CmdAwaited
    <2>2. c.by # None => c.by \in Slot /\ Home[c.by] = x
      BY <2>1 DEF CmdAwaited, Cmd
    <2>3. CmdAwaited(x, c)'
      BY <1>3, <2>1, <2>2 DEF CmdAwaited
    <2> QED  BY <1>2, <2>1, <2>3
  <1>4. ASSUME NEW x \in Replica, x # r
        PROVE  ConnOK(x, conn[x])'
    <2>1. conn'[x] = conn[x] /\ OneEach(conn[x])'
      BY <1>4 DEF ConnInv, ConnOK, OneEach
    <2>2. ASSUME NEW i \in 1 .. Len(conn[x])
          PROVE  (CmdJustified(conn[x][i]) /\ CmdAwaited(x, conn[x][i]))'
      <3>1. PICK c \in Cmd : c = conn[x][i]
        BY ElementOfSeq DEF TypeOK
      <3> QED  BY <1>3, <1>4, <2>1, <3>1
               DEF CmdJustified, CmdAwaited, Lifecycle!Justified
    <2> QED  BY <2>1, <2>2 DEF ConnOK
  <1>5. ASSUME NEW i \in 1 .. n
        PROVE  CmdJustified(q[i])' /\ CmdAwaited(r, q[i])'
    <2>1. PICK c \in Cmd : c = q[i]
      BY <1>1
    <2>2. CmdJustified(c) /\ c.by = None
      BY <1>1, <2>1 DEF CmdJustified
    <2>3. CmdJustified(c)' /\ CmdAwaited(r, c)'
      BY <1>2, <2>2 DEF CmdAwaited
    <2> QED  BY <2>1, <2>3
  <1>6. CASE conn'[r] = q
    <2>1. ConnOK(r, conn[r])'
      BY <1>1, <1>5, <1>6
         DEF ConnOK, OneEach, CmdJustified, CmdAwaited, Lifecycle!Justified
    <2> QED  BY <1>1, <1>4, <1>6, <2>1 DEF ConnInv
  <1>7. CASE conn'[r] = q \o l /\ UNCHANGED <<pc, msg>>
    <2>1. PICK w : w = q \o l
      OBVIOUS
    <2>2. /\ w \in Seq(Cmd) /\ Len(w) = n + Len(l)
          /\ \A i \in 1 .. n + Len(l) : w[i] = IF i <= n THEN q[i] ELSE l[i - n]
      <3>1. /\ q \o l \in Seq(Cmd) /\ Len(q \o l) = Len(q) + Len(l)
            /\ \A i \in 1 .. Len(q) + Len(l) :
                   (q \o l)[i] = IF i <= Len(q) THEN q[i] ELSE l[i - Len(q)]
        BY ConcatProperties
      <3> QED  BY <1>1, <2>1, <3>1
    <2>3. ASSUME NEW i \in 1 .. Len(w)
          PROVE  CmdJustified(w[i])' /\ CmdAwaited(r, w[i])'
      <3>1. CASE i <= n
        BY <1>1, <1>5, <2>2, <3>1 DEF CmdJustified, CmdAwaited, Lifecycle!Justified
      <3>2. CASE i > n
        <4>1. i - n \in 1 .. Len(l) /\ w[i] = l[i - n]
          BY <1>1, <2>2, <3>2
        <4>2. PICK c \in Cmd : c = l[i - n]
          BY <1>1, <4>1, ElementOfSeq
        <4>3. CmdJustified(c)' /\ CmdAwaited(r, c)'
          BY <1>3, <1>7, <1>b, <4>1, <4>2
        <4> QED  BY <4>1, <4>2, <4>3
      <3> QED  BY <1>1, <2>2, <3>1, <3>2
    <2>4. OneEach(w)
      <3>1. SUFFICES ASSUME NEW i \in 1 .. Len(w), NEW j \in 1 .. Len(w),
                            i # j, w[i].by # None
                     PROVE  w[i].by # w[j].by
        BY DEF OneEach
      <3>2. i > n /\ i - n \in 1 .. Len(l) /\ w[i] = l[i - n]
        BY <1>1, <2>2, <3>1
      <3>3. CASE j <= n
        BY <1>1, <2>2, <3>1, <3>3
      <3>4. CASE j > n
        <4>1. j - n \in 1 .. Len(l) /\ w[j] = l[j - n] /\ i - n # j - n
          BY <1>1, <2>2, <3>1, <3>4
        <4>2. OneEach(l)
          BY <1>b DEF ConnInv, ConnOK
        <4>3. PICK x \in 1 .. Len(l), y \in 1 .. Len(l) : x = i - n /\ y = j - n
          BY <3>2, <4>1
        <4>4. x # y /\ l[x].by # None
          BY <3>1, <3>2, <4>1, <4>3
        <4>5. l[x].by # l[y].by
          BY <4>2, <4>4 DEF OneEach
        <4> QED  BY <3>2, <4>1, <4>3, <4>5
      <3> QED  BY <1>1, <2>2, <3>3, <3>4
    <2>5. conn'[r] = w
      BY <1>7, <2>1
    <2>6. ConnOK(r, w)'
      BY <2>1, <2>3, <2>4, <1>7
         DEF ConnOK, OneEach, CmdJustified, CmdAwaited, Lifecycle!Justified
    <2>7. ConnOK(r, conn[r])'
      BY <2>5, <2>6 DEF ConnOK, OneEach, CmdJustified, CmdAwaited, Lifecycle!Justified
    <2> QED  BY <1>4, <2>2, <2>5, <2>7 DEF ConnInv
  <1> QED  BY <1>6, <1>7, <1>a, <1>b

-----------------------------------------------------------------------------
(* Steps of one handler *)

\* Queues stay in order if every message that a step adds has earned its queue.
LEMMA QueueStep ==
    ASSUME TypeOK, TypeOK', QueueInv, LedgerGrows,
           \A m \in Msg : ready'[m] > ready[m] => Earned(m.queue, m.txn)'
    PROVE  QueueInv'
  <1>1. SUFFICES ASSUME NEW m \in Msg, ready'[m] > 0
                 PROVE  Earned(m.queue, m.txn)'
    BY DEF QueueInv
  <1>2. ready[m] \in Nat /\ ready'[m] \in Nat
    BY DEF TypeOK
  <1>3. ready'[m] > ready[m] \/ ready[m] > 0
    BY <1>1, <1>2
  <1> QED  BY <1>3, WorkerOfMsg, Monotone DEF QueueInv

LEMMA QueueSame ==
    ASSUME TypeOK, TypeOK', QueueInv, LedgerGrows, ready' = ready
    PROVE  QueueInv'
  <1>1. \A m \in Msg : ready[m] \in Nat
    BY DEF TypeOK
  <1> QED  BY <1>1, QueueStep

\* Handlers stay in order if each one that a step changes does; the others
\* may at most lose their hold on the delivery.
LEMMA SlotStep ==
    ASSUME TypeOK, TypeOK', SlotInv, LedgerGrows,
           \A s \in Slot : \/ SlotOK(s)'
                           \/ /\ pc'[s] = pc[s]
                              /\ msg'[s] = msg[s]
                              /\ verdict'[s] = verdict[s]
                              /\ held'[s] => held[s]
    PROVE  SlotInv'
  <1>1. SUFFICES ASSUME NEW s \in Slot,
                        pc'[s] = pc[s], msg'[s] = msg[s],
                        verdict'[s] = verdict[s], held'[s] => held[s]
                 PROVE  SlotOK(s)'
    BY DEF SlotInv
  <1>2. SlotOK(s)
    BY DEF SlotInv
  <1>3. CASE pc[s] = "idle"
    BY <1>1, <1>2, <1>3 DEF SlotOK, FraudPC, DecidedPC
  <1>4. CASE pc[s] # "idle"
    <2>1. msg[s] \in Msg /\ msg[s].queue \in Worker /\ msg[s].txn \in Txn
      BY <1>2, <1>4, WorkerOfMsg DEF SlotOK
    <2>2. Earned(msg[s].queue, msg[s].txn) => Earned(msg[s].queue, msg[s].txn)'
      BY <1>1, <2>1, Monotone DEF Earned, LedgerGrows, TypeOK
    <2>3. ASSUME pc[s] \in DecidedPC
          PROVE  Supported(msg[s].queue, verdict[s], msg[s].txn)'
      BY <1>1, <1>2, <2>1, <2>3, Monotone DEF Supported, LedgerGrows, TypeOK, SlotOK
    <2> QED  BY <1>1, <1>2, <1>4, <2>1, <2>2, <2>3 DEF SlotOK, Terminal
  <1> QED  BY <1>3, <1>4

\* The types Decide leaves behind.
LEMMA DecideType ==
    ASSUME TypeOK, NEW s \in Slot, NEW m \in Msg, NEW v \in Verdict,
           NEW p \in Seq(Cmd), Decide(s, m, v, p)
    PROVE  /\ pc' \in [Slot -> PC]
           /\ verdict' \in [Slot -> Verdict \cup {None}]
           /\ conn' \in [Replica -> Seq(Cmd)]
           /\ \/ pc'[s] = "nack" /\ conn'[Home[s]] = p
              \/ LET c == Set(m.txn, Written(m.queue, v), s) IN
                   /\ pc'[s] = "store" /\ c \in Cmd
                   /\ conn'[Home[s]] = Append(p, c)
           /\ \A x \in Slot \ {s} : pc'[x] = pc[x] /\ verdict'[x] = verdict[x]
           /\ verdict'[s] = v
           /\ \A r \in Replica \ {Home[s]} : conn'[r] = conn[r]
  <1>1. Home[s] \in Replica
    BY PipelineAssumption
  <1>2. Set(m.txn, Written(m.queue, v), s) \in Cmd
    BY WorkerOfMsg, WrittenType DEF Set, Cmd
  <1>3. Append(p, Set(m.txn, Written(m.queue, v), s)) \in Seq(Cmd)
    BY <1>2, AppendProperties
  <1> QED  BY <1>1, <1>2, <1>3 DEF Decide, TypeOK, PC

\* A decision that its message and the ledger support keeps the handlers and
\* the pipelines in order.
LEMMA DecideStep ==
    ASSUME TypeOK, TypeOK', SlotInv, ConnInv, LedgerInv', LedgerGrows,
           NEW s \in Slot, NEW m \in Msg, NEW v \in Verdict,
           NEW p \in Seq(Cmd), Decide(s, m, v, p),
           \/ p = conn[Home[s]]
           \/ conn[Home[s]] # <<>> /\ p = Tail(conn[Home[s]]),
           \A i \in 1 .. Len(p) : p[i].by # s,
           msg'[s] = m,
           \A x \in Slot \ {s} : msg'[x] = msg[x] /\ held'[x] = held[x],
           Earned(m.queue, m.txn)', Supported(m.queue, v, m.txn)'
    PROVE  SlotInv' /\ ConnInv'
  <1>1. Home[s] \in Replica /\ s # None
    BY PipelineAssumption
  <1>2. m.queue \in Worker /\ m.txn \in Txn
    BY WorkerOfMsg
  <1>3. SlotOK(s)'
    BY <1>2, DecideType DEF SlotOK, Earned, Supported, FraudPC, DecidedPC
  <1>4. SlotInv'
    BY <1>3, DecideType, SlotStep
  <1>5. \/ conn'[Home[s]] = p
        \/ \E c \in Cmd : /\ conn'[Home[s]] = Append(p, c)
                          /\ CmdJustified(c)' /\ CmdAwaited(Home[s], c)'
                          /\ \A i \in 1 .. Len(p) : c.by # None => p[i].by # c.by
    <2>1. SUFFICES ASSUME conn'[Home[s]] # p
                   PROVE  \E c \in Cmd : /\ conn'[Home[s]] = Append(p, c)
                                         /\ CmdJustified(c)' /\ CmdAwaited(Home[s], c)'
                                         /\ \A i \in 1 .. Len(p) : c.by # None => p[i].by # c.by
      OBVIOUS
    <2> DEFINE c == Set(m.txn, Written(m.queue, v), s)
    <2>2. pc'[s] = "store" /\ c \in Cmd /\ conn'[Home[s]] = Append(p, c)
      BY <2>1, DecideType
    <2>3. Lifecycle!Justified(m.txn, Written(m.queue, v))'
      BY <1>2 DEF Worker, Verdict, LedgerInv, Lifecycle!MilestonesInOrder, Earned,
                  Supported, Written, Lifecycle!Justified
    <2>4. CmdJustified(c)'
      BY <2>3 DEF CmdJustified, Set
    <2>5. CmdAwaited(Home[s], c)'
      BY <2>2 DEF CmdAwaited, Set, Waiting
    <2>6. \A i \in 1 .. Len(p) : c.by # None => p[i].by # c.by
      BY DEF Set
    <2> QED  BY <2>2, <2>4, <2>5, <2>6
  <1>6. \A x \in Slot : pc'[x] # pc[x] \/ msg'[x] # msg[x] =>
            (\A i \in 1 .. Len(p) : p[i].by # x) /\ Home[x] = Home[s]
    BY DecideType
  <1>7. \A x \in Replica \ {Home[s]} : conn'[x] = conn[x]
    BY DecideType
  <1>8. ConnInv'
    BY <1>1, <1>5, <1>6, <1>7, ConnStep
  <1> QED  BY <1>4, <1>8

\* A handler that awaits no command is named by none.
LEMMA NotWaiting ==
    ASSUME TypeOK, ConnInv, NEW s \in Slot, pc[s] \notin WaitingPC
    PROVE  \A r \in Replica : \A i \in 1 .. Len(conn[r]) : conn[r][i].by # s
  BY Awaiting

\* Nothing the invariants about Redis and the ledger speak of has changed.
LEMMA LedgerSame ==
    ASSUME UNCHANGED ledger
    PROVE  /\ LedgerGrows \/ ~TypeOK
           /\ CacheInv /\ UNCHANGED fraudCache => CacheInv'
           /\ LedgerInv /\ UNCHANGED store => LedgerInv'
  <1>1. TypeOK => LedgerGrows
    BY DEF TypeOK, LedgerGrows, ledger
  <1>2. CacheInv /\ UNCHANGED fraudCache => CacheInv'
    BY DEF CacheInv, ledger
  <1>3. LedgerInv /\ UNCHANGED store => LedgerInv'
    BY DEF LedgerInv, ledger, Lifecycle!MilestonesInOrder,
           Lifecycle!StoreTellsNoLie, Lifecycle!Justified
  <1> QED  BY <1>1, <1>2, <1>3

\* A step of one handler that issues no command and ends or goes on.
LEMMA QuietStep ==
    ASSUME TypeOK, TypeOK', ConnInv, LedgerGrows, UNCHANGED conn,
           NEW s \in Slot, pc[s] \notin WaitingPC,
           \A x \in Slot \ {s} : pc'[x] = pc[x] /\ msg'[x] = msg[x]
    PROVE  ConnInv'
  <1>1. Home[s] \in Replica /\ conn[Home[s]] \in Seq(Cmd)
    BY PipelineAssumption DEF TypeOK
  <1>2. PICK p \in Seq(Cmd) : p = conn[Home[s]]
    BY <1>1
  <1>3. \A i \in 1 .. Len(p) : p[i].by # s
    BY <1>1, <1>2, NotWaiting
  <1>4. conn'[Home[s]] = p
    BY <1>2
  <1>5. \A x \in Slot : pc'[x] # pc[x] \/ msg'[x] # msg[x] =>
            (\A i \in 1 .. Len(p) : p[i].by # x) /\ Home[x] = Home[s]
    BY <1>3
  <1> QED  BY <1>1, <1>2, <1>4, <1>5, ConnStep

\* What every delivery does to the broker's view.
LEMMA TakeStep ==
    ASSUME TypeOK, QueueInv, NEW s \in Slot, NEW m \in Msg, Take(s, m)
    PROVE  /\ ready' \in [Msg -> Nat]
           /\ msg' \in [Slot -> Msg \cup {None}]
           /\ held' \in [Slot -> BOOLEAN]
           /\ Earned(m.queue, m.txn)
           /\ \A n \in Msg : ready'[n] <= ready[n]
           /\ msg'[s] = m
           /\ \A x \in Slot \ {s} : msg'[x] = msg[x] /\ held'[x] = held[x]
  BY DEF Take, TypeOK, QueueInv

\* A delivery adds nothing to a queue.
LEMMA TakeQueue ==
    ASSUME TypeOK, TypeOK', QueueInv, LedgerGrows, NEW s \in Slot, NEW m \in Msg,
           Take(s, m)
    PROVE  QueueInv'
  <1>1. \A n \in Msg : ready'[n] <= ready[n]
    BY TakeStep
  <1>2. \A n \in Msg : ~(ready'[n] > ready[n])
    BY <1>1 DEF TypeOK
  <1> QED  BY <1>2, QueueStep

\* A slot that takes a delivery has been idle and waits for nothing.
LEMMA TakeSlot ==
    ASSUME TypeOK, TypeOK', QueueInv, SlotInv, LedgerGrows,
           NEW s \in Slot, NEW m \in Msg, Take(s, m), SlotOK(s)',
           \A x \in Slot \ {s} : pc'[x] = pc[x] /\ verdict'[x] = verdict[x]
    PROVE  SlotInv'
  <1>1. \A x \in Slot \ {s} : msg'[x] = msg[x] /\ held'[x] = held[x]
    BY TakeStep
  <1> QED  BY <1>1, SlotStep

\* A handler appends the one command it awaits from now on.
LEMMA IssueStep ==
    ASSUME TypeOK, TypeOK', ConnInv, LedgerGrows, NEW s \in Slot, NEW c \in Cmd,
           c.by = s, pc[s] \notin WaitingPC,
           conn' = [conn EXCEPT ![Home[s]] = Append(@, c)],
           CmdJustified(c)', CmdAwaited(Home[s], c)',
           \A x \in Slot \ {s} : pc'[x] = pc[x] /\ msg'[x] = msg[x]
    PROVE  ConnInv'
  <1>1. PICK r \in Replica : r = Home[s]
    BY PipelineAssumption
  <1>2. PICK p \in Seq(Cmd) : p = conn[r]
    BY <1>1 DEF TypeOK
  <1>3. \A i \in 1 .. Len(p) : p[i].by # s
    BY <1>1, <1>2, NotWaiting
  <1>4. /\ conn'[r] = Append(p, c)
        /\ \A x \in Replica \ {r} : conn'[x] = conn[x]
    BY <1>1, <1>2 DEF TypeOK
  <1>5. \E d \in Cmd : /\ conn'[r] = Append(p, d)
                       /\ CmdJustified(d)' /\ CmdAwaited(r, d)'
                       /\ \A i \in 1 .. Len(p) : d.by # None => p[i].by # d.by
    BY <1>1, <1>3, <1>4
  <1>6. \A x \in Slot : pc'[x] # pc[x] \/ msg'[x] # msg[x] =>
            (\A i \in 1 .. Len(p) : p[i].by # x) /\ Home[x] = r
    BY <1>1, <1>3
  <1> QED  BY <1>2, <1>4, <1>5, <1>6, ConnStep

\* Delivery to the validation worker: the verdict is known at once.
LEMMA DeliverValidationInv ==
    ASSUME InductiveInv, NEW s \in Slot, NEW m \in Msg, DeliverValidation(s, m)
    PROVE  InductiveInv'
  <1> USE DEF InductiveInv
  <1>1. Take(s, m) /\ m.queue = "validation" /\ m.txn \in Txn
    BY WorkerOfMsg DEF DeliverValidation
  <1>2. PICK p \in Seq(Cmd) : p = conn[Home[s]]
    BY PipelineAssumption DEF TypeOK
  <1>3. PICK v \in Verdict : v = Validated(m.txn)
    BY DEF Validated, Verdict
  <1>4. Decide(s, m, v, p)
    BY <1>2, <1>3 DEF DeliverValidation
  <1>5. TypeOK'
    BY <1>1, <1>4, DecideType, TakeStep DEF DeliverValidation, TypeOK, ledger
  <1>6. LedgerGrows /\ CacheInv' /\ LedgerInv'
    BY LedgerSame DEF DeliverValidation
  <1>7. QueueInv'
    BY <1>1, <1>5, <1>6, TakeQueue
  <1>8. \A i \in 1 .. Len(p) : p[i].by # s
    BY <1>1, <1>2, NotWaiting, PipelineAssumption DEF Take, WaitingPC
  <1>9. Earned(m.queue, m.txn)' /\ Supported(m.queue, v, m.txn)'
    BY <1>1, <1>3 DEF Earned, Supported, Validated
  <1>10. SlotInv' /\ ConnInv'
    BY <1>1, <1>2, <1>4, <1>5, <1>6, <1>8, <1>9, DecideStep, TakeStep
  <1> QED  BY <1>5, <1>6, <1>7, <1>10

\* Delivery to the fraud-check worker, which looks the decision up in Redis.
LEMMA DeliverFraudCheckInv ==
    ASSUME InductiveInv, NEW s \in Slot, NEW m \in Msg, DeliverFraudCheck(s, m)
    PROVE  InductiveInv'
  <1> USE DEF InductiveInv
  <1>1. Take(s, m) /\ m.queue = "fraud_check" /\ m.txn \in Txn
    BY WorkerOfMsg DEF DeliverFraudCheck
  <1>2. PICK c \in Cmd : c = Get(m.txn, s)
    BY <1>1 DEF Get, Cmd
  <1>3. /\ pc' = [pc EXCEPT ![s] = "fraudGet"]
        /\ conn' = [conn EXCEPT ![Home[s]] = Append(@, c)]
        /\ UNCHANGED <<dead, verdict, store, fraudCache, link, used, closed, faults>>
        /\ UNCHANGED ledger
    BY <1>2 DEF DeliverFraudCheck
  <1>4. conn' \in [Replica -> Seq(Cmd)]
    BY <1>3, AppendProperties DEF TypeOK
  <1>5. TypeOK'
    BY <1>1, <1>3, <1>4, TakeStep DEF TypeOK, ledger, PC
  <1>6. LedgerGrows /\ CacheInv' /\ LedgerInv'
    BY <1>3, LedgerSame
  <1>7. QueueInv'
    BY <1>1, <1>5, <1>6, TakeQueue
  <1>8. pc'[s] = "fraudGet" /\ msg'[s] = m
    BY <1>1, <1>3, TakeStep DEF TypeOK
  <1>9. Earned(m.queue, m.txn)'
    BY <1>1, <1>3, TakeStep DEF Earned, ledger
  <1>10. SlotOK(s)'
    BY <1>1, <1>8, <1>9 DEF SlotOK, Earned, FraudPC, DecidedPC
  <1>11. SlotInv'
    BY <1>1, <1>3, <1>5, <1>6, <1>10, TakeSlot
  <1>12. c.by = s /\ c.op = "get" /\ c.txn = m.txn
    BY <1>2 DEF Get
  <1>13. CmdJustified(c)' /\ CmdAwaited(Home[s], c)'
    BY <1>8, <1>12 DEF CmdJustified, CmdAwaited, Waiting
  <1>14. pc[s] \notin WaitingPC
    BY <1>1 DEF Take, WaitingPC
  <1>15. \A x \in Slot \ {s} : pc'[x] = pc[x] /\ msg'[x] = msg[x]
    BY <1>1, <1>3, TakeStep
  <1>16. ConnInv'
    BY <1>3, <1>5, <1>6, <1>12, <1>13, <1>14, <1>15, IssueStep
  <1> QED  BY <1>5, <1>6, <1>7, <1>11, <1>16

\* The two deliveries that go on to await an outside service.
LEMMA DeliverToServiceInv ==
    ASSUME InductiveInv, NEW s \in Slot, NEW m \in Msg,
           DeliverProcessing(s, m) \/ DeliverSettlement(s, m)
    PROVE  InductiveInv'
  <1> USE DEF InductiveInv
  <1>1. /\ Take(s, m)
        /\ UNCHANGED <<dead, verdict, redis, link, ledger, closed, faults>>
        /\ used' = used \/ (/\ used' = [used EXCEPT ![Home[s]] = @ + 1]
                           /\ used[Home[s]] < MaxRate)
    BY DEF DeliverProcessing, DeliverSettlement, Admits
  <1>2. \/ m.queue = "processing" /\ pc' = [pc EXCEPT ![s] = "acquirer"]
        \/ m.queue = "settlement" /\ pc' = [pc EXCEPT ![s] = "settle"]
    BY DEF DeliverProcessing, DeliverSettlement
  <1>3. used' \in [Replica -> 0 .. MaxRate + 1]
    <2>1. /\ MaxRate \in Nat /\ Home[s] \in Replica
          /\ used \in [Replica -> 0 .. MaxRate + 1]
      BY PipelineAssumption DEF TypeOK
    <2>2. used[Home[s]] < MaxRate => used[Home[s]] + 1 \in 0 .. MaxRate + 1
      BY <2>1
    <2> QED  BY <1>1, <2>1, <2>2
  <1>4. TypeOK'
    BY <1>1, <1>2, <1>3, TakeStep DEF TypeOK, ledger, redis, PC
  <1>5. LedgerGrows /\ CacheInv' /\ LedgerInv'
    BY <1>1, LedgerSame DEF redis
  <1>6. QueueInv'
    BY <1>1, <1>4, <1>5, TakeQueue
  <1>7. SlotOK(s)'
    BY <1>1, <1>2, TakeStep DEF SlotOK, Earned, FraudPC, DecidedPC, ledger, TypeOK
  <1>8. SlotInv'
    BY <1>1, <1>2, <1>4, <1>5, <1>7, TakeStep, SlotStep, SMTT(30) DEF TypeOK
  <1>9. pc[s] \notin WaitingPC
    BY <1>1 DEF Take, WaitingPC
  <1>10. ConnInv'
    BY <1>1, <1>2, <1>4, <1>5, <1>9, TakeStep, QuietStep DEF redis, TypeOK
  <1> QED  BY <1>4, <1>5, <1>6, <1>8, <1>10

\* Redis executes a setTransaction and its handler goes on.
LEMMA StoreReplyInv ==
    ASSUME InductiveInv, NEW r \in Replica, StoreReply(r)
    PROVE  InductiveInv'
  <1> USE DEF InductiveInv
  <1>1. conn[r] # <<>> /\ Head(conn[r]).op = "set"
    BY DEF StoreReply, Outstanding
  <1>2. PICK c \in Cmd : c = Head(conn[r])
    BY <1>1, HeadIsOnly
  <1>3. /\ c.op = "set" /\ c.txn \in Txn /\ c.val \in Status
        /\ c.by \in Slot \cup {None}
    BY <1>1, <1>2 DEF Cmd
  <1>4. /\ Lifecycle!Justified(c.txn, c.val)
        /\ c.by # None => pc[c.by] = "store" /\ Home[c.by] = r
    BY <1>1, <1>2, <1>3, HeadIsOnly DEF CmdJustified, CmdAwaited, Waiting
  <1>5. c.by # None => /\ msg[c.by].queue \in Worker
                       /\ verdict[c.by] \in Verdict
    BY <1>3, <1>4, WorkerOfMsg DEF SlotInv, SlotOK, DecidedPC
  <1>6. /\ store' = [store EXCEPT ![c.txn] = c.val]
        /\ pc' = IF c.by = None THEN pc
                 ELSE [pc EXCEPT ![c.by] = AfterStore(msg[c.by].queue, verdict[c.by])]
        /\ conn' = [conn EXCEPT ![r] = Tail(conn[r])]
    BY <1>2 DEF StoreReply
  <1>7. PICK p \in Seq(Cmd) : p = Tail(conn[r])
    BY <1>1, HeadIsOnly
  <1>8. /\ store' \in [Txn -> Status \cup {"NONE"}]
         /\ pc' \in [Slot -> PC]
         /\ conn' \in [Replica -> Seq(Cmd)]
    <2>1. conn' \in [Replica -> Seq(Cmd)]
      BY <1>6, <1>7 DEF TypeOK
    <2>2. pc' \in [Slot -> PC]
      BY <1>3, <1>5, <1>6, AfterStorePC DEF TypeOK, PC
    <2> QED  BY <1>3, <1>6, <2>1, <2>2 DEF TypeOK
  <1>9. TypeOK'
    BY <1>8 DEF StoreReply, TypeOK, ledger
  <1>10. LedgerGrows /\ CacheInv'
    BY LedgerSame DEF StoreReply
  <1>11. LedgerInv'
    BY <1>3, <1>4, <1>6 DEF StoreReply, ledger, LedgerInv, TypeOK,
           Lifecycle!MilestonesInOrder, Lifecycle!StoreTellsNoLie, Lifecycle!Justified
  <1>12. QueueInv'
    BY <1>9, <1>10, QueueSame DEF StoreReply
  <1>13. c.by # None => SlotOK(c.by)'
    <2>1. SUFFICES ASSUME NEW s \in Slot, s = c.by, c.by # None
                   PROVE  SlotOK(s)'
      BY <1>3
    <2>2. /\ pc'[s] = AfterStore(msg[s].queue, verdict[s])
          /\ UNCHANGED <<msg, verdict, ledger>>
      BY <2>1, <1>6 DEF StoreReply, TypeOK
    <2>3. /\ pc'[s] \in {"publish", "notify", "ack"}
          /\ pc'[s] = "publish" => ~Terminal(msg[s].queue, verdict[s])
      BY <2>1, <2>2, <1>5, AfterStorePC
    <2>4. /\ msg[s] \in Msg /\ Earned(msg[s].queue, msg[s].txn)
          /\ verdict[s] \in Verdict
          /\ Supported(msg[s].queue, verdict[s], msg[s].txn)
      BY <2>1, <1>4 DEF SlotInv, SlotOK, DecidedPC
    <2>5. Earned(msg[s].queue, msg[s].txn)' /\ Supported(msg[s].queue, verdict[s], msg[s].txn)'
      BY <2>2, <2>4 DEF ledger, Earned, Supported
    <2> QED  BY <2>2, <2>3, <2>4, <2>5 DEF SlotOK, FraudPC, DecidedPC, Terminal
  <1>14. SlotInv'
    BY <1>3, <1>6, <1>9, <1>10, <1>13, SlotStep DEF StoreReply, TypeOK
  <1>15. \A x \in Slot : pc'[x] # pc[x] \/ msg'[x] # msg[x] =>
             (\A i \in 1 .. Len(p) : p[i].by # x) /\ Home[x] = r
    BY <1>1, <1>2, <1>3, <1>4, <1>6, <1>7, HeadIsOnly DEF StoreReply, TypeOK
  <1>16. /\ conn'[r] = p
         /\ \A x \in Replica \ {r} : conn'[x] = conn[x]
    BY <1>6, <1>7 DEF TypeOK
  <1>17. ConnInv'
    BY <1>1, <1>7, <1>9, <1>10, <1>15, <1>16, ConnStep
  <1> QED  BY <1>9, <1>10, <1>11, <1>12, <1>14, <1>17

\* Redis answers a command nobody waits for: only its pipeline is shorter.
LEMMA PopStep ==
    ASSUME TypeOK, TypeOK', ConnInv, LedgerGrows, UNCHANGED <<pc, msg>>,
           NEW r \in Replica, conn[r] # <<>>,
           conn' = [conn EXCEPT ![r] = Tail(conn[r])]
    PROVE  ConnInv'
  <1>1. PICK p \in Seq(Cmd) : p = Tail(conn[r])
    BY HeadIsOnly
  <1>2. /\ conn'[r] = p
        /\ \A x \in Replica \ {r} : conn'[x] = conn[x]
    BY <1>1 DEF TypeOK
  <1>3. \A x \in Slot : pc'[x] = pc[x] /\ msg'[x] = msg[x]
    OBVIOUS
  <1> QED  BY <1>1, <1>2, <1>3, ConnStep

\* Redis answers getFraudResult with a cached decision or with none.
LEMMA FraudLookupReplyInv ==
    ASSUME InductiveInv, NEW r \in Replica, FraudLookupReply(r)
    PROVE  InductiveInv'
  <1> USE DEF InductiveInv
  <1>1. conn[r] # <<>> /\ Head(conn[r]).op = "get"
    BY DEF FraudLookupReply, Outstanding
  <1>2. PICK c \in Cmd : c = Head(conn[r])
    BY <1>1, HeadIsOnly
  <1>3. c.op = "get" /\ c.txn \in Txn /\ c.by \in Slot \cup {None}
    BY <1>1, <1>2 DEF Cmd
  <1>9. UNCHANGED <<ready, dead, msg, held, store, fraudCache, link, used,
                    ledger, closed, faults>>
    BY DEF FraudLookupReply
  <1>10. LedgerGrows /\ CacheInv' /\ LedgerInv'
    BY <1>9, LedgerSame
  <1>0. CASE c.by = None
    <2>1. UNCHANGED <<pc, verdict>> /\ conn' = [conn EXCEPT ![r] = Tail(conn[r])]
      BY <1>0, <1>2 DEF FraudLookupReply
    <2>2. Tail(conn[r]) \in Seq(Cmd)
      BY <1>1, HeadIsOnly
    <2>3. TypeOK'
      BY <1>9, <2>1, <2>2 DEF TypeOK, ledger
    <2>4. ConnInv'
      BY <1>1, <1>9, <1>10, <2>1, <2>3, PopStep
    <2>5. QueueInv' /\ SlotInv'
      BY <1>9, <1>10, <2>1, <2>3, QueueSame, SlotStep
    <2> QED  BY <1>10, <2>3, <2>4, <2>5
  <1> SUFFICES ASSUME c.by # None
               PROVE  InductiveInv'
    BY <1>0
  <1>4. PICK s \in Slot : s = c.by
    BY <1>3
  <1>5. pc[s] = "fraudGet" /\ Home[s] = r /\ msg[s].txn = c.txn
    BY <1>1, <1>2, <1>3, <1>4, HeadIsOnly DEF CmdAwaited, Waiting
  <1>6. /\ msg[s] \in Msg /\ msg[s].queue = "fraud_check"
        /\ Earned(msg[s].queue, msg[s].txn)
    BY <1>5 DEF SlotInv, SlotOK, FraudPC
  <1>7. PICK p \in Seq(Cmd) : p = Tail(conn[r])
    BY <1>1, HeadIsOnly
  <1>8. \A i \in 1 .. Len(p) : p[i].by # s
    BY <1>1, <1>2, <1>3, <1>4, <1>7, HeadIsOnly
  <1>11. CASE fraudCache[c.txn] = None
    <2>1. /\ pc' = [pc EXCEPT ![s] = "fraudCall"]
          /\ conn' = [conn EXCEPT ![r] = p]
          /\ UNCHANGED verdict
      BY <1>2, <1>4, <1>7, <1>11 DEF FraudLookupReply
    <2>2. TypeOK'
      BY <1>9, <2>1 DEF TypeOK, PC, ledger
    <2>3. pc'[s] = "fraudCall" /\ msg'[s] = msg[s]
      BY <2>1, <1>9 DEF TypeOK
    <2>4. SlotOK(s)'
      BY <1>6, <1>9, <2>3 DEF SlotOK, Earned, FraudPC, DecidedPC, ledger
    <2>5. SlotInv'
      BY <1>9, <1>10, <2>1, <2>2, <2>4, SlotStep DEF TypeOK
    <2>6. /\ conn'[r] = p
          /\ \A x \in Replica \ {r} : conn'[x] = conn[x]
      BY <2>1 DEF TypeOK
    <2>7. \A x \in Slot : pc'[x] # pc[x] \/ msg'[x] # msg[x] =>
              (\A i \in 1 .. Len(p) : p[i].by # x) /\ Home[x] = r
      BY <1>5, <1>8, <1>9, <2>1 DEF TypeOK
    <2>8. ConnInv'
      BY <1>1, <1>7, <1>10, <2>2, <2>6, <2>7, ConnStep
    <2>9. QueueInv'
      BY <1>9, <1>10, <2>2, QueueSame
    <2> QED  BY <1>10, <2>2, <2>5, <2>8, <2>9
  <1>12. CASE fraudCache[c.txn] # None
    <2>1. PICK v \in Verdict : v = fraudCache[c.txn]
      BY <1>3, <1>12 DEF TypeOK
    <2>2. Decide(s, msg[s], v, p)
      BY <1>2, <1>4, <1>7, <1>12, <2>1 DEF FraudLookupReply
    <2>3. PICK m \in Msg : m = msg[s]
      BY <1>6
    <2>4. Decide(s, m, v, p)
      BY <2>2, <2>3
    <2>5. TypeOK'
      BY <1>9, <2>4, DecideType DEF TypeOK, ledger
    <2>6. Supported(m.queue, v, m.txn)
      BY <1>3, <1>5, <1>6, <2>1, <2>3 DEF Supported, CacheInv
    <2>7. Earned(m.queue, m.txn)' /\ Supported(m.queue, v, m.txn)'
      BY <1>6, <1>9, <2>3, <2>6 DEF Earned, Supported, ledger
    <2>8. SlotInv' /\ ConnInv'
      BY <1>1, <1>5, <1>7, <1>8, <1>9, <1>10, <2>3, <2>4, <2>5, <2>7, DecideStep
    <2>9. QueueInv'
      BY <1>9, <1>10, <2>5, QueueSame
    <2> QED  BY <1>10, <2>5, <2>8, <2>9
  <1> QED  BY <1>11, <1>12

\* Redis stores a fraud decision, and its handler acts on it.
LEMMA FraudCacheReplyInv ==
    ASSUME InductiveInv, NEW r \in Replica, FraudCacheReply(r)
    PROVE  InductiveInv'
  <1> USE DEF InductiveInv
  <1>1. conn[r] # <<>> /\ Head(conn[r]).op = "cache"
    BY DEF FraudCacheReply, Outstanding
  <1>2. PICK c \in Cmd : c = Head(conn[r])
    BY <1>1, HeadIsOnly
  <1>3. /\ c.op = "cache" /\ c.txn \in Txn /\ c.val \in Verdict
        /\ c.by \in Slot \cup {None}
        /\ c.val = "accept" => c.txn \in cleared
    BY <1>1, <1>2, HeadIsOnly DEF Cmd, CmdJustified
  <1>9. /\ UNCHANGED <<ready, dead, msg, held, store, link, used, ledger, closed, faults>>
        /\ fraudCache' = [fraudCache EXCEPT ![c.txn] = c.val]
    BY <1>2 DEF FraudCacheReply
  <1>10. LedgerGrows /\ LedgerInv'
    BY <1>9, LedgerSame
  <1>11. CacheInv'
    BY <1>3, <1>9 DEF CacheInv, TypeOK, ledger
  <1>0. CASE c.by = None
    <2>1. UNCHANGED <<pc, verdict>> /\ conn' = [conn EXCEPT ![r] = Tail(conn[r])]
      BY <1>0, <1>2 DEF FraudCacheReply
    <2>2. Tail(conn[r]) \in Seq(Cmd)
      BY <1>1, HeadIsOnly
    <2>3. TypeOK'
      BY <1>3, <1>9, <2>1, <2>2 DEF TypeOK, ledger
    <2>4. ConnInv'
      BY <1>1, <1>9, <1>10, <2>1, <2>3, PopStep
    <2>5. QueueInv' /\ SlotInv'
      BY <1>9, <1>10, <2>1, <2>3, QueueSame, SlotStep
    <2> QED  BY <1>10, <1>11, <2>3, <2>4, <2>5
  <1> SUFFICES ASSUME c.by # None
               PROVE  InductiveInv'
    BY <1>0
  <1>4. PICK s \in Slot : s = c.by
    BY <1>3
  <1>5. /\ pc[s] = "fraudCache" /\ Home[s] = r /\ msg[s].txn = c.txn
        /\ c.val = "accept" => c.txn \in cleared
    BY <1>1, <1>2, <1>3, <1>4, HeadIsOnly DEF CmdAwaited, CmdJustified, Waiting
  <1>6. /\ msg[s] \in Msg /\ msg[s].queue = "fraud_check"
        /\ Earned(msg[s].queue, msg[s].txn)
    BY <1>5 DEF SlotInv, SlotOK, FraudPC
  <1>7. PICK p \in Seq(Cmd) : p = Tail(conn[r])
    BY <1>1, HeadIsOnly
  <1>8. \A i \in 1 .. Len(p) : p[i].by # s
    BY <1>1, <1>2, <1>3, <1>4, <1>7, HeadIsOnly
  <1>12. PICK m \in Msg : m = msg[s]
    BY <1>6
  <1>13. PICK v \in Verdict : v = c.val
    BY <1>3
  <1>14. Decide(s, m, v, p)
    BY <1>2, <1>4, <1>7, <1>12, <1>13 DEF FraudCacheReply
  <1>15. TypeOK'
    BY <1>3, <1>9, <1>14, DecideType DEF TypeOK, ledger
  <1>16. Earned(m.queue, m.txn)' /\ Supported(m.queue, v, m.txn)'
    BY <1>5, <1>6, <1>9, <1>12, <1>13 DEF Earned, Supported, ledger
  <1>17. SlotInv' /\ ConnInv'
    BY <1>1, <1>5, <1>7, <1>8, <1>9, <1>10, <1>12, <1>14, <1>15, <1>16, DecideStep
  <1>18. QueueInv'
    BY <1>9, <1>10, <1>15, QueueSame
  <1> QED  BY <1>10, <1>11, <1>15, <1>17, <1>18

\* Stored statuses stay justified when an outside effect is added in order.
LEMMA LedgerStep ==
    ASSUME TypeOK, TypeOK', LedgerInv, LedgerGrows, UNCHANGED store,
           Lifecycle!MilestonesInOrder'
    PROVE  LedgerInv'
  BY Monotone DEF LedgerInv, Lifecycle!StoreTellsNoLie

\* The cache only holds earned approvals if the cleared payments only grow.
LEMMA CacheStep ==
    ASSUME CacheInv, LedgerGrows, UNCHANGED fraudCache
    PROVE  CacheInv'
  BY DEF CacheInv, LedgerGrows

\* The fraud service (or the local check) answers.
LEMMA FraudServiceAnswersInv ==
    ASSUME InductiveInv, NEW s \in Slot, NEW v \in Verdict, FraudServiceAnswers(s, v)
    PROVE  InductiveInv'
  <1> USE DEF InductiveInv
  <1>1. /\ pc[s] = "fraudCall" /\ msg[s] \in Msg /\ msg[s].queue = "fraud_check"
        /\ msg[s].txn \in Txn /\ Earned(msg[s].queue, msg[s].txn)
    BY WorkerOfMsg DEF FraudServiceAnswers, SlotInv, SlotOK, FraudPC
  <1>2. PICK c \in Cmd : c = Cache(msg[s].txn, v, s)
    BY <1>1 DEF Cache, Cmd
  <1>3. /\ cleared' = IF v = "accept" THEN cleared \cup {msg[s].txn} ELSE cleared
        /\ pc' = [pc EXCEPT ![s] = "fraudCache"]
        /\ conn' = [conn EXCEPT ![Home[s]] = Append(@, c)]
        /\ UNCHANGED <<ready, dead, msg, verdict, held, store, fraudCache, link, used,
                       charges, settled, closed, faults>>
    BY <1>2 DEF FraudServiceAnswers
  <1>4. conn' \in [Replica -> Seq(Cmd)]
    BY <1>3, AppendProperties DEF TypeOK
  <1>5. TypeOK'
    BY <1>1, <1>3, <1>4 DEF TypeOK, PC
  <1>6. LedgerGrows
    BY <1>3 DEF LedgerGrows, TypeOK
  <1>7. CacheInv'
    BY <1>3, <1>6, CacheStep
  <1>8. Lifecycle!MilestonesInOrder'
    BY <1>1, <1>3 DEF LedgerInv, Lifecycle!MilestonesInOrder, Earned
  <1>9. LedgerInv'
    BY <1>3, <1>5, <1>6, <1>8, LedgerStep
  <1>10. QueueInv'
    BY <1>3, <1>5, <1>6, QueueSame
  <1>11. pc'[s] = "fraudCache" /\ msg'[s] = msg[s] /\ held'[s] = held[s]
    BY <1>3 DEF TypeOK
  <1>12. SlotOK(s)'
    BY <1>1, <1>3, <1>11 DEF SlotOK, Earned, FraudPC, DecidedPC
  <1>13. SlotInv'
    BY <1>3, <1>5, <1>6, <1>12, SlotStep DEF TypeOK
  <1>14. c.by = s /\ c.op = "cache" /\ c.txn = msg[s].txn /\ c.val = v
    BY <1>2 DEF Cache
  <1>15. CmdJustified(c)' /\ CmdAwaited(Home[s], c)'
    BY <1>3, <1>11, <1>14 DEF CmdJustified, CmdAwaited, Waiting
  <1>16. pc[s] \notin WaitingPC
    BY <1>1 DEF WaitingPC
  <1>17. \A x \in Slot \ {s} : pc'[x] = pc[x] /\ msg'[x] = msg[x]
    BY <1>3 DEF TypeOK
  <1>18. ConnInv'
    BY <1>3, <1>5, <1>6, <1>14, <1>15, <1>16, <1>17, IssueStep
  <1> QED  BY <1>5, <1>7, <1>9, <1>10, <1>13, <1>18

\* The acquirer grants or refuses the authorisation.
LEMMA AcquirerAnswersInv ==
    ASSUME InductiveInv, NEW s \in Slot, NEW v \in Verdict, AcquirerAnswers(s, v)
    PROVE  InductiveInv'
  <1> USE DEF InductiveInv
  <1>1. PICK m \in Msg : m = msg[s]
    BY DEF AcquirerAnswers, SlotInv, SlotOK
  <1>2. /\ pc[s] = "acquirer" /\ m.queue = "processing" /\ m.txn \in Txn
        /\ m.txn \in cleared
    BY <1>1, WorkerOfMsg DEF AcquirerAnswers, SlotInv, SlotOK, Earned
  <1>3. PICK p \in Seq(Cmd) : p = conn[Home[s]]
    BY PipelineAssumption DEF TypeOK
  <1>4. /\ charges' = IF v = "accept" THEN [charges EXCEPT ![m.txn] = @ + 1] ELSE charges
        /\ Decide(s, m, v, p)
        /\ UNCHANGED <<ready, dead, msg, held, store, fraudCache, link, used,
                       cleared, settled, closed, faults>>
    BY <1>1, <1>3 DEF AcquirerAnswers
  <1>5. charges' \in [Txn -> Nat]
    BY <1>2, <1>4 DEF TypeOK
  <1>6. TypeOK'
    BY <1>4, <1>5, DecideType DEF TypeOK
  <1>7. \A t \in Txn : charges[t] <= charges'[t]
    BY <1>2, <1>4 DEF TypeOK
  <1>8. LedgerGrows
    BY <1>4, <1>7 DEF LedgerGrows
  <1>9. CacheInv'
    BY <1>4, <1>8, CacheStep
  <1>10. \A t \in Txn : charges'[t] > 0 => charges[t] > 0 \/ t = m.txn
    BY <1>2, <1>4 DEF TypeOK
  <1>11. Lifecycle!MilestonesInOrder'
    BY <1>2, <1>4, <1>6, <1>7, <1>10 DEF LedgerInv, Lifecycle!MilestonesInOrder, TypeOK
  <1>12. LedgerInv'
    BY <1>4, <1>6, <1>8, <1>11, LedgerStep
  <1>13. QueueInv'
    BY <1>4, <1>6, <1>8, QueueSame
  <1>14. v = "accept" => charges'[m.txn] > 0
    BY <1>2, <1>4 DEF TypeOK
  <1>15. Earned(m.queue, m.txn)' /\ Supported(m.queue, v, m.txn)'
    BY <1>2, <1>4, <1>14 DEF Earned, Supported
  <1>16. \A i \in 1 .. Len(p) : p[i].by # s
    BY <1>2, <1>3, NotWaiting, PipelineAssumption DEF WaitingPC
  <1>17. SlotInv' /\ ConnInv'
    BY <1>1, <1>3, <1>4, <1>6, <1>8, <1>12, <1>15, <1>16, DecideStep
  <1> QED  BY <1>6, <1>9, <1>12, <1>13, <1>17

\* The settlement call returns.
LEMMA SettlementAnswersInv ==
    ASSUME InductiveInv, NEW s \in Slot, SettlementAnswers(s)
    PROVE  InductiveInv'
  <1> USE DEF InductiveInv
  <1>1. PICK m \in Msg : m = msg[s]
    BY DEF SettlementAnswers, SlotInv, SlotOK
  <1>2. /\ pc[s] = "settle" /\ m.queue = "settlement" /\ m.txn \in Txn
        /\ charges[m.txn] > 0
    BY <1>1, WorkerOfMsg DEF SettlementAnswers, SlotInv, SlotOK, Earned
  <1>3. PICK p \in Seq(Cmd) : p = conn[Home[s]]
    BY PipelineAssumption DEF TypeOK
  <1>4. PICK v \in Verdict : v = "accept"
    BY DEF Verdict
  <1>5. /\ settled' = settled \cup {m.txn}
        /\ Decide(s, m, v, p)
        /\ UNCHANGED <<ready, dead, msg, held, store, fraudCache, link, used,
                       cleared, charges, closed, faults>>
    BY <1>1, <1>3, <1>4 DEF SettlementAnswers
  <1>6. TypeOK'
    BY <1>2, <1>5, DecideType DEF TypeOK
  <1>7. LedgerGrows
    BY <1>5 DEF LedgerGrows, TypeOK
  <1>8. CacheInv'
    BY <1>5, <1>7, CacheStep
  <1>9. Lifecycle!MilestonesInOrder'
    BY <1>2, <1>5 DEF LedgerInv, Lifecycle!MilestonesInOrder
  <1>10. LedgerInv'
    BY <1>5, <1>6, <1>7, <1>9, LedgerStep
  <1>11. QueueInv'
    BY <1>5, <1>6, <1>7, QueueSame
  <1>12. Earned(m.queue, m.txn)' /\ Supported(m.queue, v, m.txn)'
    BY <1>2, <1>5 DEF Earned, Supported
  <1>13. \A i \in 1 .. Len(p) : p[i].by # s
    BY <1>2, <1>3, NotWaiting, PipelineAssumption DEF WaitingPC
  <1>14. SlotInv' /\ ConnInv'
    BY <1>1, <1>3, <1>5, <1>6, <1>7, <1>10, <1>12, <1>13, DecideStep
  <1> QED  BY <1>6, <1>8, <1>10, <1>11, <1>14

\* A handler publishes and, in the validation worker, stores FAILED behind it.
LEMMA ForwardInv ==
    ASSUME InductiveInv, NEW s \in Slot, Forward(s)
    PROVE  InductiveInv'
  <1> USE DEF InductiveInv
  <1>1. PICK m \in Msg : m = msg[s]
    BY DEF Forward, SlotInv, SlotOK
  <1>2. PICK v \in Verdict : v = verdict[s]
    BY DEF Forward, SlotInv, SlotOK, DecidedPC
  <1>3. /\ pc[s] = "publish" /\ m.queue \in Worker /\ m.txn \in Txn
        /\ ~Terminal(m.queue, v)
        /\ Earned(m.queue, m.txn) /\ Supported(m.queue, v, m.txn)
    BY <1>1, <1>2, WorkerOfMsg DEF Forward, SlotInv, SlotOK, DecidedPC
  <1>4. /\ conn' = [conn EXCEPT ![Home[s]] = Trailing(m, @)]
        /\ pc' = [pc EXCEPT ![s] = AfterPublish(m.queue)]
        /\ UNCHANGED <<msg, verdict, held, store, fraudCache, link, used, ledger,
                       closed, faults>>
    BY <1>1 DEF Forward
  <1>5. \/ UNCHANGED ready /\ dead' \in SUBSET Txn
        \/ /\ ~Buries(m, v) /\ UNCHANGED dead
           /\ ready' = [ready EXCEPT ![Successor(m, v)] = @ + 1]
    BY <1>1, <1>2, <1>3 DEF Forward, Publish, TypeOK
  <1>6. ready' \in [Msg -> Nat] /\ dead' \in SUBSET Txn
    <2>1. CASE UNCHANGED ready /\ dead' \in SUBSET Txn
      BY <2>1 DEF TypeOK
    <2>2. CASE ~Buries(m, v) /\ UNCHANGED dead
               /\ ready' = [ready EXCEPT ![Successor(m, v)] = @ + 1]
      <3>1. Successor(m, v) \in Msg
        BY <1>3, <2>2, SuccessorType
      <3> QED  BY <2>2, <3>1 DEF TypeOK
    <2> QED  BY <1>5, <2>1, <2>2
  <1>7. AfterPublish(m.queue) \in {"notify", "ack"}
    BY DEF AfterPublish
  <1>8. PICK c \in Cmd : c = Set(m.txn, "FAILED", None)
    BY <1>3 DEF Set, Cmd, Status
  <1>9. conn' \in [Replica -> Seq(Cmd)]
    <2>1. \A r \in Replica : Trailing(m, conn[r]) \in Seq(Cmd)
      BY <1>8, AppendProperties DEF Trailing, TypeOK
    <2> QED  BY <1>4, <2>1, PipelineAssumption DEF TypeOK
  <1>10. TypeOK'
    BY <1>4, <1>6, <1>7, <1>9 DEF TypeOK, PC, ledger
  <1>11. LedgerGrows /\ CacheInv' /\ LedgerInv'
    BY <1>4, LedgerSame
  <1>12. QueueInv'
    <2>1. \A n \in Msg : ready'[n] > ready[n] =>
              /\ ~Buries(m, v)
              /\ n = Successor(m, v)
      BY <1>5 DEF TypeOK
    <2>2. \A n \in Msg : ready'[n] > ready[n] => Earned(n.queue, n.txn)
      BY <1>3, <2>1, SuccessorEarned
    <2>3. \A n \in Msg : ready'[n] > ready[n] => Earned(n.queue, n.txn)'
      BY <1>4, <2>2 DEF Earned, ledger
    <2> QED  BY <1>10, <1>11, <2>3, QueueStep
  <1>13. pc'[s] \in {"notify", "ack"} /\ msg'[s] = m /\ verdict'[s] = v
    BY <1>1, <1>2, <1>4, <1>7 DEF TypeOK
  <1>14. SlotOK(s)'
    BY <1>3, <1>4, <1>13 DEF SlotOK, Earned, Supported, FraudPC, DecidedPC, ledger
  <1>15. SlotInv'
    BY <1>4, <1>10, <1>11, <1>14, SlotStep DEF TypeOK
  <1>16. ConnInv'
    <2>1. Home[s] \in Replica
      BY PipelineAssumption
    <2>2. PICK p \in Seq(Cmd) : p = conn[Home[s]]
      BY <2>1 DEF TypeOK
    <2>3. \A i \in 1 .. Len(p) : p[i].by # s
      BY <1>3, <2>1, <2>2, NotWaiting DEF WaitingPC
    <2>4. c.by = None /\ CmdJustified(c)' /\ CmdAwaited(Home[s], c)'
      BY <1>8 DEF CmdJustified, CmdAwaited, Set, Lifecycle!Justified
    <2>5. conn'[Home[s]] = p \/ conn'[Home[s]] = Append(p, c)
      BY <1>4, <1>8, <2>1, <2>2 DEF Trailing, TypeOK
    <2>6. \/ conn'[Home[s]] = p
          \/ \E d \in Cmd : /\ conn'[Home[s]] = Append(p, d)
                            /\ CmdJustified(d)' /\ CmdAwaited(Home[s], d)'
                            /\ \A i \in 1 .. Len(p) : d.by # None => p[i].by # d.by
      BY <2>4, <2>5
    <2>7. \A x \in Replica \ {Home[s]} : conn'[x] = conn[x]
      BY <1>4, <2>1 DEF TypeOK
    <2>8. \A x \in Slot : pc'[x] # pc[x] \/ msg'[x] # msg[x] =>
              (\A i \in 1 .. Len(p) : p[i].by # x) /\ Home[x] = Home[s]
      BY <1>4, <2>3 DEF TypeOK
    <2> QED  BY <1>10, <1>11, <2>1, <2>2, <2>6, <2>7, <2>8, ConnStep
  <1> QED  BY <1>10, <1>11, <1>12, <1>15, <1>16

\* The three ways a handler ends: it acknowledges, returns its message, or
\* throws on a closed channel.
LEMMA EndInv ==
    ASSUME InductiveInv, NEW s \in Slot, ForwardThrows(s) \/ Ack(s) \/ Nack(s)
    PROVE  InductiveInv'
  <1> USE DEF InductiveInv
  <1>1. /\ Release(s)
        /\ UNCHANGED <<dead, redis, link, used, ledger, faults>>
        /\ pc[s] \in {"publish", "ack", "nack"}
    BY DEF ForwardThrows, Ack, Nack
  <1>2. msg[s] \in Msg /\ msg[s].txn \in Txn /\ Earned(msg[s].queue, msg[s].txn)
    BY <1>1, WorkerOfMsg DEF SlotInv, SlotOK
  <1>3. closed' \in SUBSET Txn
    BY <1>2 DEF ForwardThrows, Ack, Nack, TypeOK
  <1>4. ready' = ready \/ ready' = [ready EXCEPT ![msg[s]] = @ + 1]
    BY DEF ForwardThrows, Ack, Nack
  <1>5. TypeOK'
    BY <1>1, <1>2, <1>3, <1>4 DEF TypeOK, Release, PC, redis, ledger
  <1>6. LedgerGrows /\ CacheInv' /\ LedgerInv'
    BY <1>1, LedgerSame DEF redis
  <1>7. QueueInv'
    <2>1. \A n \in Msg : ready'[n] > ready[n] => n = msg[s]
      BY <1>4 DEF TypeOK
    <2>2. \A n \in Msg : ready'[n] > ready[n] => Earned(n.queue, n.txn)'
      BY <1>1, <1>2, <2>1 DEF Earned, ledger
    <2> QED  BY <1>5, <1>6, <2>2, QueueStep
  <1>8. SlotOK(s)'
    BY <1>1 DEF Release, SlotOK, TypeOK, FraudPC, DecidedPC
  <1>9. SlotInv'
    BY <1>1, <1>5, <1>6, <1>8, SlotStep DEF Release, TypeOK
  <1>10. ConnInv'
    BY <1>1, <1>5, <1>6, QuietStep DEF Release, TypeOK, WaitingPC, redis
  <1> QED  BY <1>5, <1>6, <1>7, <1>9, <1>10

\* A handler has sent its notification.
LEMMA NotifyInv ==
    ASSUME InductiveInv, NEW s \in Slot, Notify(s)
    PROVE  InductiveInv'
  <1> USE DEF InductiveInv
  <1>1. /\ pc[s] = "notify" /\ pc' = [pc EXCEPT ![s] = "ack"]
        /\ UNCHANGED <<ready, dead, msg, verdict, held, redis, link, used, ledger,
                       closed, faults>>
    BY DEF Notify
  <1>2. TypeOK'
    BY <1>1 DEF TypeOK, PC, redis, ledger
  <1>3. LedgerGrows /\ CacheInv' /\ LedgerInv'
    BY <1>1, LedgerSame DEF redis
  <1>4. QueueInv'
    BY <1>1, <1>2, <1>3, QueueSame
  <1>5. /\ pc'[s] = "ack" /\ msg[s] \in Msg /\ verdict[s] \in Verdict
        /\ Earned(msg[s].queue, msg[s].txn)
        /\ Supported(msg[s].queue, verdict[s], msg[s].txn)
    BY <1>1 DEF SlotInv, SlotOK, DecidedPC, TypeOK
  <1>6. /\ Earned(msg[s].queue, msg[s].txn)'
        /\ Supported(msg[s].queue, verdict[s], msg[s].txn)'
    BY <1>1, <1>5 DEF Earned, Supported, ledger
  <1>7. SlotOK(s)'
    BY <1>1, <1>5, <1>6 DEF SlotOK, FraudPC, DecidedPC
  <1>8. SlotInv'
    BY <1>1, <1>2, <1>3, <1>7, SlotStep DEF TypeOK
  <1>9. ConnInv'
    BY <1>1, <1>2, <1>3, QuietStep DEF TypeOK, WaitingPC, redis
  <1> QED  BY <1>2, <1>3, <1>4, <1>8, <1>9

\* Steps that touch neither messages nor handlers nor Redis.
LEMMA BystanderInv ==
    ASSUME InductiveInv, NEW r \in Replica,
           \/ Restart(r)
           \/ WindowElapses(r)
           \/ \E s \in Slot, m \in Msg : Throttle(s, m)
           \/ UNCHANGED vars
    PROVE  InductiveInv'
  <1> USE DEF InductiveInv
  <1>1. /\ UNCHANGED <<ready, dead, pc, msg, verdict, held, conn, store, fraudCache,
                       cleared, charges, settled, closed, faults>>
        /\ link' = link \/ link' = [link EXCEPT ![r] = "open"]
    BY DEF Restart, WindowElapses, Throttle, vars, handlers, redis, ledger
  <1>2. used' \in [Replica -> 0 .. MaxRate + 1]
    <2>1. \/ UNCHANGED used
          \/ \E x \in Replica : used' = [used EXCEPT ![x] = 0]
          \/ \E s \in Slot : used' = [used EXCEPT ![Home[s]] = MaxRate + 1]
      BY DEF Restart, WindowElapses, Throttle, vars
    <2>2. MaxRate \in Nat
      BY PipelineAssumption
    <2> QED  BY <2>1, <2>2 DEF TypeOK
  <1>3. TypeOK'
    BY <1>1, <1>2 DEF TypeOK
  <1>4. QueueInv' /\ SlotInv' /\ CacheInv' /\ LedgerInv'
    BY <1>1 DEF QueueInv, SlotInv, SlotOK, CacheInv, LedgerInv, Earned, Supported,
                Lifecycle!MilestonesInOrder, Lifecycle!StoreTellsNoLie,
                Lifecycle!Justified
  <1>5. ConnInv'
    BY <1>1 DEF ConnInv, ConnOK, CmdJustified, CmdAwaited, Lifecycle!Justified, OneEach
  <1> QED  BY <1>3, <1>4, <1>5

-----------------------------------------------------------------------------
(* Faults *)

\* Only messages some handler had not finished with go back to their queue.
LEMMA RequeueStep ==
    ASSUME TypeOK, SlotInv, NEW r \in Replica, ready' = Requeued(r)
    PROVE  /\ ready' \in [Msg -> Nat]
           /\ \A m \in Msg : ready'[m] > ready[m] => Earned(m.queue, m.txn)
  <1>1. \A m \in Msg : IsFiniteSet(Unacked(r, m))
    BY FS_Subset, PipelineAssumption DEF Unacked
  <1>2. \A m \in Msg : Cardinality(Unacked(r, m)) \in Nat
    BY <1>1, FS_CardinalityType
  <1>3. ready' \in [Msg -> Nat]
    BY <1>2 DEF Requeued, TypeOK
  <1>4. ASSUME NEW m \in Msg, ready'[m] > ready[m]
        PROVE  Earned(m.queue, m.txn)
    <2>1. Cardinality(Unacked(r, m)) # 0
      BY <1>4 DEF Requeued, TypeOK
    <2>2. Unacked(r, m) # {}
      BY <2>1, FS_EmptySet
    <2>3. PICK s \in Slot : held[s] /\ msg[s] = m
      BY <2>2 DEF Unacked
    <2> QED  BY <2>3 DEF SlotInv, SlotOK
  <1> QED  BY <1>3, <1>4

\* A replica dies with its handlers and its outstanding commands.
LEMMA CrashInv ==
    ASSUME InductiveInv, NEW r \in Replica, Crash(r)
    PROVE  InductiveInv'
  <1> USE DEF InductiveInv
  <1>1. /\ ready' = Requeued(r)
        /\ pc' = OnReplica(r, pc, "idle") /\ msg' = OnReplica(r, msg, None)
        /\ verdict' = OnReplica(r, verdict, None) /\ held' = OnReplica(r, held, FALSE)
        /\ used' = [used EXCEPT ![r] = 0]
        /\ link' = [link EXCEPT ![r] = "down"]
        /\ faults < MaxFaults /\ faults' = faults + 1
        /\ UNCHANGED <<dead, store, fraudCache, closed>>
        /\ UNCHANGED ledger
    BY DEF Crash, Fault
  <1>a. PICK n \in 0 .. Len(conn[r]) : conn' = [conn EXCEPT ![r] = Orphaned(r, n)]
    BY DEF Crash
  <1>b. /\ conn'[r] = Orphaned(r, n)
        /\ \A x \in Replica \ {r} : conn'[x] = conn[x]
    BY <1>a DEF TypeOK
  <1>2. faults' \in 0 .. MaxFaults
    BY <1>1, PipelineAssumption DEF TypeOK
  <1>3. /\ pc' \in [Slot -> PC] /\ msg' \in [Slot -> Msg \cup {None}]
        /\ verdict' \in [Slot -> Verdict \cup {None}] /\ held' \in [Slot -> BOOLEAN]
    BY <1>1 DEF OnReplica, TypeOK, PC
  <1>4. conn' \in [Replica -> Seq(Cmd)] /\ used' \in [Replica -> 0 .. MaxRate + 1]
    BY <1>1, <1>a, OrphansOK, PipelineAssumption DEF TypeOK
  <1>5. TypeOK'
    BY <1>1, <1>2, <1>3, <1>4, RequeueStep DEF TypeOK, ledger
  <1>6. LedgerGrows /\ CacheInv' /\ LedgerInv'
    BY <1>1, LedgerSame
  <1>7. QueueInv'
    <2>1. \A m \in Msg : ready'[m] > ready[m] => Earned(m.queue, m.txn)'
      BY <1>1, RequeueStep DEF Earned, ledger
    <2> QED  BY <1>5, <1>6, <2>1, QueueStep
  <1>8. ASSUME NEW s \in Slot, Home[s] = r
        PROVE  SlotOK(s)'
    BY <1>1, <1>8 DEF OnReplica, SlotOK, FraudPC, DecidedPC
  <1>9. \A s \in Slot : Home[s] # r =>
            /\ pc'[s] = pc[s] /\ msg'[s] = msg[s]
            /\ verdict'[s] = verdict[s] /\ held'[s] = held[s]
    BY <1>1 DEF OnReplica
  <1>10. SlotInv'
    BY <1>5, <1>6, <1>8, <1>9, SlotStep
  <1>11. ConnInv'
    BY <1>1, <1>9, <1>b, OrphanStep
  <1> QED  BY <1>5, <1>6, <1>7, <1>10, <1>11

\* A replica loses its channel: what it held returns to the queues.
LEMMA DisconnectInv ==
    ASSUME InductiveInv, NEW r \in Replica, Disconnect(r)
    PROVE  InductiveInv'
  <1> USE DEF InductiveInv
  <1>1. /\ ready' = Requeued(r)
        /\ held' = OnReplica(r, held, FALSE)
        /\ link' = [link EXCEPT ![r] = "deaf"]
        /\ faults < MaxFaults /\ faults' = faults + 1
        /\ UNCHANGED <<dead, pc, msg, verdict, conn, store, fraudCache, used, closed>>
        /\ UNCHANGED ledger
    BY DEF Disconnect, Fault, redis
  <1>2. faults' \in 0 .. MaxFaults
    BY <1>1, PipelineAssumption DEF TypeOK
  <1>3. TypeOK'
    BY <1>1, <1>2, RequeueStep DEF OnReplica, TypeOK, ledger
  <1>4. LedgerGrows /\ CacheInv' /\ LedgerInv'
    BY <1>1, LedgerSame
  <1>5. QueueInv'
    <2>1. \A m \in Msg : ready'[m] > ready[m] => Earned(m.queue, m.txn)'
      BY <1>1, RequeueStep DEF Earned, ledger
    <2> QED  BY <1>3, <1>4, <2>1, QueueStep
  <1>6. SlotInv'
    <2>1. \A s \in Slot : held'[s] => held[s]
      BY <1>1 DEF OnReplica
    <2> QED  BY <1>1, <1>3, <1>4, <2>1, SlotStep
  <1>7. ConnInv'
    BY <1>1 DEF ConnInv, ConnOK, CmdJustified, CmdAwaited, Lifecycle!Justified, OneEach,
                ledger
  <1> QED  BY <1>3, <1>4, <1>5, <1>6, <1>7

\* A handler whose await throws stays in order until it puts the message back.
LEMMA ThrownStep ==
    ASSUME SlotInv, UNCHANGED <<msg, ledger>>, NEW s \in Slot,
           pc[s] \in WaitingPC, pc'[s] = "nack"
    PROVE  SlotOK(s)'
  <1>1. msg'[s] = msg[s] /\ msg[s] \in Msg /\ Earned(msg[s].queue, msg[s].txn)
    BY DEF SlotInv, SlotOK, WaitingPC
  <1>2. Earned(msg[s].queue, msg[s].txn)'
    BY <1>1 DEF Earned, ledger
  <1> QED  BY <1>1, <1>2 DEF SlotOK, FraudPC, DecidedPC

\* Redis refuses a command, and its handler goes to the catch block.
LEMMA RedisRefusesInv ==
    ASSUME InductiveInv, NEW r \in Replica, RedisRefuses(r)
    PROVE  InductiveInv'
  <1> USE DEF InductiveInv
  <1>1. conn[r] # <<>> /\ faults < MaxFaults /\ faults' = faults + 1
    BY DEF RedisRefuses, Fault
  <1>2. PICK c \in Cmd : c = Head(conn[r])
    BY <1>1, HeadIsOnly
  <1>3. /\ c.by \in Slot \cup {None}
        /\ c.by # None => pc[c.by] \in WaitingPC /\ Home[c.by] = r
    BY <1>1, <1>2, HeadIsOnly, Awaiting DEF Cmd
  <1>4. /\ pc' = IF c.by = None THEN pc ELSE [pc EXCEPT ![c.by] = "nack"]
        /\ conn' = [conn EXCEPT ![r] = Tail(@)]
        /\ UNCHANGED <<ready, dead, msg, verdict, held, store, fraudCache, link, used, closed>>
        /\ UNCHANGED ledger
    BY <1>2 DEF RedisRefuses
  <1>5. PICK p \in Seq(Cmd) : p = Tail(conn[r])
    BY <1>1, HeadIsOnly
  <1>6. faults' \in 0 .. MaxFaults
    BY <1>1, PipelineAssumption DEF TypeOK
  <1>7. TypeOK'
    BY <1>3, <1>4, <1>5, <1>6 DEF TypeOK, PC, ledger
  <1>8. LedgerGrows /\ CacheInv' /\ LedgerInv'
    BY <1>4, LedgerSame
  <1>9. QueueInv'
    BY <1>4, <1>7, <1>8, QueueSame
  <1>10. ASSUME NEW s \in Slot, s = c.by, c.by # None
         PROVE  SlotOK(s)'
    BY <1>3, <1>4, <1>10, ThrownStep DEF TypeOK
  <1>11. \A s \in Slot : c.by = None \/ s # c.by => pc'[s] = pc[s]
    BY <1>4 DEF TypeOK
  <1>12. SlotInv'
    BY <1>4, <1>7, <1>8, <1>10, <1>11, SlotStep, PipelineAssumption
  <1>13. \A s \in Slot : pc'[s] # pc[s] \/ msg'[s] # msg[s] =>
             (\A i \in 1 .. Len(p) : p[i].by # s) /\ Home[s] = r
    BY <1>1, <1>2, <1>3, <1>4, <1>5, <1>11, HeadIsOnly
  <1>14. /\ conn'[r] = p
         /\ \A x \in Replica \ {r} : conn'[x] = conn[x]
    BY <1>4, <1>5 DEF TypeOK
  <1>15. ConnInv'
    BY <1>1, <1>5, <1>7, <1>8, <1>13, <1>14, ConnStep
  <1> QED  BY <1>7, <1>8, <1>9, <1>12, <1>15

\* Whoever awaits a command of a replica runs there and has one outstanding.
LEMMA AwaiterOf ==
    ASSUME TypeOK, ConnInv, NEW r \in Replica, NEW s \in Slot, s \in Awaiters(r)
    PROVE  Home[s] = r /\ pc[s] \in WaitingPC
  <1>1. PICK i \in DOMAIN conn[r] : conn[r][i].by = s
    BY DEF Awaiters
  <1>2. i \in 1 .. Len(conn[r])
    BY <1>1, LenProperties DEF TypeOK
  <1> QED  BY <1>1, <1>2, Awaiting

\* The client gives up: every handler that awaits one of its replies goes to
\* the catch block, and what Redis has received is carried out all the same.
LEMMA RedisRejectsInv ==
    ASSUME InductiveInv, NEW r \in Replica, RedisRejects(r)
    PROVE  InductiveInv'
  <1> USE DEF InductiveInv
  <1>1. /\ faults < MaxFaults /\ faults' = faults + 1
        /\ pc' = [s \in Slot |-> IF s \in Awaiters(r) THEN "nack" ELSE pc[s]]
        /\ UNCHANGED <<ready, dead, msg, verdict, held, store, fraudCache, link, used, closed>>
        /\ UNCHANGED ledger
    BY DEF RedisRejects, Fault
  <1>2. PICK n \in 0 .. Len(conn[r]) : conn' = [conn EXCEPT ![r] = Orphaned(r, n)]
    BY DEF RedisRejects
  <1>3. /\ conn'[r] = Orphaned(r, n)
        /\ \A x \in Replica \ {r} : conn'[x] = conn[x]
    BY <1>2 DEF TypeOK
  <1>4. faults' \in 0 .. MaxFaults
    BY <1>1, PipelineAssumption DEF TypeOK
  <1>5. conn' \in [Replica -> Seq(Cmd)] /\ pc' \in [Slot -> PC]
    BY <1>1, <1>2, OrphansOK DEF TypeOK, PC
  <1>6. TypeOK'
    BY <1>1, <1>4, <1>5 DEF TypeOK, ledger
  <1>7. LedgerGrows /\ CacheInv' /\ LedgerInv'
    BY <1>1, LedgerSame
  <1>8. QueueInv'
    BY <1>1, <1>6, <1>7, QueueSame
  <1>9. \A s \in Slot : \/ pc'[s] = pc[s]
                        \/ s \in Awaiters(r) /\ pc'[s] = "nack"
    BY <1>1
  <1>10. \A s \in Slot : s \in Awaiters(r) /\ pc'[s] = "nack" => SlotOK(s)'
    BY <1>1, AwaiterOf, ThrownStep
  <1>11. SlotInv'
    BY <1>1, <1>6, <1>7, <1>9, <1>10, SlotStep
  <1>12. \A s \in Slot : Home[s] # r => pc'[s] = pc[s] /\ msg'[s] = msg[s]
    BY <1>1, <1>9, AwaiterOf
  <1>13. ConnInv'
    BY <1>1, <1>3, <1>12, OrphanStep
  <1> QED  BY <1>6, <1>7, <1>8, <1>11, <1>13

\* The client sends everything again: Redis carries a part of it out twice.
LEMMA RedisResendsInv ==
    ASSUME InductiveInv, NEW r \in Replica, RedisResends(r)
    PROVE  InductiveInv'
  <1> USE DEF InductiveInv
  <1>1. /\ faults < MaxFaults /\ faults' = faults + 1
        /\ UNCHANGED <<ready, dead, pc, msg, verdict, held, store, fraudCache, link,
                       used, closed>>
        /\ UNCHANGED ledger
    BY DEF RedisResends, Fault, handlers
  <1>2. PICK n \in 1 .. Len(conn[r]) : conn' = [conn EXCEPT ![r] = Orphaned(r, n) \o @]
    BY DEF RedisResends
  <1>3. n \in 0 .. Len(conn[r])
    OBVIOUS
  <1>4. /\ conn'[r] = Orphaned(r, n) \o conn[r]
        /\ \A x \in Replica \ {r} : conn'[x] = conn[x]
    BY <1>2 DEF TypeOK
  <1>5. conn'[r] \in Seq(Cmd) /\ ConnInv'
    BY <1>1, <1>3, <1>4, OrphanStep
  <1>6. conn' \in [Replica -> Seq(Cmd)]
    BY <1>2, <1>4, <1>5 DEF TypeOK
  <1>7. faults' \in 0 .. MaxFaults
    BY <1>1, PipelineAssumption DEF TypeOK
  <1>8. TypeOK'
    BY <1>1, <1>6, <1>7 DEF TypeOK, ledger
  <1>9. LedgerGrows /\ CacheInv' /\ LedgerInv'
    BY <1>1, LedgerSame
  <1>10. QueueInv' /\ SlotInv'
    BY <1>1, <1>8, <1>9, QueueSame, SlotStep
  <1> QED  BY <1>5, <1>8, <1>9, <1>10

\* A cached decision expires, which no handler notices.
LEMMA FraudResultExpiresInv ==
    ASSUME InductiveInv, NEW t \in Txn, FraudResultExpires(t)
    PROVE  InductiveInv'
  <1> USE DEF InductiveInv
  <1>1. /\ UNCHANGED <<ready, dead, pc, msg, verdict, held, conn, store, link, used, closed>>
        /\ UNCHANGED ledger
        /\ faults < MaxFaults /\ faults' = faults + 1
        /\ fraudCache' = [fraudCache EXCEPT ![t] = None]
    BY DEF FraudResultExpires, Fault, handlers
  <1>2. None # "accept"
    BY PipelineAssumption DEF Verdict
  <1>3. CacheInv'
    BY <1>1, <1>2 DEF CacheInv, TypeOK, ledger
  <1>4. faults' \in 0 .. MaxFaults
    BY <1>1, PipelineAssumption DEF TypeOK
  <1>5. TypeOK'
    BY <1>1, <1>4 DEF TypeOK, ledger
  <1>6. LedgerGrows /\ LedgerInv'
    BY <1>1, LedgerSame
  <1>7. QueueInv' /\ SlotInv'
    BY <1>1, <1>5, <1>6, QueueSame, SlotStep DEF TypeOK
  <1>8. ConnInv'
    BY <1>1 DEF ConnInv, ConnOK, CmdJustified, CmdAwaited, Lifecycle!Justified, OneEach,
                ledger
  <1> QED  BY <1>3, <1>5, <1>6, <1>7, <1>8

-----------------------------------------------------------------------------
(* The theorems *)

\* The invariant holds of the freshly started system.
LEMMA InitInv ==
    ASSUME Init
    PROVE  InductiveInv
  <1>1. TypeOK
    BY EmptySeq, PipelineAssumption DEF Init, TypeOK, PC
  <1>2. QueueInv
    BY DEF Init, QueueInv, Earned
  <1>3. SlotInv
    BY DEF Init, SlotInv, SlotOK, FraudPC, DecidedPC
  <1>4. ConnInv
    BY DEF Init, ConnInv, ConnOK, OneEach
  <1>5. CacheInv
    BY PipelineAssumption DEF Init, CacheInv, Verdict
  <1>6. LedgerInv
    BY DEF Init, LedgerInv, Lifecycle!MilestonesInOrder, Lifecycle!StoreTellsNoLie
  <1> QED  BY <1>1, <1>2, <1>3, <1>4, <1>5, <1>6 DEF InductiveInv

\* Every step of the system preserves the invariant.
LEMMA NextInv ==
    ASSUME InductiveInv, [Next]_vars
    PROVE  InductiveInv'
  <1>1. ASSUME NEW s \in Slot, NEW m \in Msg, Deliver(s, m)
        PROVE  InductiveInv'
    BY <1>1, DeliverValidationInv, DeliverFraudCheckInv, DeliverToServiceInv
       DEF Deliver
  <1>2. ASSUME NEW s \in Slot, NEW m \in Msg, Throttle(s, m)
        PROVE  InductiveInv'
    <2>1. Home[s] \in Replica
      BY PipelineAssumption
    <2> QED  BY <1>2, <2>1, BystanderInv
  <1>3. ASSUME NEW s \in Slot, HandlerStep(s)
        PROVE  InductiveInv'
    <2>1. CASE \E v \in Verdict : FraudServiceAnswers(s, v) \/ AcquirerAnswers(s, v)
      BY <2>1, FraudServiceAnswersInv, AcquirerAnswersInv
    <2>2. CASE SettlementAnswers(s)
      BY <2>2, SettlementAnswersInv
    <2>3. CASE Forward(s)
      BY <2>3, ForwardInv
    <2>4. CASE ForwardThrows(s) \/ Ack(s) \/ Nack(s)
      BY <2>4, EndInv
    <2>5. CASE Notify(s)
      BY <2>5, NotifyInv
    <2> QED  BY <1>3, <2>1, <2>2, <2>3, <2>4, <2>5 DEF HandlerStep
  <1>4. ASSUME NEW r \in Replica, RedisReply(r)
        PROVE  InductiveInv'
    BY <1>4, StoreReplyInv, FraudLookupReplyInv, FraudCacheReplyInv DEF RedisReply
  <1>5. ASSUME NEW r \in Replica, Restart(r) \/ WindowElapses(r)
        PROVE  InductiveInv'
    BY <1>5, BystanderInv
  <1>6. ASSUME NEW r \in Replica,
               \/ Crash(r) \/ Disconnect(r)
               \/ RedisRefuses(r) \/ RedisRejects(r) \/ RedisResends(r)
        PROVE  InductiveInv'
    BY <1>6, CrashInv, DisconnectInv, RedisRefusesInv, RedisRejectsInv, RedisResendsInv
  <1>7. ASSUME NEW t \in Txn, FraudResultExpires(t)
        PROVE  InductiveInv'
    BY <1>7, FraudResultExpiresInv
  <1>8. CASE UNCHANGED vars
    BY <1>8 DEF InductiveInv, TypeOK, QueueInv, SlotInv, SlotOK, ConnInv, ConnOK,
                CmdJustified, CmdAwaited, OneEach, CacheInv, LedgerInv, Earned,
                Supported, Lifecycle!MilestonesInOrder, Lifecycle!StoreTellsNoLie,
                Lifecycle!Justified, vars, handlers, redis, ledger
  <1> QED  BY <1>1, <1>2, <1>3, <1>4, <1>5, <1>6, <1>7, <1>8 DEF Next

\* The strengthened invariant holds in every reachable state.
THEOREM Invariance == Spec => []InductiveInv
  <1>1. Init => InductiveInv
    BY InitInv
  <1>2. InductiveInv /\ [Next]_vars => InductiveInv'
    BY NextInv
  <1> QED  BY <1>1, <1>2, PTL DEF Spec

\* The variables keep their types, however many payments, replicas, credits
\* and faults there are.
THEOREM TypeCorrect == Spec => []TypeOK
  <1>1. InductiveInv => TypeOK
    BY DEF InductiveInv
  <1> QED  BY <1>1, Invariance, PTL

\* No payment is settled that was not charged, charged that was not cleared,
\* or cleared that is not valid, whatever is redelivered, crashed or cached.
THEOREM Causality == Spec => []MilestonesInOrder
  <1>1. InductiveInv => MilestonesInOrder
    BY DEF InductiveInv, LedgerInv
  <1> QED  BY <1>1, Invariance, PTL

\* The status in Redis never claims a step that was not taken, although stale
\* handlers, lost replies and repeated commands write it in any order.
THEOREM StoreSound == Spec => []StoreTellsNoLie
  <1>1. InductiveInv => StoreTellsNoLie
    BY DEF InductiveInv, LedgerInv
  <1> QED  BY <1>1, Invariance, PTL

-----------------------------------------------------------------------------
(* Refinement *)

\* The initial states map to the abstract initial state.
LEMMA RefineInit ==
    ASSUME Init
    PROVE  Lifecycle!Init
  BY DEF Init, Lifecycle!Init

\* A Redis command that takes effect is an abstract Record.
LEMMA RecordStep ==
    ASSUME TypeOK, NEW c \in Cmd, CmdJustified(c), UNCHANGED ledger,
           c.op = "set", store' = [store EXCEPT ![c.txn] = c.val]
    PROVE  Lifecycle!Next
  <1>1. c.txn \in Txn /\ Lifecycle!Justified(c.txn, c.val)
    BY DEF Cmd, CmdJustified
  <1>2. c.val \in Lifecycle!StoredStatus
    BY <1>1 DEF Lifecycle!Justified, Lifecycle!StoredStatus
  <1>3. Lifecycle!Record(c.txn, c.val)
    BY <1>1 DEF Lifecycle!Record, ledger
  <1> QED  BY <1>1, <1>2, <1>3 DEF Lifecycle!Next

\* Every step of the pipeline is an abstract step or leaves the abstract
\* state alone.
LEMMA RefineNext ==
    ASSUME InductiveInv, [Next]_vars
    PROVE  [Lifecycle!Next]_(Lifecycle!lifecycleVars)
  <1> USE DEF InductiveInv
  <1>1. CASE UNCHANGED <<cleared, charges, settled, store>>
    BY <1>1 DEF Lifecycle!lifecycleVars
  <1>2. ASSUME NEW s \in Slot, NEW v \in Verdict, FraudServiceAnswers(s, v)
        PROVE  [Lifecycle!Next]_(Lifecycle!lifecycleVars)
    <2>1. pc[s] = "fraudCall" /\ UNCHANGED <<charges, settled, store>>
          /\ cleared' = IF v = "accept" THEN cleared \cup {msg[s].txn} ELSE cleared
      BY <1>2 DEF FraudServiceAnswers
    <2>2. msg[s] \in Msg /\ msg[s].txn \in ValidTxn
      BY <2>1 DEF SlotInv, SlotOK, FraudPC, Earned
    <2>3. msg[s].txn \in Txn
      BY <2>2, WorkerOfMsg
    <2>4. v = "accept" => Lifecycle!Clear(msg[s].txn)
      BY <2>1, <2>2 DEF Lifecycle!Clear
    <2> QED  BY <1>1, <2>1, <2>3, <2>4 DEF Lifecycle!Next
  <1>3. ASSUME NEW s \in Slot, NEW v \in Verdict, AcquirerAnswers(s, v)
        PROVE  [Lifecycle!Next]_(Lifecycle!lifecycleVars)
    <2>1. pc[s] = "acquirer" /\ UNCHANGED <<cleared, settled, store>>
          /\ charges' = IF v = "accept" THEN [charges EXCEPT ![msg[s].txn] = @ + 1]
                        ELSE charges
      BY <1>3 DEF AcquirerAnswers
    <2>2. msg[s] \in Msg /\ msg[s].txn \in cleared
      BY <2>1 DEF SlotInv, SlotOK, Earned
    <2>3. msg[s].txn \in Txn
      BY <2>2, WorkerOfMsg
    <2>4. v = "accept" => Lifecycle!Charge(msg[s].txn)
      BY <2>1, <2>2 DEF Lifecycle!Charge
    <2> QED  BY <1>1, <2>1, <2>3, <2>4 DEF Lifecycle!Next
  <1>4. ASSUME NEW s \in Slot, SettlementAnswers(s)
        PROVE  [Lifecycle!Next]_(Lifecycle!lifecycleVars)
    <2>1. pc[s] = "settle" /\ UNCHANGED <<cleared, charges, store>>
          /\ settled' = settled \cup {msg[s].txn}
      BY <1>4 DEF SettlementAnswers
    <2>2. msg[s] \in Msg /\ msg[s].txn \in Lifecycle!Charged
      BY <2>1 DEF SlotInv, SlotOK, Earned
    <2>3. msg[s].txn \in Txn /\ Lifecycle!Settle(msg[s].txn)
      BY <2>1, <2>2, WorkerOfMsg DEF Lifecycle!Settle
    <2> QED  BY <2>3 DEF Lifecycle!Next
  <1>5. ASSUME NEW r \in Replica, StoreReply(r)
        PROVE  [Lifecycle!Next]_(Lifecycle!lifecycleVars)
    <2>1. conn[r] # <<>>
      BY <1>5 DEF StoreReply, Outstanding
    <2>2. PICK c \in Cmd : c = Head(conn[r])
      BY <2>1, HeadIsOnly
    <2>3. CmdJustified(c)
      BY <2>1, <2>2, HeadIsOnly DEF CmdJustified
    <2>4. c.op = "set" /\ store' = [store EXCEPT ![c.txn] = c.val]
      BY <1>5, <2>2 DEF StoreReply, Outstanding
    <2>5. UNCHANGED ledger
      BY <1>5 DEF StoreReply
    <2> QED  BY <2>3, <2>4, <2>5, RecordStep
  <1>6. ASSUME NEW s \in Slot, NEW m \in Msg, Deliver(s, m) \/ Throttle(s, m)
        PROVE  UNCHANGED <<cleared, charges, settled, store>>
    BY <1>6 DEF Deliver, DeliverValidation, DeliverFraudCheck, DeliverProcessing,
                DeliverSettlement, Throttle, redis, ledger
  <1>7. ASSUME NEW s \in Slot,
               Forward(s) \/ ForwardThrows(s) \/ Notify(s) \/ Ack(s) \/ Nack(s)
        PROVE  UNCHANGED <<cleared, charges, settled, store>>
    BY <1>7 DEF Forward, ForwardThrows, Notify, Ack, Nack, redis, ledger
  <1>8. ASSUME NEW r \in Replica,
               \/ FraudLookupReply(r) \/ FraudCacheReply(r) \/ Restart(r)
               \/ WindowElapses(r) \/ Crash(r) \/ Disconnect(r)
               \/ RedisRefuses(r) \/ RedisRejects(r) \/ RedisResends(r)
        PROVE  UNCHANGED <<cleared, charges, settled, store>>
    BY <1>8 DEF FraudLookupReply, FraudCacheReply, Restart, WindowElapses, Crash,
                Disconnect, RedisRefuses, RedisRejects, RedisResends, redis, ledger
  <1>9. ASSUME NEW t \in Txn, FraudResultExpires(t)
        PROVE  UNCHANGED <<cleared, charges, settled, store>>
    BY <1>9 DEF FraudResultExpires, ledger
  <1>10. CASE UNCHANGED vars
    BY <1>10, <1>1 DEF vars, redis, ledger
  <1> QED  BY <1>1, <1>2, <1>3, <1>4, <1>5, <1>6, <1>7, <1>8, <1>9, <1>10
           DEF Next, HandlerStep, RedisReply

\* The pipeline implements the abstract payment lifecycle.
THEOREM Refinement == Spec => ImplementsLifecycle
  <1>1. Init => Lifecycle!Init
    BY RefineInit
  <1>2. InductiveInv /\ [Next]_vars => [Lifecycle!Next]_(Lifecycle!lifecycleVars)
    BY RefineNext
  <1> QED  BY <1>1, <1>2, Invariance, PTL DEF Spec, ImplementsLifecycle, Lifecycle!Spec
=============================================================================
