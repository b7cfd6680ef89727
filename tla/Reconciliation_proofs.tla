------------------------ MODULE Reconciliation_proofs ------------------------
(***************************************************************************)
(* Reconciliation implements ReconciliationLedger for any number of        *)
(* threads, transactions and statements: a commit is a step of the ledger, *)
(* every other step leaves the ledger alone.                               *)
(***************************************************************************)
EXTENDS Reconciliation, TLAPS

\* The pairs and the reported statements that rows R stand for.
PairsOf(R) == {<<x.txn, x.stmt>> : x \in PairRows(R)}
AsideOf(R) == {x.stmt : x \in AsideRows(R)}
ClosedStmt == {s \in Stmt : stmtStatus[s] \in {"RECONCILED", "UNMATCHED"}}

ledger == <<PairsOf(results), AsideOf(results), reconciled, ClosedStmt>>

-----------------------------------------------------------------------------
\* What a run finds.

\* A run pairs transactions it has seen with statements it has seen that are
\* alike, each at most once.
LEMMA PairingsFacts ==
    ASSUME NEW r \in Runner, NEW p \in Pairings(r), TypeOK
    PROVE  /\ p \in [seenTxn[r] -> Stmt \cup {None}]
           /\ Matched(r, p) \subseteq arrived
           /\ \A t \in Matched(r, p) : <<t, p[t]>> \in Alike /\ p[t] \in seenStmt[r]
           /\ Taken(r, p) \subseteq seenStmt[r]
<1>1. seenTxn[r] \subseteq arrived
  BY DEF TypeOK
<1>2. p \in [seenTxn[r] -> Stmt \cup {None}]
  BY DEF Pairings
<1>3. \A t \in Matched(r, p) : p[t] \in Candidates(r, t)
  BY DEF Pairings, Matched
<1> QED BY <1>1, <1>2, <1>3 DEF Matched, Taken, Candidates

\* The rows of a run are rows of the table.
LEMMA NewRowsAreRows ==
    ASSUME NEW r \in Runner, NEW p \in Pairings(r), TypeOK
    PROVE  NewRows(r, p) \subseteq Row
<1>1. seenTxn[r] \subseteq Txn /\ seenStmt[r] \subseteq Stmt
  BY DEF TypeOK
<1>2. \A t \in Matched(r, p) : t \in Txn /\ p[t] \in Stmt
  BY <1>1, PairingsFacts DEF Matched
<1>3. \A t \in Matched(r, p) : PairRow(r, t, p[t]) \in Row
  BY <1>2 DEF PairRow, Row
<1>4. \A t \in seenTxn[r] : TxnRow(t) \in Row
  BY <1>1 DEF TxnRow, Row
<1>5. \A s \in seenStmt[r] : StmtRow(s) \in Row
  BY <1>1 DEF StmtRow, Row
<1> QED BY <1>3, <1>4, <1>5 DEF NewRows

\* What the rows of a run add to the ledger.
LEMMA NewRowsInLedger ==
    ASSUME NEW r \in Runner, NEW p \in Pairings(r), TypeOK
    PROVE  /\ PairsOf(NewRows(r, p)) = {<<t, p[t]>> : t \in Matched(r, p)}
           /\ AsideOf(NewRows(r, p)) = seenStmt[r] \ Taken(r, p)
<1>1. seenTxn[r] \subseteq Txn /\ seenStmt[r] \subseteq Stmt
  BY DEF TypeOK
<1>2. \A t \in Matched(r, p) : t \in Txn /\ p[t] \in Stmt
  BY <1>1, PairingsFacts DEF Matched
<1>3. None \notin Txn \cup Stmt
  BY ReconciliationAssumption
<1>4. \A t \in Matched(r, p) :
          /\ PairRow(r, t, p[t]).txn = t /\ PairRow(r, t, p[t]).stmt = p[t]
          /\ t # None /\ p[t] # None
  BY <1>2, <1>3 DEF PairRow
<1>5. \A t \in seenTxn[r] :
          TxnRow(t).txn = t /\ TxnRow(t).stmt = None /\ t # None
  BY <1>1, <1>3 DEF TxnRow
<1>6. \A s \in seenStmt[r] : StmtRow(s).txn = None /\ StmtRow(s).stmt = s
  BY DEF StmtRow
<1>7. PairRows(NewRows(r, p)) = {PairRow(r, t, p[t]) : t \in Matched(r, p)}
  BY <1>4, <1>5, <1>6 DEF NewRows, PairRows
<1>8. AsideRows(NewRows(r, p)) = {StmtRow(s) : s \in seenStmt[r] \ Taken(r, p)}
  BY <1>4, <1>5, <1>6 DEF NewRows, AsideRows
<1>9. PairsOf(NewRows(r, p)) = {<<t, p[t]>> : t \in Matched(r, p)}
  <2>1. PairsOf(NewRows(r, p)) =
            {<<x.txn, x.stmt>> : x \in {PairRow(r, t, p[t]) : t \in Matched(r, p)}}
    BY <1>7 DEF PairsOf
  <2> QED BY <2>1, <1>4
<1>10. AsideOf(NewRows(r, p)) = seenStmt[r] \ Taken(r, p)
  <2>1. AsideOf(NewRows(r, p)) =
            {x.stmt : x \in {StmtRow(s) : s \in seenStmt[r] \ Taken(r, p)}}
    BY <1>8 DEF AsideOf
  <2> QED BY <2>1, <1>6
<1> QED BY <1>9, <1>10

\* Rows of two sets stand for what each stands for.
LEMMA LedgerOfUnion ==
    ASSUME NEW R, NEW Q
    PROVE  /\ PairsOf(R \cup Q) = PairsOf(R) \cup PairsOf(Q)
           /\ AsideOf(R \cup Q) = AsideOf(R) \cup AsideOf(Q)
BY DEF PairsOf, AsideOf, PairRows, AsideRows

-----------------------------------------------------------------------------
\* Types.

LEMMA TypesInitially == Init => TypeOK
<1> SUFFICES ASSUME Init PROVE TypeOK
  OBVIOUS
<1>1. MaxEvents \in Nat
  BY ReconciliationAssumption
<1>2. events \in 0 .. MaxEvents /\ overlapped \in BOOLEAN
  <2>1. events = 0 /\ overlapped = FALSE
    BY DEF Init
  <2>2. events \in 0 .. MaxEvents
    BY <1>1, <2>1
  <2>3. overlapped \in BOOLEAN
    BY <2>1
  <2> QED BY <2>2, <2>3
<1>3. arrived \subseteq Txn /\ reconciled \subseteq arrived /\ results \subseteq Row
  BY DEF Init
<1>4. stmtStatus \in [Stmt -> {"ABSENT", "IMPORTED", "RECONCILED", "UNMATCHED"}]
  BY DEF Init
<1>5. phase \in [Runner -> {"idle", "selecting", "matching"}]
  BY DEF Init
<1>6. seenTxn \in [Runner -> SUBSET arrived] /\ seenStmt \in [Runner -> SUBSET Stmt]
  BY DEF Init
<1> QED BY <1>2, <1>3, <1>4, <1>5, <1>6 DEF TypeOK

\* Every step keeps the types.
LEMMA TypesKept ==
    ASSUME TypeOK, [Next]_vars
    PROVE  TypeOK'
<1>1. ASSUME NEW t \in Txn, Arrive(t) PROVE TypeOK'
  BY <1>1 DEF Arrive, TypeOK
<1>2. ASSUME NEW file \in Files, Import(file) PROVE TypeOK'
  BY <1>2 DEF Import, TypeOK
<1>3. ASSUME NEW r \in Runner, SelectTransactions(r) PROVE TypeOK'
  BY <1>3 DEF SelectTransactions, TypeOK
<1>4. ASSUME NEW r \in Runner, SelectStatements(r) PROVE TypeOK'
  BY <1>4 DEF SelectStatements, TypeOK
<1>5. ASSUME NEW r \in Runner, Commit(r) PROVE TypeOK'
  <2>1. PICK p \in Pairings(r) : CommitWith(r, p)
    BY <1>5 DEF Commit
  <2>2. results' \subseteq Row
    BY <2>1, NewRowsAreRows DEF CommitWith, TypeOK
  <2>3. reconciled' \subseteq arrived
    BY <2>1, PairingsFacts DEF CommitWith, TypeOK
  <2>4. stmtStatus' \in [Stmt -> {"ABSENT", "IMPORTED", "RECONCILED", "UNMATCHED"}]
    BY <2>1 DEF CommitWith, StatusAfter, TypeOK
  <2> QED BY <1>5, <2>2, <2>3, <2>4 DEF Commit, Idle, TypeOK
<1>6. ASSUME NEW r \in Runner, Rollback(r) PROVE TypeOK'
  BY <1>6, ReconciliationAssumption DEF Rollback, Idle, TypeOK
<1>7. ASSUME NEW x \in results, ApproveDiscrepancy(x) PROVE TypeOK'
  <2>1. Approved(x) \in Row
    BY DEF TypeOK, Row, Approved
  <2>2. results' \subseteq Row
    BY <1>7, <2>1 DEF ApproveDiscrepancy, Remaining, TypeOK
  <2> QED BY <1>7, <2>2, ReconciliationAssumption DEF ApproveDiscrepancy, TypeOK
<1>8. CASE UNCHANGED vars
  BY <1>8 DEF vars, TypeOK
<1> QED BY <1>1, <1>2, <1>3, <1>4, <1>5, <1>6, <1>7, <1>8 DEF Next

\* All variables of the service keep their types.
THEOREM TypeCorrect == Spec => []TypeOK
BY TypesInitially, TypesKept, PTL DEF Spec

-----------------------------------------------------------------------------
\* The refinement.

\* The first state of the service is the first state of the ledger.
LEMMA LedgerInitially == Init => Ledger!Init
BY DEF Init, Ledger!Init, PairRows, AsideRows

\* A commit is one step of the ledger: the pairs and the leftovers of the run.
LEMMA CommitIsReconcile ==
    ASSUME TypeOK, NEW r \in Runner, Commit(r)
    PROVE  Ledger!Next
<1>1. PICK p \in Pairings(r) : CommitWith(r, p)
  BY DEF Commit
<1> DEFINE P == {<<t, p[t]>> : t \in Matched(r, p)}
           A == seenStmt[r] \ Taken(r, p)
<1>2. P \in SUBSET Alike /\ A \in SUBSET Stmt
  BY PairingsFacts DEF TypeOK
<1>3. \A a, b \in P : a[1] = b[1] => a = b
  OBVIOUS
<1>4. Ledger!StmtsOf(P) = Taken(r, p) /\ Ledger!TxnsOf(P) = Matched(r, p)
  <2>1. \A a \in P : a[1] \in Matched(r, p) /\ a[2] = p[a[1]]
    OBVIOUS
  <2>2. \A t \in Matched(r, p) : \E a \in P : a[1] = t /\ a[2] = p[t]
    <3> TAKE t \in Matched(r, p)
    <3> WITNESS <<t, p[t]>> \in P
    <3> QED OBVIOUS
  <2> HIDE DEF P
  <2>3. Ledger!StmtsOf(P) = Taken(r, p)
    BY <2>1, <2>2 DEF Ledger!StmtsOf, Taken
  <2>4. Ledger!TxnsOf(P) = Matched(r, p)
    BY <2>1, <2>2 DEF Ledger!TxnsOf
  <2> QED BY <2>3, <2>4
<1>5. PairsOf(results') = PairsOf(results) \cup P
      /\ AsideOf(results') = AsideOf(results) \cup A
  <2>1. results' = results \cup NewRows(r, p)
    BY <1>1 DEF CommitWith
  <2>2. PairsOf(NewRows(r, p)) = P /\ AsideOf(NewRows(r, p)) = A
    BY NewRowsInLedger
  <2>3. /\ PairsOf(results \cup NewRows(r, p)) = PairsOf(results) \cup PairsOf(NewRows(r, p))
        /\ AsideOf(results \cup NewRows(r, p)) = AsideOf(results) \cup AsideOf(NewRows(r, p))
    BY LedgerOfUnion
  <2> HIDE DEF P, A
  <2> QED BY <2>1, <2>2, <2>3
<1>6. reconciled' = reconciled \cup Matched(r, p)
  BY <1>1 DEF CommitWith
<1>7. ClosedStmt' = ClosedStmt \cup Taken(r, p) \cup A
  <2>1. Taken(r, p) \subseteq seenStmt[r] /\ seenStmt[r] \subseteq Stmt
    BY PairingsFacts DEF TypeOK
  <2>2. \A s \in Stmt : stmtStatus'[s] = StatusAfter(r, p, s)
    BY <1>1 DEF CommitWith
  <2>3. \A s \in Stmt : stmtStatus'[s] \in {"RECONCILED", "UNMATCHED"}
                            <=> s \in ClosedStmt \cup seenStmt[r]
    BY <2>1, <2>2 DEF StatusAfter, ClosedStmt
  <2> QED BY <2>1, <2>3 DEF ClosedStmt
<1>8. Ledger!Reconcile(P, A)
  BY <1>3, <1>4, <1>5, <1>6, <1>7
     DEF Ledger!Reconcile, PairsOf, AsideOf, ClosedStmt
<1> HIDE DEF P, A
<1> QED BY <1>2, <1>8 DEF Ledger!Next, Ledger!Reconcile

\* An approval changes no pair: the row keeps its transaction and statement.
LEMMA ApprovalKeepsLedger ==
    ASSUME TypeOK, NEW x \in results, ApproveDiscrepancy(x)
    PROVE  UNCHANGED ledger
<1>1. /\ Approved(x).txn = x.txn /\ Approved(x).stmt = x.stmt
      /\ \E kept \in {{}, {x}} : results' = (results \ {x}) \cup {Approved(x)} \cup kept
  BY DEF TypeOK, Row, Approved, ApproveDiscrepancy, Remaining
<1>2. PairsOf(results') = PairsOf(results) /\ AsideOf(results') = AsideOf(results)
  BY <1>1 DEF PairsOf, AsideOf, PairRows, AsideRows
<1> QED BY <1>2 DEF ApproveDiscrepancy, ledger, ClosedStmt

\* Every step of the service is a step of the ledger or leaves it alone.
LEMMA StepIsLedgerStep ==
    ASSUME TypeOK, [Next]_vars
    PROVE  [Ledger!Next]_(Ledger!ledgerVars)
<1>0. ASSUME UNCHANGED ledger PROVE UNCHANGED Ledger!ledgerVars
  BY <1>0 DEF ledger, Ledger!ledgerVars, PairsOf, AsideOf, ClosedStmt
<1>1. ASSUME NEW t \in Txn, Arrive(t) PROVE UNCHANGED ledger
  BY <1>1 DEF Arrive, ledger, ClosedStmt
<1>2. ASSUME NEW file \in Files, Import(file) PROVE UNCHANGED ledger
  <2>1. ClosedStmt' = ClosedStmt
    BY <1>2 DEF Import, ClosedStmt
  <2> QED BY <1>2, <2>1 DEF Import, ledger
<1>3. ASSUME NEW r \in Runner, SelectTransactions(r) PROVE UNCHANGED ledger
  BY <1>3 DEF SelectTransactions, ledger, ClosedStmt
<1>4. ASSUME NEW r \in Runner, SelectStatements(r) PROVE UNCHANGED ledger
  BY <1>4 DEF SelectStatements, ledger, ClosedStmt
<1>5. ASSUME NEW r \in Runner, Rollback(r) PROVE UNCHANGED ledger
  BY <1>5 DEF Rollback, ledger, ClosedStmt
<1>6. ASSUME UNCHANGED vars PROVE UNCHANGED ledger
  BY <1>6 DEF vars, ledger, ClosedStmt
<1>7. ASSUME NEW x \in results, ApproveDiscrepancy(x) PROVE UNCHANGED ledger
  BY <1>7, ApprovalKeepsLedger
<1>8. UNCHANGED ledger \/ Ledger!Next
  BY <1>1, <1>2, <1>3, <1>4, <1>5, <1>6, <1>7, CommitIsReconcile DEF Next
<1> QED BY <1>0, <1>8

\* The reconciliation service implements the ledger.
THEOREM Refinement == Spec => ImplementsLedger
<1>1. TypeOK /\ [Next]_vars => [Ledger!Next]_(Ledger!ledgerVars)
  BY StepIsLedgerStep
<1> QED BY <1>1, LedgerInitially, TypeCorrect, PTL DEF Spec, ImplementsLedger, Ledger!Spec

-----------------------------------------------------------------------------
\* The ledger's flags, which the service inherits.

LEMMA FlagsInitially == Ledger!Init => FlagsAgree
BY DEF Ledger!Init, FlagsAgree, Ledger!FlagsAgree, Ledger!TxnsOf, Ledger!StmtsOf

\* The ends of two sets of pairs.
LEMMA EndsOfUnion ==
    ASSUME NEW P, NEW Q
    PROVE  /\ Ledger!TxnsOf(P \cup Q) = Ledger!TxnsOf(P) \cup Ledger!TxnsOf(Q)
           /\ Ledger!StmtsOf(P \cup Q) = Ledger!StmtsOf(P) \cup Ledger!StmtsOf(Q)
BY DEF Ledger!TxnsOf, Ledger!StmtsOf

\* Every step of the ledger keeps the flags and the rows in agreement.
LEMMA LedgerKeepsFlags ==
    ASSUME FlagsAgree, [Ledger!Next]_(Ledger!ledgerVars)
    PROVE  FlagsAgree'
<1> DEFINE pairs == {<<x.txn, x.stmt>> : x \in PairRows(results)}
           aside == {x.stmt : x \in AsideRows(results)}
<1>0. /\ FlagsAgree <=> /\ pairs \subseteq Alike
                        /\ reconciled = Ledger!TxnsOf(pairs)
                        /\ ClosedStmt = Ledger!StmtsOf(pairs) \cup aside
      /\ FlagsAgree' <=> /\ pairs' \subseteq Alike
                         /\ reconciled' = Ledger!TxnsOf(pairs')
                         /\ ClosedStmt' = Ledger!StmtsOf(pairs') \cup aside'
  BY DEF FlagsAgree, Ledger!FlagsAgree, ClosedStmt
<1>1. CASE UNCHANGED Ledger!ledgerVars
  <2>1. pairs' = pairs /\ aside' = aside /\ reconciled' = reconciled /\ ClosedStmt' = ClosedStmt
    BY <1>1 DEF Ledger!ledgerVars, ClosedStmt
  <2> HIDE DEF pairs, aside
  <2> QED BY <1>0, <2>1
<1>2. ASSUME NEW P \in SUBSET Alike, NEW A \in SUBSET Stmt, Ledger!Reconcile(P, A)
      PROVE  FlagsAgree'
  <2>1. /\ pairs' = pairs \cup P
        /\ aside' = aside \cup A
        /\ reconciled' = reconciled \cup Ledger!TxnsOf(P)
        /\ ClosedStmt' = ClosedStmt \cup Ledger!StmtsOf(P) \cup A
    BY <1>2 DEF Ledger!Reconcile, ClosedStmt
  <2> HIDE DEF pairs, aside
  <2>2. /\ Ledger!TxnsOf(pairs') = Ledger!TxnsOf(pairs) \cup Ledger!TxnsOf(P)
        /\ Ledger!StmtsOf(pairs') = Ledger!StmtsOf(pairs) \cup Ledger!StmtsOf(P)
    BY <2>1, EndsOfUnion
  <2> QED BY <1>0, <2>1, <2>2
<1> QED BY <1>1, <1>2 DEF Ledger!Next

\* What the tables say of a transaction or a statement is what the rows say.
THEOREM FlagsAlwaysAgree == Spec => []FlagsAgree
BY Refinement, FlagsInitially, LedgerKeepsFlags, PTL DEF ImplementsLedger, Ledger!Spec

-----------------------------------------------------------------------------
\* One verdict.  While no two runs have overlapped, what the run under way has
\* selected is still as selected when it commits.

\* At most one run is under way.
OneAtATime ==
    \A r, q \in Runner : phase[r] # "idle" /\ phase[q] # "idle" => r = q

\* What it has selected is still open.
SelectionFresh ==
    \A r \in Runner :
        /\ seenTxn[r] \cap reconciled = {}
        /\ \A s \in seenStmt[r] : stmtStatus[s] = "IMPORTED"
        /\ phase[r] = "idle" => seenTxn[r] = {}
        /\ phase[r] # "matching" => seenStmt[r] = {}

\* The rows of a set R say one thing of every transaction and statement.
RowsAgree(R, status) ==
    /\ \A x, y \in PairRows(R) : x.txn = y.txn => x = y
    /\ \A x \in PairRows(R) : status[x.stmt] = "RECONCILED"
    /\ \A x \in AsideRows(R) : status[x.stmt] = "UNMATCHED"

\* A pair is written by a run; its row stands for itself alone.
PairsAreSigned == \A x \in PairRows(results) : x.by \in Runner

VerdictInv ==
    ~overlapped => OneAtATime /\ SelectionFresh /\ RowsAgree(results, stmtStatus)

\* The invariant says more than the property.
LEMMA VerdictImplied == TypeOK /\ VerdictInv => OneVerdict
<1> SUFFICES ASSUME TypeOK, VerdictInv, ~overlapped,
                    NEW x \in PairRows(results), NEW y \in AsideRows(results)
             PROVE  x.stmt # y.stmt
  BY DEF VerdictInv, RowsAgree, OneVerdict
<1>1. stmtStatus[x.stmt] = "RECONCILED" /\ stmtStatus[y.stmt] = "UNMATCHED"
  BY DEF VerdictInv, RowsAgree
<1> QED BY <1>1

LEMMA VerdictInitially == Init => VerdictInv /\ PairsAreSigned
<1> SUFFICES ASSUME Init PROVE VerdictInv /\ PairsAreSigned
  OBVIOUS
<1>1. PairRows(results) = {} /\ AsideRows(results) = {}
  BY DEF Init, PairRows, AsideRows
<1>2. OneAtATime /\ SelectionFresh
  BY DEF Init, OneAtATime, SelectionFresh
<1> QED BY <1>1, <1>2 DEF VerdictInv, RowsAgree, PairsAreSigned

\* What the flags say of the rows.
LEMMA FlaggedRows ==
    ASSUME FlagsAgree
    PROVE  /\ \A x \in PairRows(results) : x.txn \in reconciled
           /\ \A x \in AsideRows(results) : x.stmt \in Stmt
<1>1. \A x \in PairRows(results) : <<x.txn, x.stmt>> \in PairsOf(results)
  BY DEF PairsOf
<1>2. /\ reconciled = Ledger!TxnsOf(PairsOf(results))
      /\ AsideOf(results) \subseteq ClosedStmt
  BY DEF FlagsAgree, Ledger!FlagsAgree, PairsOf, AsideOf, ClosedStmt
<1>3. \A x \in PairRows(results) : x.txn \in reconciled
  <2>1. \A a \in PairsOf(results) : a[1] \in reconciled
    BY <1>2 DEF Ledger!TxnsOf
  <2> TAKE x \in PairRows(results)
  <2>2. <<x.txn, x.stmt>>[1] \in reconciled
    BY <1>1, <2>1
  <2> QED BY <2>2
<1>4. \A x \in AsideRows(results) : x.stmt \in Stmt
  BY <1>2 DEF AsideOf, ClosedStmt
<1> QED BY <1>3, <1>4

\* Rows of a commit: the transactions are new to the table, the statements
\* were open until now.
LEMMA CommitAgrees ==
    ASSUME TypeOK, FlagsAgree, SelectionFresh, RowsAgree(results, stmtStatus),
           NEW r \in Runner, NEW p \in Pairings(r), CommitWith(r, p)
    PROVE  RowsAgree(results', stmtStatus')
<1> DEFINE N == NewRows(r, p)
<1>1. seenTxn[r] \subseteq Txn /\ seenStmt[r] \subseteq Stmt
  BY DEF TypeOK
<1>2. \A t \in Matched(r, p) : t \in Txn /\ p[t] \in seenStmt[r] /\ t \in seenTxn[r]
  BY <1>1, PairingsFacts DEF Matched
<1>3. None \notin Txn \cup Stmt
  BY ReconciliationAssumption
<1>4. \A t \in Matched(r, p) :
          /\ PairRow(r, t, p[t]).txn = t /\ PairRow(r, t, p[t]).stmt = p[t]
          /\ t # None /\ p[t] # None
  BY <1>1, <1>2, <1>3 DEF PairRow
<1>5. /\ \A t \in seenTxn[r] : TxnRow(t).txn = t /\ TxnRow(t).stmt = None /\ t # None
      /\ \A s \in seenStmt[r] : StmtRow(s).txn = None /\ StmtRow(s).stmt = s
  BY <1>1, <1>3 DEF TxnRow, StmtRow
<1>6. \A x \in PairRows(N) :
          \E t \in Matched(r, p) : x = PairRow(r, t, p[t]) /\ x.txn = t /\ x.stmt = p[t]
  BY <1>4, <1>5 DEF NewRows, PairRows
<1>7. \A x \in AsideRows(N) : x.stmt \in seenStmt[r] \ Taken(r, p)
  BY <1>4, <1>5 DEF NewRows, AsideRows
<1>8. \A x \in PairRows(results) :
          /\ x.txn \in reconciled
          /\ x.stmt \in Stmt
          /\ x.stmt \notin seenStmt[r]
  <2> TAKE x \in PairRows(results)
  <2>1. x.txn \in reconciled
    BY FlaggedRows
  <2>2. x.stmt \in Stmt
    BY DEF TypeOK, Row, PairRows
  <2>3. stmtStatus[x.stmt] = "RECONCILED"
    BY DEF RowsAgree
  <2> QED BY <2>1, <2>2, <2>3 DEF SelectionFresh
<1>9. \A x \in AsideRows(results) : x.stmt \notin seenStmt[r]
  <2> TAKE x \in AsideRows(results)
  <2>1. stmtStatus[x.stmt] = "UNMATCHED"
    BY DEF RowsAgree
  <2> QED BY <2>1 DEF SelectionFresh
<1>10. \A x \in AsideRows(results) : x.stmt \in Stmt
  BY FlaggedRows
<1>11. /\ PairRows(results') = PairRows(results) \cup PairRows(N)
       /\ AsideRows(results') = AsideRows(results) \cup AsideRows(N)
  BY DEF CommitWith, PairRows, AsideRows
<1>12. \A s \in Stmt : stmtStatus'[s] =
           IF s \in Taken(r, p) THEN "RECONCILED"
           ELSE IF s \in seenStmt[r] THEN "UNMATCHED" ELSE stmtStatus[s]
  BY DEF CommitWith, StatusAfter
<1>13. \A t \in Matched(r, p) : p[t] \in Taken(r, p) /\ t \notin reconciled
  BY <1>2 DEF Taken, SelectionFresh
<1>14. Taken(r, p) \subseteq seenStmt[r]
  BY PairingsFacts
<1> HIDE DEF N
<1>15. \A x, y \in PairRows(results') : x.txn = y.txn => x = y
  BY <1>6, <1>8, <1>11, <1>13 DEF RowsAgree
<1>16. \A x \in PairRows(results') : stmtStatus'[x.stmt] = "RECONCILED"
  <2> TAKE x \in PairRows(results')
  <2>1. CASE x \in PairRows(results)
    BY <2>1, <1>8, <1>12, <1>14 DEF RowsAgree
  <2>2. CASE x \in PairRows(N)
    BY <2>2, <1>1, <1>6, <1>12, <1>13, <1>14
  <2> QED BY <2>1, <2>2, <1>11
<1>17. \A x \in AsideRows(results') : stmtStatus'[x.stmt] = "UNMATCHED"
  <2> TAKE x \in AsideRows(results')
  <2>1. CASE x \in AsideRows(results)
    BY <2>1, <1>9, <1>10, <1>12, <1>14 DEF RowsAgree
  <2>2. CASE x \in AsideRows(N)
    BY <2>2, <1>1, <1>7, <1>12
  <2> QED BY <2>1, <2>2, <1>11
<1> QED BY <1>15, <1>16, <1>17 DEF RowsAgree

\* An approval keeps the writer of its row,
LEMMA ApprovalIsSigned ==
    ASSUME TypeOK, PairsAreSigned, NEW z \in results, ApproveDiscrepancy(z)
    PROVE  PairsAreSigned'
<1>1. Approved(z).txn = z.txn /\ Approved(z).stmt = z.stmt /\ Approved(z).by = z.by
  BY DEF TypeOK, Row, Approved
<1>2. results' \subseteq results \cup {Approved(z)}
  BY DEF ApproveDiscrepancy, Remaining
<1> QED BY <1>1, <1>2 DEF PairsAreSigned, PairRows

\* and its transaction and statement.
LEMMA ApprovalAgrees ==
    ASSUME TypeOK, PairsAreSigned, RowsAgree(results, stmtStatus),
           NEW z \in results, ApproveDiscrepancy(z)
    PROVE  RowsAgree(results', stmtStatus')
<1>1. /\ Approved(z).txn = z.txn
      /\ Approved(z).stmt = z.stmt
      /\ Approved(z).by = z.by
  BY DEF TypeOK, Row, Approved
<1>2. stmtStatus' = stmtStatus
  BY DEF ApproveDiscrepancy
<1>3. results' \subseteq results \cup {Approved(z)}
  BY DEF ApproveDiscrepancy, Remaining
<1>4. z \in PairRows(results) => results' = (results \ {z}) \cup {Approved(z)}
  <2> SUFFICES ASSUME z \in PairRows(results)
               PROVE  results' = (results \ {z}) \cup {Approved(z)}
    OBVIOUS
  <2>1. z.by # None
    BY ReconciliationAssumption DEF PairsAreSigned
  <2> QED BY <2>1 DEF ApproveDiscrepancy, Remaining
<1>5. \A x \in PairRows(results') :
          x \in PairRows(results) \/ (x = Approved(z) /\ z \in PairRows(results))
  BY <1>1, <1>3 DEF PairRows
<1>6. \A x \in AsideRows(results') :
          x \in AsideRows(results) \/ (x = Approved(z) /\ z \in AsideRows(results))
  BY <1>1, <1>3 DEF AsideRows
<1>7. \A x \in PairRows(results') : stmtStatus'[x.stmt] = "RECONCILED"
  BY <1>1, <1>2, <1>5 DEF RowsAgree
<1>8. \A x \in AsideRows(results') : stmtStatus'[x.stmt] = "UNMATCHED"
  BY <1>1, <1>2, <1>6 DEF RowsAgree
<1>9. \A x, y \in PairRows(results') : x.txn = y.txn => x = y
  <2> SUFFICES ASSUME NEW x \in PairRows(results'), NEW y \in PairRows(results'),
                      x.txn = y.txn
               PROVE  x = y
    OBVIOUS
  <2>1. CASE z \notin PairRows(results)
    BY <2>1, <1>5 DEF RowsAgree
  <2>2. CASE z \in PairRows(results)
    <3>1. \A w \in PairRows(results') :
              w = Approved(z) \/ (w \in PairRows(results) /\ w # z)
      BY <2>2, <1>4, <1>5 DEF PairRows
    <3> QED BY <2>2, <3>1, <1>1 DEF RowsAgree
  <2> QED BY <2>1, <2>2
<1> QED BY <1>7, <1>8, <1>9 DEF RowsAgree

\* The rows of a commit are signed by its thread.
LEMMA CommitIsSigned ==
    ASSUME TypeOK, PairsAreSigned, NEW r \in Runner, NEW p \in Pairings(r), CommitWith(r, p)
    PROVE  PairsAreSigned'
<1>1. \A x \in NewRows(r, p) : x.by = r \/ x.txn = None \/ x.stmt = None
  <2>1. \A t \in Matched(r, p) : PairRow(r, t, p[t]).by = r
    BY DEF PairRow
  <2>2. \A t \in seenTxn[r] : TxnRow(t).stmt = None
    BY DEF TxnRow
  <2>3. \A t \in seenStmt[r] : StmtRow(t).txn = None
    BY DEF StmtRow
  <2> QED BY <2>1, <2>2, <2>3 DEF NewRows
<1> QED BY <1>1 DEF PairsAreSigned, CommitWith, PairRows

\* Every step keeps the invariant.
LEMMA VerdictKept ==
    ASSUME TypeOK, FlagsAgree, VerdictInv, PairsAreSigned, [Next]_vars
    PROVE  VerdictInv' /\ PairsAreSigned'
<1>1. ASSUME NEW t \in Txn, Arrive(t) PROVE VerdictInv' /\ PairsAreSigned'
  BY <1>1 DEF Arrive, VerdictInv, PairsAreSigned, OneAtATime, SelectionFresh, RowsAgree
<1>2. ASSUME NEW file \in Files, Import(file) PROVE VerdictInv' /\ PairsAreSigned'
  <2>1. \A s \in Stmt : stmtStatus[s] # "ABSENT" => stmtStatus'[s] = stmtStatus[s]
    BY <1>2 DEF Import
  <2>2. UNCHANGED <<results, reconciled, phase, seenTxn, seenStmt, overlapped>>
    BY <1>2 DEF Import
  <2>3. /\ \A x \in PairRows(results) : x.stmt \in Stmt
        /\ \A x \in AsideRows(results) : x.stmt \in Stmt
        /\ \A r \in Runner : seenStmt[r] \subseteq Stmt
    BY FlaggedRows DEF TypeOK, Row, PairRows
  <2>4. SelectionFresh => SelectionFresh'
    BY <2>1, <2>2, <2>3 DEF SelectionFresh
  <2>5. RowsAgree(results, stmtStatus) => RowsAgree(results', stmtStatus')
    BY <2>1, <2>2, <2>3 DEF RowsAgree
  <2> QED BY <2>2, <2>4, <2>5 DEF VerdictInv, PairsAreSigned, OneAtATime
<1>3. ASSUME NEW r \in Runner, SelectTransactions(r) PROVE VerdictInv' /\ PairsAreSigned'
  <2>1. UNCHANGED <<results, stmtStatus, reconciled, seenStmt>>
    BY <1>3 DEF SelectTransactions
  <2> SUFFICES ASSUME ~overlapped' PROVE OneAtATime' /\ SelectionFresh'
    BY <1>3, <2>1 DEF SelectTransactions, VerdictInv, PairsAreSigned
  <2>2. ~overlapped /\ \A q \in Runner \ {r} : phase[q] = "idle"
    BY <1>3 DEF SelectTransactions
  <2>3. /\ \A q \in Runner \ {r} : phase'[q] = "idle"
        /\ \A q \in Runner \ {r} : seenTxn'[q] = seenTxn[q]
        /\ phase'[r] = "selecting" /\ phase[r] = "idle"
        /\ seenTxn'[r] = arrived \ reconciled
    BY <1>3, <2>2 DEF SelectTransactions, TypeOK
  <2>4. OneAtATime'
    BY <2>3 DEF OneAtATime
  <2>5. SelectionFresh
    BY <2>2 DEF VerdictInv
  <2>6. SelectionFresh'
    BY <2>1, <2>2, <2>3, <2>5 DEF SelectionFresh
  <2> QED BY <2>4, <2>6
<1>4. ASSUME NEW r \in Runner, SelectStatements(r) PROVE VerdictInv' /\ PairsAreSigned'
  <2>1. UNCHANGED <<results, stmtStatus, reconciled, seenTxn, overlapped>>
    BY <1>4 DEF SelectStatements
  <2>2. /\ \A q \in Runner \ {r} : phase'[q] = phase[q] /\ seenStmt'[q] = seenStmt[q]
        /\ phase'[r] = "matching" /\ phase[r] = "selecting"
        /\ seenStmt'[r] = {s \in Stmt : stmtStatus[s] = "IMPORTED"}
    BY <1>4 DEF SelectStatements, TypeOK
  <2>3. OneAtATime => OneAtATime'
    BY <2>2 DEF OneAtATime
  <2>4. SelectionFresh => SelectionFresh'
    BY <2>1, <2>2 DEF SelectionFresh
  <2> QED BY <2>1, <2>3, <2>4 DEF VerdictInv, PairsAreSigned
<1>5. ASSUME NEW r \in Runner, Commit(r) PROVE VerdictInv' /\ PairsAreSigned'
  <2>1. PICK p \in Pairings(r) : CommitWith(r, p)
    BY <1>5 DEF Commit
  <2>2. PairsAreSigned'
    BY <2>1, CommitIsSigned
  <2> SUFFICES ASSUME ~overlapped' PROVE VerdictInv'
    BY <2>2 DEF VerdictInv
  <2>3. ~overlapped /\ OneAtATime /\ SelectionFresh /\ RowsAgree(results, stmtStatus)
    BY <1>5 DEF Commit, VerdictInv
  <2>4. RowsAgree(results', stmtStatus')
    BY <2>1, <2>3, CommitAgrees
  <2>5. /\ \A q \in Runner \ {r} : phase'[q] = phase[q]
                                   /\ seenTxn'[q] = seenTxn[q] /\ seenStmt'[q] = seenStmt[q]
        /\ phase'[r] = "idle" /\ phase[r] = "matching"
        /\ seenTxn'[r] = {} /\ seenStmt'[r] = {}
    BY <1>5 DEF Commit, Idle, TypeOK
  <2>6. \A q \in Runner \ {r} : phase[q] = "idle" /\ seenTxn[q] = {} /\ seenStmt[q] = {}
    BY <2>3, <2>5 DEF OneAtATime, SelectionFresh
  <2>7. OneAtATime' /\ SelectionFresh'
    BY <2>5, <2>6 DEF OneAtATime, SelectionFresh
  <2> QED BY <2>4, <2>7 DEF VerdictInv
<1>6. ASSUME NEW r \in Runner, Rollback(r) PROVE VerdictInv' /\ PairsAreSigned'
  <2>1. UNCHANGED <<results, stmtStatus, reconciled, overlapped>>
    BY <1>6 DEF Rollback
  <2>2. /\ \A q \in Runner \ {r} : phase'[q] = phase[q]
                                   /\ seenTxn'[q] = seenTxn[q] /\ seenStmt'[q] = seenStmt[q]
        /\ phase'[r] = "idle" /\ seenTxn'[r] = {} /\ seenStmt'[r] = {}
    BY <1>6 DEF Rollback, Idle, TypeOK
  <2>3. OneAtATime => OneAtATime'
    BY <2>2 DEF OneAtATime
  <2>4. SelectionFresh => SelectionFresh'
    BY <2>1, <2>2 DEF SelectionFresh
  <2> QED BY <2>1, <2>3, <2>4 DEF VerdictInv, PairsAreSigned
<1>7. ASSUME NEW x \in results, ApproveDiscrepancy(x) PROVE VerdictInv' /\ PairsAreSigned'
  <2>1. UNCHANGED <<stmtStatus, reconciled, phase, seenTxn, seenStmt, overlapped>>
    BY <1>7 DEF ApproveDiscrepancy
  <2>2. (OneAtATime => OneAtATime') /\ (SelectionFresh => SelectionFresh')
    BY <2>1 DEF OneAtATime, SelectionFresh
  <2> QED BY <1>7, <2>1, <2>2, ApprovalIsSigned, ApprovalAgrees DEF VerdictInv
<1>8. CASE UNCHANGED vars
  BY <1>8 DEF vars, VerdictInv, PairsAreSigned, OneAtATime, SelectionFresh, RowsAgree
<1> QED BY <1>1, <1>2, <1>3, <1>4, <1>5, <1>6, <1>7, <1>8 DEF Next

\* Runs that do not overlap give every statement one verdict.
THEOREM OneVerdictHolds == Spec => []OneVerdict
BY TypeCorrect, FlagsAlwaysAgree, VerdictInitially, VerdictKept, VerdictImplied, PTL DEF Spec

-----------------------------------------------------------------------------
\* A pair that is present is not missed: what PresentPairIsFound rests on.

\* Transaction t and statement s are both there while no run is under way.
Present(t, s) ==
    /\ t \in arrived
    /\ stmtStatus[s] = "IMPORTED"
    /\ \A r \in Runner : phase[r] = "idle"

\* t is closed, or s is open and every run under way has selected both.
FoundOrSeen(t, s) ==
    \/ t \in reconciled
    \/ /\ t \in arrived
       /\ stmtStatus[s] = "IMPORTED"
       /\ \A r \in Runner : /\ phase[r] # "idle" => t \in seenTxn[r]
                            /\ phase[r] = "matching" => s \in seenStmt[r]

\* A run that has selected both pairs the transaction, if not with s.
LEMMA CommitFinds ==
    ASSUME NEW r \in Runner, NEW t \in seenTxn[r], NEW s \in seenStmt[r],
           <<t, s>> \in Alike, Commit(r), TypeOK
    PROVE  t \in reconciled'
<1>1. PICK p \in Pairings(r) : CommitWith(r, p)
  BY DEF Commit
<1>2. s \in Candidates(r, t)
  BY DEF Candidates
<1>3. p[t] \in Stmt
  BY <1>2 DEF Pairings, Candidates, TypeOK
<1>4. t \in Matched(r, p)
  BY <1>3, ReconciliationAssumption DEF Matched
<1> QED BY <1>1, <1>4 DEF CommitWith

LEMMA StaysFoundOrSeen ==
    ASSUME TypeOK, NEW t \in Txn, NEW s \in Stmt, <<t, s>> \in Alike,
           FoundOrSeen(t, s), [Next]_vars
    PROVE  /\ FoundOrSeen(t, s)'
           /\ \A r \in Runner : Commit(r) => t \in reconciled'
<1>1. reconciled \subseteq reconciled'
  <2>1. ASSUME NEW r \in Runner, Commit(r) PROVE reconciled \subseteq reconciled'
    BY <2>1 DEF Commit, CommitWith
  <2> QED BY <2>1 DEF Next, Arrive, Import, SelectTransactions, SelectStatements, Rollback,
                      ApproveDiscrepancy, vars
<1>2. CASE t \in reconciled
  BY <1>1, <1>2 DEF FoundOrSeen
<1>3. CASE t \notin reconciled
  <2> USE <1>3 DEF FoundOrSeen
  <2>1. ASSUME NEW r \in Runner, Commit(r) PROVE t \in reconciled'
    BY <2>1, CommitFinds DEF Commit
  <2>2. ASSUME NEW u \in Txn, Arrive(u) PROVE FoundOrSeen(t, s)'
    BY <2>2 DEF Arrive
  <2>3. ASSUME NEW file \in Files, Import(file) PROVE FoundOrSeen(t, s)'
    BY <2>3 DEF Import
  <2>4. ASSUME NEW r \in Runner, SelectTransactions(r) PROVE FoundOrSeen(t, s)'
    BY <2>4 DEF SelectTransactions, TypeOK
  <2>5. ASSUME NEW r \in Runner, SelectStatements(r) PROVE FoundOrSeen(t, s)'
    BY <2>5 DEF SelectStatements, TypeOK
  <2>6. ASSUME NEW r \in Runner, Rollback(r) PROVE FoundOrSeen(t, s)'
    BY <2>6 DEF Rollback, Idle, TypeOK
  <2>7. ASSUME NEW x \in results, ApproveDiscrepancy(x) PROVE FoundOrSeen(t, s)'
    BY <2>7 DEF ApproveDiscrepancy
  <2>8. ASSUME UNCHANGED vars PROVE FoundOrSeen(t, s)'
    BY <2>8 DEF vars
  <2>9. ASSUME NEW r \in Runner, Commit(r) PROVE FoundOrSeen(t, s)'
    BY <2>1, <2>9
  <2> QED BY <2>1, <2>2, <2>3, <2>4, <2>5, <2>6, <2>7, <2>8, <2>9 DEF Next
<1> QED BY <1>2, <1>3

\* A transaction and a statement alike that are both present while no run is
\* under way: from then on no run, overlapping or failing, can take the
\* statement without the transaction being paired, and the first commit pairs
\* it.  That some run commits is what fairness adds in PresentPairIsFound.
THEOREM PresentPairIsNotMissed ==
    ASSUME NEW t \in Txn, NEW s \in Stmt, <<t, s>> \in Alike
    PROVE  Spec => [](Present(t, s) =>
                          /\ []FoundOrSeen(t, s)
                          /\ [][\A r \in Runner : Commit(r) => t \in reconciled']_vars)
<1>1. Present(t, s) => FoundOrSeen(t, s)
  BY DEF Present, FoundOrSeen
<1>2. TypeOK /\ FoundOrSeen(t, s) /\ [Next]_vars => FoundOrSeen(t, s)'
  BY StaysFoundOrSeen
<1>3. TypeOK /\ FoundOrSeen(t, s) /\ [Next]_vars
        => [\A r \in Runner : Commit(r) => t \in reconciled']_vars
  BY StaysFoundOrSeen
<1> QED BY <1>1, <1>2, <1>3, TypeCorrect, PTL DEF Spec
=============================================================================
