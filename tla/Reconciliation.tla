--------------------------- MODULE Reconciliation ---------------------------
(***************************************************************************)
(* ReconciliationService of the reconciliation service.  A run of          *)
(* reconcile() is one database transaction at READ COMMITTED: it selects   *)
(* the open transactions, then the imported statements, pairs them in      *)
(* memory and writes everything at its end, without looking again.  Runs   *)
(* start from the Quartz trigger of every replica, whose job stores are    *)
(* in memory and know nothing of each other, and from every GET /status.   *)
(*                                                                         *)
(* Nothing in the repository inserts transactions: Arrive stands for the   *)
(* acquirer's feed.                                                        *)
(***************************************************************************)
EXTENDS Naturals, FiniteSets

CONSTANTS Txn,           \* rows of table transactions
          Stmt,          \* rows of table bank_statements, by bank_reference
          Files,         \* the sets of statements that imported files hold
          Alike,         \* pairs for which fuzzyMatch is true
          SameAmount,    \* pairs with equal amounts
          Runner,        \* threads that execute reconcile()
          None,          \* SQL NULL
          MaxEvents      \* bound: database transactions that fail, and
                         \* approvals, together

ASSUME ReconciliationAssumption ==
    /\ Alike \subseteq Txn \X Stmt
    /\ SameAmount \subseteq Txn \X Stmt
    /\ Files \subseteq SUBSET Stmt
    /\ None \notin Txn \cup Stmt \cup Runner
    /\ MaxEvents \in Nat

VARIABLES
    arrived,      \* transactions present
    reconciled,   \* those whose flag "reconciled" is set
    stmtStatus,   \* column "status" of each statement
    results,      \* rows of reconciliation_results
    phase,        \* where each run stands
    seenTxn,      \* the list "unreconciled" of each run
    seenStmt,     \* the list "statements" of each run
    events,       \* failures and approvals so far
    overlapped    \* history: two runs have been under way at once

vars == <<arrived, reconciled, stmtStatus, results, phase, seenTxn, seenStmt,
          events, overlapped>>

\* The row of a pair also names the thread that wrote it: the same pair found
\* by two threads is two rows.  The rows that successive runs write for one
\* transaction or one statement alone are a single element.
Row == [txn : Txn \cup {None}, stmt : Stmt \cup {None},
        status : {"MATCHED", "DISCREPANCY", "UNMATCHED"}, by : Runner \cup {None}]

PairRows(R) == {x \in R : x.txn # None /\ x.stmt # None}
AsideRows(R) == {x \in R : x.txn = None}

Init ==
    /\ arrived = {}
    /\ reconciled = {}
    /\ stmtStatus = [s \in Stmt |-> "ABSENT"]
    /\ results = {}
    /\ phase = [r \in Runner |-> "idle"]
    /\ seenTxn = [r \in Runner |-> {}]
    /\ seenStmt = [r \in Runner |-> {}]
    /\ events = 0
    /\ overlapped = FALSE

-----------------------------------------------------------------------------

Arrive(t) ==
    /\ t \notin arrived
    /\ arrived' = arrived \cup {t}
    /\ UNCHANGED <<reconciled, stmtStatus, results, phase, seenTxn, seenStmt,
                   events, overlapped>>

\* saveAll in one database transaction: a reference already present makes the
\* whole import fail.
Import(file) ==
    /\ file # {}
    /\ \A s \in file : stmtStatus[s] = "ABSENT"
    /\ stmtStatus' = [s \in Stmt |-> IF s \in file THEN "IMPORTED" ELSE stmtStatus[s]]
    /\ UNCHANGED <<arrived, reconciled, results, phase, seenTxn, seenStmt,
                   events, overlapped>>

\* findByReconciledFalse.
SelectTransactions(r) ==
    /\ phase[r] = "idle"
    /\ phase' = [phase EXCEPT ![r] = "selecting"]
    /\ seenTxn' = [seenTxn EXCEPT ![r] = arrived \ reconciled]
    /\ overlapped' = (overlapped \/ \E q \in Runner \ {r} : phase[q] # "idle")
    /\ UNCHANGED <<arrived, reconciled, stmtStatus, results, seenStmt,
                   events>>

\* findByStatus("IMPORTED").
SelectStatements(r) ==
    /\ phase[r] = "selecting"
    /\ phase' = [phase EXCEPT ![r] = "matching"]
    /\ seenStmt' = [seenStmt EXCEPT ![r] = {s \in Stmt : stmtStatus[s] = "IMPORTED"}]
    /\ UNCHANGED <<arrived, reconciled, stmtStatus, results, seenTxn,
                   events, overlapped>>

Candidates(r, t) == {s \in seenStmt[r] : <<t, s>> \in Alike}

\* The list of statements has no ORDER BY: any order, the same for all
\* transactions of a run.
ListOrder == {rank \in [Stmt -> 1 .. Cardinality(Stmt)] :
                  \A s, u \in Stmt : rank[s] = rank[u] => s = u}

\* Each transaction takes the first statement that matches, taken or not.
Pairings(r) ==
    {p \in [seenTxn[r] -> Stmt \cup {None}] :
        /\ \A t \in seenTxn[r] :
               IF Candidates(r, t) = {} THEN p[t] = None ELSE p[t] \in Candidates(r, t)
        /\ \E rank \in ListOrder :
               \A t \in seenTxn[r] : \A s \in Candidates(r, t) : rank[p[t]] <= rank[s]}

Matched(r, p) == {t \in seenTxn[r] : p[t] # None}
Taken(r, p) == {p[t] : t \in Matched(r, p)}

PairRow(r, t, s) ==
    [txn |-> t, stmt |-> s, by |-> r,
     status |-> IF <<t, s>> \in SameAmount THEN "MATCHED" ELSE "DISCREPANCY"]
TxnRow(t) == [txn |-> t, stmt |-> None, by |-> None, status |-> "UNMATCHED"]
StmtRow(s) == [txn |-> None, stmt |-> s, by |-> None, status |-> "UNMATCHED"]

NewRows(r, p) ==
    {PairRow(r, t, p[t]) : t \in Matched(r, p)}
        \cup {TxnRow(t) : t \in seenTxn[r] \ Matched(r, p)}
        \cup {StmtRow(s) : s \in seenStmt[r] \ Taken(r, p)}

\* Slips in the status a statement gets, a mere string: the first loop writes the
\* name a result has; the last does not look at what the first has set; it is
\* missing; a statement of another amount stays open.
StatusOfResult(r, p, s) ==
    IF s \in Taken(r, p) THEN "MATCHED"
    ELSE IF s \in seenStmt[r] THEN "UNMATCHED" ELSE stmtStatus[s]
StatusLeftoverUnchecked(r, p, s) ==
    IF s \in seenStmt[r] THEN "UNMATCHED" ELSE stmtStatus[s]
StatusWithoutLeftovers(r, p, s) ==
    IF s \in Taken(r, p) THEN "RECONCILED" ELSE stmtStatus[s]
StatusDiscrepancyOpen(r, p, s) ==
    IF \E t \in Matched(r, p) : p[t] = s /\ <<t, s>> \in SameAmount THEN "RECONCILED"
    ELSE IF s \in seenStmt[r] \ Taken(r, p) THEN "UNMATCHED" ELSE stmtStatus[s]

\* The statement's status as the run has it in memory: no version column
\* guards the update.
StatusAfter(r, p, s) ==
    IF s \in Taken(r, p) THEN "RECONCILED"
    ELSE IF s \in seenStmt[r] THEN "UNMATCHED" ELSE stmtStatus[s]

Idle(r) ==
    /\ phase' = [phase EXCEPT ![r] = "idle"]
    /\ seenTxn' = [seenTxn EXCEPT ![r] = {}]
    /\ seenStmt' = [seenStmt EXCEPT ![r] = {}]

\* Slips: every transaction seen is closed; only those of equal amount are.
CommitClosesAll(r, p) ==
    /\ results' = results \cup NewRows(r, p)
    /\ reconciled' = reconciled \cup seenTxn[r]
    /\ stmtStatus' = [s \in Stmt |-> StatusAfter(r, p, s)]
CommitClosesEqual(r, p) ==
    /\ results' = results \cup NewRows(r, p)
    /\ reconciled' = reconciled \cup {t \in Matched(r, p) : <<t, p[t]>> \in SameAmount}
    /\ stmtStatus' = [s \in Stmt |-> StatusAfter(r, p, s)]

CommitWith(r, p) ==
    /\ results' = results \cup NewRows(r, p)
    /\ reconciled' = reconciled \cup Matched(r, p)
    /\ stmtStatus' = [s \in Stmt |-> StatusAfter(r, p, s)]

Commit(r) ==
    /\ phase[r] = "matching"
    /\ \E p \in Pairings(r) : CommitWith(r, p)
    /\ Idle(r)
    /\ UNCHANGED <<arrived, events, overlapped>>

\* A crash, a lost connection or a deadlock of two overlapping runs.
Rollback(r) ==
    /\ phase[r] # "idle"
    /\ events < MaxEvents
    /\ events' = events + 1
    /\ Idle(r)
    /\ UNCHANGED <<arrived, reconciled, stmtStatus, results, overlapped>>

\* approveDiscrepancy changes the row, and neither the transaction nor the
\* statement.  An element that stands for the rows of several runs may stay.
Approved(x) == [x EXCEPT !.status = "MATCHED"]

Remaining(x) == IF x.by = None THEN {{}, {x}} ELSE {{}}

ApproveDiscrepancy(x) ==
    /\ x.status # "MATCHED"
    /\ events < MaxEvents
    /\ events' = events + 1
    /\ \E kept \in Remaining(x) :
           results' = (results \ {x}) \cup {Approved(x)} \cup kept
    /\ UNCHANGED <<arrived, reconciled, stmtStatus, phase, seenTxn, seenStmt,
                   overlapped>>

Next ==
    \/ \E t \in Txn : Arrive(t)
    \/ \E file \in Files : Import(file)
    \/ \E r \in Runner :
           SelectTransactions(r) \/ SelectStatements(r) \/ Commit(r) \/ Rollback(r)
    \/ \E x \in results : ApproveDiscrepancy(x)

\* The trigger fires every day and the database answers.
Fairness ==
    \A r \in Runner :
        WF_vars(SelectTransactions(r)) /\ WF_vars(SelectStatements(r)) /\ WF_vars(Commit(r))

Spec == Init /\ [][Next]_vars
FairSpec == Spec /\ Fairness

-----------------------------------------------------------------------------

\* All variables keep their types.
TypeOK ==
    /\ arrived \subseteq Txn
    /\ reconciled \subseteq arrived
    /\ stmtStatus \in [Stmt -> {"ABSENT", "IMPORTED", "RECONCILED", "UNMATCHED"}]
    /\ results \subseteq Row
    /\ phase \in [Runner -> {"idle", "selecting", "matching"}]
    /\ seenTxn \in [Runner -> SUBSET arrived]
    /\ seenStmt \in [Runner -> SUBSET Stmt]
    /\ events \in 0 .. MaxEvents
    /\ overlapped \in BOOLEAN

\* Whatever the runs, crashes and approvals, the tables behave as a ledger:
\* a transaction is closed only by a row that names the statement paying for
\* it, a statement only by such a row or by a report that nothing matched, and
\* neither is reopened.
Ledger == INSTANCE ReconciliationLedger WITH
    pairs <- {<<x.txn, x.stmt>> : x \in PairRows(results)},
    aside <- {x.stmt : x \in AsideRows(results)},
    closedTxn <- reconciled,
    closedStmt <- {s \in Stmt : stmtStatus[s] \in {"RECONCILED", "UNMATCHED"}}

ImplementsLedger == Ledger!Spec
FlagsAgree == Ledger!FlagsAgree

\* As long as no two runs have overlapped, a transaction is paired once, its
\* statement is RECONCILED, and no statement is both paired and reported as
\* unmatched.  (Overlapping runs may break each of the three: the status of a
\* statement is then that of the run that committed last.)
OneVerdict ==
    ~overlapped =>
        /\ \A x, y \in PairRows(results) : x.txn = y.txn => x = y
        /\ \A x \in PairRows(results) : stmtStatus[x.stmt] = "RECONCILED"
        /\ \A x \in PairRows(results), y \in AsideRows(results) : x.stmt # y.stmt

\* Every imported statement is paired or reported in the end.
StatementsResolved ==
    \A s \in Stmt : [](stmtStatus[s] = "IMPORTED"
                          => <>(stmtStatus[s] \in {"RECONCILED", "UNMATCHED"}))

\* A transaction and a statement alike that are both present while no run is
\* under way are found by the runs that follow, even if those overlap or fail.
\* (A transaction that arrives between the two SELECTs of a run may lose its
\* statement to the report of unmatched ones, and is then never paired.)
PresentPairIsFound ==
    \A p \in Alike :
        (/\ p[1] \in arrived
         /\ stmtStatus[p[2]] = "IMPORTED"
         /\ \A r \in Runner : phase[r] = "idle")
            ~> (p[1] \in reconciled)
=============================================================================
