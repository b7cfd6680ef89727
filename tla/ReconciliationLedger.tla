------------------------ MODULE ReconciliationLedger ------------------------
(***************************************************************************)
(* What reconciliation promises, whoever starts it and however its runs    *)
(* overlap: a transaction is closed only together with the statement that  *)
(* pays for it, a statement only when it is paired or reported as          *)
(* unmatched, and what is closed, paired or reported stays so.             *)
(*                                                                         *)
(* Reconciliation implements this specification.                           *)
(***************************************************************************)
CONSTANTS Txn,         \* the transactions of the acquirer
          Stmt,        \* the entries of the bank's statements
          Alike        \* the pairs the fuzzy match accepts

VARIABLES pairs,       \* pairs found
          aside,       \* statements reported as unmatched
          closedTxn,   \* transactions no run will look at again
          closedStmt   \* statements no run will look at again

ledgerVars == <<pairs, aside, closedTxn, closedStmt>>

TxnsOf(P) == {p[1] : p \in P}
StmtsOf(P) == {p[2] : p \in P}

Init ==
    /\ pairs = {}
    /\ aside = {}
    /\ closedTxn = {}
    /\ closedStmt = {}

\* A run pairs each transaction at most once and sets aside only statements
\* it has not paired.
Reconcile(P, A) ==
    /\ \A p, q \in P : p[1] = q[1] => p = q
    /\ StmtsOf(P) \cap A = {}
    /\ pairs' = pairs \cup P
    /\ aside' = aside \cup A
    /\ closedTxn' = closedTxn \cup TxnsOf(P)
    /\ closedStmt' = closedStmt \cup StmtsOf(P) \cup A

Next == \E P \in SUBSET Alike, A \in SUBSET Stmt : Reconcile(P, A)

Spec == Init /\ [][Next]_ledgerVars

-----------------------------------------------------------------------------
\* The flags of transactions and statements say what the result rows say.
FlagsAgree ==
    /\ pairs \subseteq Alike
    /\ closedTxn = TxnsOf(pairs)
    /\ closedStmt = StmtsOf(pairs) \cup aside
=============================================================================
