-------------------------- MODULE MCReconciliation --------------------------
(***************************************************************************)
(* The instance of Reconciliation: two transactions and two statements     *)
(* whose likeness BankStatementParser computes.  Transaction t1 fits both  *)
(* statements, s2 only with another amount; t2 fits s2 alone.              *)
(***************************************************************************)
EXTENDS Reconciliation, BankStatementParser

TxnData ==
    [t1 |-> [amount |-> 100, digits |-> <<1, 0, 0>>, date |-> 1,
             text |-> <<"p", "a", "y", "1", "m">>],
     t2 |-> [amount |-> 190, digits |-> <<1, 9, 0>>, date |-> 2,
             text |-> <<"o", "t", "h">>]]
StmtData ==
    [s1 |-> [amount |-> 100, digits |-> <<1, 0, 0>>, date |-> 1,
             text |-> <<"f", "e", "e">>],
     s2 |-> [amount |-> 190, digits |-> <<1, 9, 0>>, date |-> 2,
             text |-> <<"p", "a", "y", "1", "m">>]]

MCTxn == DOMAIN TxnData
MCStmt == DOMAIN StmtData
MCAlike == {<<"t1", "s1">>, <<"t1", "s2">>, <<"t2", "s2">>}
MCSameAmount == {<<"t1", "s1">>, <<"t2", "s2">>}

ASSUME LikenessIsFuzzyMatch ==
    \A t \in MCTxn, s \in MCStmt :
        /\ <<t, s>> \in MCAlike <=> FuzzyMatch(TxnData[t], StmtData[s])
        /\ <<t, s>> \in MCSameAmount <=> TxnData[t].amount = StmtData[s].amount

-----------------------------------------------------------------------------
\* The files to import.  A line is its tag and the reference it belongs to.

OFXEntry(n, tags) == [i \in DOMAIN tags |-> [tag |-> tags[i], value |-> n]]

OFXFile ==
    OFXEntry("s1", <<"STMTTRN", "TRNAMT", "DTPOSTED", "FITID", "MEMO">>)
        \o OFXEntry("s2", <<"STMTTRN", "FITID", "MEMO", "DTPOSTED", "TRNAMT">>)
SpoiltCSVFile ==
    <<[tag |-> "header", value |-> Null], [tag |-> "detail", value |-> "s1"],
      [tag |-> "detail", value |-> Null]>>

MCFiles ==
    {{e["FITID"] : e \in Range(ParseOFX(OFXFile))},
     {l.value : l \in Range(ParseLines(SpoiltCSVFile))}}
=============================================================================
