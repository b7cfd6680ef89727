SPECIFICATION FairSpec
CONSTANTS
    Txn <- MCTxn
    Stmt <- MCStmt
    Files <- MCFiles
    Alike <- MCAlike
    SameAmount <- MCSameAmount
    Runner = {r1, r2}
    None = None
    MaxEvents = 1
INVARIANTS
    TypeOK
    FlagsAgree
    OneVerdict
PROPERTIES
    ImplementsLedger
    StatementsResolved
    PresentPairIsFound
