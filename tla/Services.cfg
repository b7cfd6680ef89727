SPECIFICATION Spec
CONSTANTS
    Call = {c1, c2, c3}
    FailureThreshold = 2
    SuccessThreshold = 2
    Payment <- MCPayment
    Amount <- MCAmount
    Location <- MCLocation
    Nowhere = Nowhere
    Averages = {5}
    CardLimit = 1
    SmallLimit = 2
    MaxFaults = 1
    Hook <- MCHook
    Subscribed <- MCSubscribed
    MaxRetries = 2
    MaxDeletes = 1
    Execution = {x1, x2}
    NoExecution = NoExecution
    MaxLosses = 2
    Loop = {0, 1, 2, 3, 4}
    MainLoop = 0
    Conn = {k1, k2}
    NoConn = NoConn
    Stale = Stale
    MaxTries = 2
    MaxLost = 2
    Pod = {r1, r2}
    MaxAttempts = 2
    MaxBreaks = 2
INVARIANTS
    ServicesTypeOK
    LevenshteinIsEditDistance
    OFXEntriesKeepTogether
    CountersExpire
    ApprovalsBounded
    NoApprovalAfterRejection
    ReceiversAreTold
    SagaOutcome
    ConnectionsBounded
    NotGivenUpEarly
    ConsumersRouted
    OneLink
PROPERTIES
    TransitionsEarned
    ServicesEnd
\* Each part may come to its end.
CHECK_DEADLOCK FALSE
