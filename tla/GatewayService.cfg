\* A creation and its retry, and the operations on it; two replicas, one fault.
SPECIFICATION FairSpec
CONSTANTS
  create = create
  retry = retry
  capture = capture
  cancel = cancel
  refund = refund
  k = k
  kc = kc
  r1 = r1
  r2 = r2
  None = None
  Request = {create, retry, capture, cancel, refund}
  WellFormed = {create, retry, capture, cancel, refund}
  Op <- TheOp
  Key <- TheKey
  Target <- TheTarget
  Replica = {r1, r2}
  MaxFaults = 1
\* InductiveInv begins with TypeOK.
INVARIANTS
  InductiveInv
  ConfirmedIsQueued
  AnswersFollowLifecycle
  RetryNotExecuted
PROPERTY
  RequestsAnswered
CHECK_DEADLOCK FALSE
