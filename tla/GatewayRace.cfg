\* A creation and its retry at one replica, no fault.
SPECIFICATION Spec
CONSTANTS
  create = create
  retry = retry
  capture = capture
  cancel = cancel
  refund = refund
  k = k
  kc = kc
  r1 = r1
  r2 = r2
  None = None
  Request = {create, retry}
  WellFormed = {create, retry}
  Op <- TheOp
  Key <- TheKey
  Target <- TheTarget
  Replica = {r1}
  MaxFaults = 0
INVARIANTS
  OneTransactionPerKey
CHECK_DEADLOCK FALSE
