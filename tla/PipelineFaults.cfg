\* One payment, two credits on one replica and one on another, one fault.
SPECIFICATION Spec
CONSTANTS
  good = good
  bad = bad
  r1 = r1
  r2 = r2
  s1 = s1
  s2 = s2
  s3 = s3
  None = None
  Txn = {good}
  ValidTxn = {good}
  Replica = {r1, r2}
  Slot = {s1, s2, s3}
  Home <- MixedHome
  MaxRate = 1
  MaxFaults = 1
SYMMETRY TwoCredits
\* InductiveInv begins with TypeOK.
INVARIANTS
  InductiveInv
  MilestonesInOrder
  StoreTellsNoLie
  NoPaymentLost
  ChargesBounded
PROPERTY
  ImplementsLifecycle
CHECK_DEADLOCK FALSE
