\* A valid and an invalid payment handled concurrently by one replica, no fault.
SPECIFICATION FairSpec
CONSTANTS
  good = good
  bad = bad
  r1 = r1
  r2 = r2
  s1 = s1
  s2 = s2
  s3 = s3
  None = None
  Txn = {good, bad}
  ValidTxn = {good}
  Replica = {r1}
  Slot = {s1, s2}
  Home <- SharedHome
  MaxRate = 1
  MaxFaults = 0
INVARIANT
  QuietStoreIsOutcome
PROPERTY
  PaymentsFinish
CHECK_DEADLOCK FALSE
