\* Liveness under one fault: one payment, two replicas.
SPECIFICATION FairSpec
CONSTANTS
  good = good
  bad = bad
  r1 = r1
  r2 = r2
  s1 = s1
  s2 = s2
  s3 = s3
  None = None
  Txn = {good}
  ValidTxn = {good}
  Replica = {r1, r2}
  Slot = {s1, s2}
  Home <- SpreadHome
  MaxRate = 1
  MaxFaults = 1
PROPERTIES
  PaymentsFinish
  PipelineDrains
CHECK_DEADLOCK FALSE
