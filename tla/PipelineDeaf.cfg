\* One payment, one replica, one fault: a lost AMQP connection is enough.
SPECIFICATION FairSpec
CONSTANTS
  good = good
  bad = bad
  r1 = r1
  r2 = r2
  s1 = s1
  s2 = s2
  s3 = s3
  None = None
  Txn = {good}
  ValidTxn = {good}
  Replica = {r1}
  Slot = {s1}
  Home <- SoleHome
  MaxRate = 1
  MaxFaults = 1
PROPERTY
  PaymentsFinish
CHECK_DEADLOCK FALSE
