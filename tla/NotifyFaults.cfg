\* One event over two replicas, two faults.
SPECIFICATION Spec
CONSTANTS
  e1 = e1
  e2 = e2
  b1 = b1
  r1 = r1
  r2 = r2
  s1 = s1
  s2 = s2
  None = None
  Event = {e1}
  Broken = {}
  Wants <- TheWants
  User <- TheUser
  Limit <- TheLimit
  MaxAttempts = 2
  Threshold = 1
  Replica = {r1, r2}
  Slot = {s1, s2}
  Home <- SpreadHome
  MaxFaults = 2
INVARIANTS
  NoEventLost
  TriesBounded
  TypeOK
CHECK_DEADLOCK FALSE
