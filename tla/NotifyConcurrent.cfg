\* Two events and a broken one handled concurrently by one replica.
SPECIFICATION FairSpec
CONSTANTS
  e1 = e1
  e2 = e2
  b1 = b1
  r1 = r1
  r2 = r2
  s1 = s1
  s2 = s2
  None = None
  Event = {e1, e2, b1}
  Broken = {b1}
  Wants <- TheWants
  User <- TheUser
  Limit <- TheLimit
  MaxAttempts = 2
  Threshold = 1
  Replica = {r1}
  Slot = {s1, s2}
  Home <- SharedHome
  MaxFaults = 0
INVARIANT
  AckedIsRecorded
PROPERTY
  EventsHandled
CHECK_DEADLOCK FALSE
