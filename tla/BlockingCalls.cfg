SPECIFICATION FairSpec
CONSTANTS
  Thread = {t1, t2}
  SendCap = 1
  RecvCap = 1
  RingCap = 2
  MaxLinks = 2
  MaxWrites = 2
INVARIANTS ClosersWait ReadersWait
PROPERTY BlockedCallsReturn
CHECK_DEADLOCK FALSE
