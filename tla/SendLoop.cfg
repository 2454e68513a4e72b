SPECIFICATION FairSpec
CONSTANTS
  Producer = {p1, p2}
  Ender = e
  MaxWork = 2
INVARIANT NoLostWakeup
PROPERTIES WorkIsSent EndJoins
CHECK_DEADLOCK FALSE
