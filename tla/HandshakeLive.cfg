SPECIFICATION FairSpec
CONSTANTS
  A = A
  B = B
  Node = {A, B}
  Ids <- TwoLinks
  Seqs <- OneSeq
  MaxNet = 2
  RingCap = 1
  InOrder = TRUE
  Restart = TRUE
  Quiet = TRUE
  Abandon = FALSE
  Traffic = FALSE
INVARIANT ConnectedIsMutual
PROPERTY AwaitReturns
CHECK_DEADLOCK FALSE
