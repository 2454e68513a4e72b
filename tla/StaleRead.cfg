SPECIFICATION Spec
CONSTANTS
  A = A
  B = B
  Node = {A, B}
  Ids <- SharedId
  Seqs <- OneSeq
  MaxNet = 2
  RingCap = 1
  InOrder = TRUE
  Restart = TRUE
  Quiet = FALSE
  Abandon = TRUE
  Traffic = TRUE
INVARIANT DataFromPeer
CHECK_DEADLOCK FALSE
