SPECIFICATION Spec
CONSTANTS
  A = A
  B = B
  Node = {A, B}
  Ids <- SharedId
  Seqs <- TwoSeqs
  MaxNet = 2
  RingCap = 1
  InOrder = TRUE
  Restart = TRUE
  Quiet = FALSE
  Abandon = FALSE
  Traffic = TRUE
INVARIANTS PairAgrees DataFromPeer CallbackOnce ChecksHold
CHECK_DEADLOCK FALSE
