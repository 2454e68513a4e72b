SPECIFICATION FairSpec
CONSTANTS
  Sender = {s1, s2}
  Parts = 2
  MaxLinks = 2
  MaxWire = 6
  Ends = TRUE
  PeerReads = TRUE
INVARIANTS MessagesWhole OnReportedLink
PROPERTY SendReturns
CHECK_DEADLOCK FALSE
