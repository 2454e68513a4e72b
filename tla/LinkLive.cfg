SPECIFICATION FairSpec
CONSTANTS
  WireMod = 8
  Start = 5
  SendCap = 2
  RecvCap = 1
  Payload = 2
  MaxPackets = 2
  MaxBytes = 2
  EarlyClose = FALSE
  AckBits = 2
  InputClose = TRUE
  MaxData = 1
  MaxCtl = 2
  InOrder = TRUE
  TxControl = TRUE
PROPERTIES BytesArrive CloseCompletes
CHECK_DEADLOCK FALSE
