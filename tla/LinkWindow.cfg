SPECIFICATION Spec
CONSTANTS
  WireMod = 8
  Start = 5
  SendCap = 2
  RecvCap = 2
  Payload = 2
  MaxPackets = 3
  MaxBytes = 3
  EarlyClose = TRUE
  AckBits = 2
  InputClose = FALSE
  MaxData = 2
  MaxCtl = 2
  InOrder = TRUE
  TxControl = TRUE
INVARIANTS AckedWasReceived OpenBufferInRing CreditRespected ChecksHold WireNumbersExact
PROPERTY ImplementsByteStream
CHECK_DEADLOCK FALSE
