SPECIFICATION MCSpec
CONSTANTS
  SeqMod = 32
  HeaderMod = 16
  Capacity = 4
  MaxPos = 70
  Base = 32
  MaxVar = 600
  Channels = {0, 31}
  Calls <- SomeCalls
  MaxRecv = 1040
  MaxMessages = 2
  Delays <- SomeDelays
  RandomMax = 7
  MaxRetries = 255
INVARIANTS ContainsExact SlotsDistinct RestoreExact ArrivesAsSent ResetBetween SerializersInverse BackoffBounded
