SPECIFICATION Spec
CONSTANTS
  Byte <- FrameByte
  Overhead = 3
  MaxFrame = 3
  Ring = 4
  W = 8
  Count = 6
  MaxRead = 3
  MaxRace = 1
  Sizes = {0}
  MaxPackets = 3
  MaxFaults = 1
INVARIANTS SendsWhatWasWritten ProducedExact ChunksDoNotMatter
PROPERTY ImplementsPacketLine
CHECK_DEADLOCK FALSE
