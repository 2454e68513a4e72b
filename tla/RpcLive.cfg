SPECIFICATION FairSpec
CONSTANTS
  MaxCalls = 1
  MaxId = 2
  MaxTimeout = 1
  MaxConns = 3
PROPERTIES CallCompletes DeadlineThreadEnds
CHECK_DEADLOCK FALSE
