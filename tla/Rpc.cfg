SPECIFICATION Spec
CONSTANTS
  MaxCalls = 2
  MaxId = 2
  MaxTimeout = 1
  MaxConns = 2
INVARIANTS OwnResponse AnsweredOnce
PROPERTIES CallbackAllowed TakenToAnswer
CHECK_DEADLOCK FALSE
