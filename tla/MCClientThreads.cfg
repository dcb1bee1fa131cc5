CONSTANTS
  MaxInputs = 1
  MaxReceived = 2
  MaxDraws = 2
SPECIFICATION FairSpec
CHECK_DEADLOCK FALSE
INVARIANTS
  ClosedAfterWorkers
PROPERTIES
  QuitIsLast
  DropDisconnectsOrDeadlock
  InputReturns
