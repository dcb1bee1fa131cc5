CONSTANTS
  MaxInputs = 0
  MaxReceived = 1
  MaxDraws = 1
SPECIFICATION FairSpec
CHECK_DEADLOCK FALSE
PROPERTY
  DropDisconnects
