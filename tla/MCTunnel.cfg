CONSTANTS
  Streams = {s1}
  MaxToClient = 3
  MaxToServer = 1
SPECIFICATION FairSpec
CHECK_DEADLOCK FALSE
INVARIANTS
  DataInOrder
  DataBeforeClose
  StreamsTracked
PROPERTY
  MainReturns
