CONSTANTS
  Workers = {"tc"}
  HasTimeout = TRUE
  MaxLogins = 2
  MaxFaults = 1
SPECIFICATION FairSpec
CHECK_DEADLOCK FALSE
INVARIANTS
  ReceiverPolledOnce
  ProgramEndsWithSession
PROPERTIES
  FarewellTold
  StopExits
  LoginServed
