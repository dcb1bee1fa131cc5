CONSTANTS
  ExternalAddresses = {"host"}
  EarlierAddresses = {"other"}
  Ips = {"address"}
  MaxPairs = 2
  MaxFaults = 1
  Clients = {"a", "b"}
  Authorized = {"a"}
  Trusting = {"b"}
  Addresses = 2
  MaxConnects = 3
  Messages = {"empty", "long", "partial", "alien"}
  Incomplete = {"partial"}
  Undecodable = {"alien"}
  DelimLen <- MCDelimLen
  BodyLen <- MCBodyLen
  MaxSends = 3
  Pipelined = FALSE
  Media = {"void", "part", "noise"}
  Garbled = {"noise"}
  MediaLen <- MCMediaLen
  MaxMedia = 3
SPECIFICATION AllSpec
CHECK_DEADLOCK FALSE
INVARIANTS
  MaterialMatches
  FailureDeserved
PROPERTIES
  EveryConnectReturns
  ImplementsQueue
  ImplementsBag
