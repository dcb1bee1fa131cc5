CONSTANTS
  d0 = d0
  d1 = d1
  Decoders = {d0, d1}
  MaxFrames = 3
  MaxFragments = 2
  MaxEncodeFailures = 1
  MaxDecodeFailures = 1
  t1 = t1
  t2 = t2
  e1 = e1
  e2 = e2
  ev1 = ev1
  Null = Null
  Main = t1
  Threads <- MCThreads
  Errors <- MCErrors
  Events <- MCEvents
  MaxQueued = 1
  NarrowUsize = TRUE
  Widths = {1, 5, 12}
  Heights = {3, 8}
  MaxBoxes = 20
  MaxDisplays = 4
  CrtcCount = 2
  MaxWidth = 3
  MaxHeight = 2
  MinWidth = 1
  MinHeight = 1
  MaxDimension = 4
  MaxCoordinate = 4
  MinKeycode = 8
  MaxKeycode = 255
  LockKey <- MCLockKey
  Requests <- MCRequests
  Keys <- MCKeys
  Buttons <- MCButtons
  MaxRefusals = 1
  MaxCalls = 2
  MaxInputs = 1
  MaxResizes = 1
SPECIFICATION PartsSpec
SYMMETRY Symmetry
CONSTRAINTS
  OneFailure
  FewLongRuns
  OneDisturbance
CHECK_DEADLOCK FALSE
INVARIANTS
  NothingRejected
  CompleteMeansReceived
  EveryFragmentDrawnOnce
  DecodersCover
  NoDangling
  NoLeak
  ReportedIsActual
  RequestHonoured
  NothingLeftBehind
  KeyboardHandedOver
PROPERTIES
  OlderFramesFlushed
