CONSTANTS
  DisplayCount = 2
  EncoderCount = 2
  NoPixel = NoPixel
  AtOrigin = {0}
  Regions = {1}
  Pixels = {0, 1}
  DefaultPixel = 0
  MaxConfigs = 1
  MaxCaptures = 0
SPECIFICATION Spec
CHECK_DEADLOCK FALSE
INVARIANT
  SentOnAssignedChannels
