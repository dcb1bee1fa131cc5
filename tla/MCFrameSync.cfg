CONSTANTS
  DisplayCount = 1
  EncoderCount = 2
  NoPixel = NoPixel
  AtOrigin = {0}
  Regions = {1, 2}
  Pixels = {0, 1}
  DefaultPixel = 0
  MaxConfigs = 2
  MaxCaptures = 2
SPECIFICATION FairSpec
CHECK_DEADLOCK FALSE
INVARIANTS
  NoLostWakeup
  UndamagedIsSent
  FramesInOrder
PROPERTY
  DamageIsCut
