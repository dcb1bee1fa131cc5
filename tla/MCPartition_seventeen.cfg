CONSTANTS
  Widths = {12}
  Heights = {8}
  MaxBoxes = 20
  MaxDisplays = 1
SPECIFICATION PartitionSpec
CHECK_DEADLOCK FALSE
INVARIANT
  CoveredExactlyOnce
