CONSTANTS
  NoCap = NoCap
  TokensPerMbps = 1
  MaxMessage = 3
  Image <- MCImage
  MaxCursorChanges = 3
  MaxCaptureFails = 1
  EncoderCount = 2
  Widths = {2, 4}
  Damages <- MCDamages
  Workloads <- MCCursors
SPECIFICATION Spec
CHECK_DEADLOCK FALSE
INVARIANTS
  CursorShown
