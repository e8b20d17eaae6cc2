SPECIFICATION MCSpec
CONSTANTS
  MaxSessions = 4
  MaxInvalid = 3
  Block = 4
  Period = 3
  CaptureBuffer = 6
  RenderBuffer = 6
  Lookahead = 1
  HasExternal = TRUE
  MaxSkew = 1
  MaxLate = 1
INVARIANTS DevicesAreReleased StoppedMeansQuiet NoStaleInput RecoveryIsBounded
PROPERTIES CallsReturn
