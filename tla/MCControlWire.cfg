SPECIFICATION Spec
CONSTANTS
  Bad = 9999
  MaxText = 2
  MaxArray = 2
  MaxEndpoints = 2
  MaxChannels = 2
  MaxDevices = 2
  MaxMessage = 391
  MaxFile = 152
  Letters <- MCLetters
  Fragile <- MCFragile
  Values = {0, 2, 13, 9999}
INVARIANTS EveryReleaseIsRead MessageSaysWhatIsRead RewritingKeepsDocument
CHECK_DEADLOCK FALSE
