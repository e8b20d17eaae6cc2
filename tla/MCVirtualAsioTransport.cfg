CONSTANTS
  Capacity = 2
  MaxPerWake = 2
  MaxRuns = 2
  MaxSequence = 3
  MaxPosition = 6
  Blocks <- DriverBlocks
  WellFormed <- DriverBlocks
  Silence = Silence
  NoBlock = NoBlock
  Torn = Torn
SPECIFICATION TransportSpec
CHECK_DEADLOCK FALSE
PROPERTIES ImplementsChannel HeardInOrder EveryBlockIsTaken StopEndsBothThreads
