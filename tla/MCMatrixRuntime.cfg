SPECIFICATION Spec
CONSTANTS
  Configurations <- MCConfigurations
  Asio = "daw"
  AsioChannels = 1
  Matrices <- MCMatrices
  RouteSets <- MCRouteSets
  RingBlocks = 1
  FifoBlocks = 2
  LatencyBlocks = 1
  DrainBlocks = 2
CHECK_DEADLOCK FALSE
INVARIANTS EndpointPlaysItsRoutes AllOrNothing
PROPERTIES EveryBlockOnceInOrder Flow
