SPECIFICATION Spec
CONSTANTS
  matrixA = matrixA
  duplex = duplex
  legacy = legacy
  unity = unity
  high = high
  none = none
  first = first
  second = second
  MatrixConfigs = {matrixA}
  DirectConfigs = {duplex}
  AsioConfigs = {}
  NoConfig = NoConfig
  NoRuntime = NoRuntime
  NoReply = NoReply
  NoTopology = NoTopology
  Absent = Absent
  Blank = Blank
  OwnDll = OwnDll
  MissingFile = MissingFile
  UnreadableFile = UnreadableFile
  UnityGain = unity
  NoRoutes = none
  LegacyPorts = legacy
  Channels <- MCChannels
  Clsids <- MCClsids
  RegistryNames <- MCRegistryNames
  DefaultDevices <- MCDefault
  Topologies <- MCTopologies
  Gains = {unity, high}
  RouteEdits <- MCEdits
  LoadablePresets <- MCLoadable
  CommandIds = {id1, id2}
  MaxReplayed = 1
  MaxVersion = 3
SYMMETRY Symmetry
CONSTRAINT RegistryIsWhole
INVARIANTS RunningGraphIsCommitted RoutesArePersisted DriversAreTheSessions
PROPERTIES RejectionIsTransactional RememberedIdIsInert RuntimeIntentSurvives
