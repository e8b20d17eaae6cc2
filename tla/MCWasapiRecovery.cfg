CONSTANTS
  d1 = d1
  d2 = d2
  Devices = {d1, d2}
  Directions = {"render"}
  Follow = {"render"}
  Pinned <- MCPinned
  LoopIsPrepared = TRUE
  Failures = {{}, {"Transient"}, {"Transient", "DeviceInvalidated"}}
  AttemptDelays <- MCAttemptDelays
  RecoveryDeadline = 3
  DeviceRetryDelay = 3
  StabilityWindow = 3
  SettleTime = 1
  NoLoop = NoLoop
  NoSupervisor = NoSupervisor
SPECIFICATION MCSpec
INVARIANTS BoundedCadence
PROPERTIES RouteResumes
