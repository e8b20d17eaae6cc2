SPECIFICATION AsioSpec
CONSTANTS
  Hosts = {h1, h2, h3}
  None = None
  MaxCalls = 5
CHECK_DEADLOCK FALSE
INVARIANTS RestoredRuntimeIsHeard
