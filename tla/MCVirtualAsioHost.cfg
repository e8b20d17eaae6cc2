SPECIFICATION FairSpec
CONSTANTS
  NumHosts = 1
  Processes = {p1, p2}
  p1 = p1
  p2 = p2
  c1 = c1
  c2 = c2
  Clients = {c1, c2}
  ClientsOf <- OwnIds
  Rates = {r44, r48}
  NoRate = NoRate
  NoCommand = NoCommand
  NoRequest = NoRequest
  MaxClients = 2
  MaxAttempts = 2
  MaxGraphs = 2
  MaxConnection = 2
  MaxChannels = 2
  MaxFrames = 17
  MaxCapacity = 3
  MaxBytes = 4000
  MaxUint32 = 100
  MaxUint64 = 5000
  Prefix = Prefix
CHECK_DEADLOCK FALSE
INVARIANTS RegistryMatchesSessions FreshGraphs
PROPERTIES OnlyOwnDisconnection DeadClientsLeave
