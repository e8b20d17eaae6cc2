SPECIFICATION MCSpec
CONSTANTS
  a = a
  b = b
  unity = unity
  low = low
  Clients = {panel}
  Panel = panel
  MaxWorkers = 1
  MaxFaults = 1
  Ended = Ended
  NoInstance = NoInstance
  Listening = Listening
  NoRequest = NoRequest
  Free = Free
  Routes = {a}
  Gains = {unity, low}
  UnityGain = unity
  Absent = Absent
  NoPreset = NoPreset
  NoCommand = NoCommand
  NoEntry = NoEntry
  HistoryLimit = 1
  MaxEdits = 2
INVARIANTS HandlersEndWithServer HistoryIsEngines
PROPERTIES ViewConverges EngineComesBack
