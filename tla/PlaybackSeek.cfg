SPECIFICATION PlaybackSpec
CONSTANTS
  Configurations <- EverySource
  Length = 2
  Buffer = 1
  Capacity = 1
  Clients = 1
  Ramp = 0
  MaxSeeks = 4
  MaxRequests = 5
  Patterns <- EveryKind
  MaxCandidates = 1
  Carried = {}
CHECK_DEADLOCK FALSE
PROPERTIES
  SeekReturns
