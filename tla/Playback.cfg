SPECIFICATION PlaybackSpec
CONSTANTS
  Configurations <- Enabled
  Length = 2
  Buffer = 1
  Capacity = 1
  Clients = 2
  Ramp = 1
  MaxSeeks = 1
  MaxRequests = 2
  Patterns <- EveryKind
  MaxCandidates = 4
  Carried = {"spotify", "youtube", "vkmusic", "twitch"}
CHECK_DEADLOCK FALSE
INVARIANTS
  PositionNearHeard
  RightAnswer
  RoutedRight
PROPERTIES
  EndIsTrue
  PlaysToAnEnd
