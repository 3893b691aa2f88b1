\* One of the properties at a time: each is violated.
SPECIFICATION PartsSpec
CONSTANTS
  p1 = p1
  w1 = w1
  d1 = d1
  NoTrack = NoTrack
  Nobody = Nobody
  Patch <- Neither
  Ws <- Connection
  Deleter <- OneDelete
  MaxTracks = 2
  Decodable <- AllDecodable
  Troubled = {1, 2}
  Callers = {c1, c2}
  Accounts = 2
  Life = 2
  Margin = 1
  Kept = 2
  MaxNow = 2
  MaxCalls = 3
  MaxItems = 5
  Page = 2
  MaxBad = 1
  Most = 3
  Concurrency = 2
  MaxProviders = 2
  MaxPosition = 1
  MaxSubscribed = 2
  MaxSeeks = 1
  None = None
  Pools <- ClientPools
  FormatLists <- FormatsGiven
  Lyrics <- TwoLines
CHECK_DEADLOCK FALSE
INVARIANTS
  LinesAreTimed
  SourceIsSkipped
  LinesOfTheTrack
  LineAfterLyrics
PROPERTIES
  TokensCome
