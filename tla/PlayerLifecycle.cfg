SPECIFICATION Spec
CONSTANTS
  p1 = p1
  w1 = w1
  d1 = d1
  NoTrack = NoTrack
  Nobody = Nobody
  Patch <- One
  Ws <- Neither
  Deleter <- OneDelete
  MaxTracks = 2
  Decodable <- AllDecodable
  Troubled = {1}
INVARIANTS OneVoice EndsAreKept WatchedIsReachable
CHECK_DEADLOCK FALSE
