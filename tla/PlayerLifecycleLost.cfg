SPECIFICATION Spec
CONSTANTS
  p1 = p1
  w1 = w1
  d1 = d1
  NoTrack = NoTrack
  Nobody = Nobody
  Patch <- One
  Ws <- Neither
  Deleter <- Neither
  MaxTracks = 2
  Decodable <- AllDecodable
  Troubled = {1, 2}
INVARIANTS EndTold
CHECK_DEADLOCK FALSE
