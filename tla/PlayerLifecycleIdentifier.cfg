SPECIFICATION Spec
CONSTANTS
  p1 = p1
  w1 = w1
  d1 = d1
  NoTrack = NoTrack
  Nobody = Nobody
  Patch <- Neither
  Ws <- Connection
  Deleter <- Neither
  MaxTracks = 1
  Decodable <- Neither
  Troubled = {1}
INVARIANTS AudibleAnnounced
CHECK_DEADLOCK FALSE
