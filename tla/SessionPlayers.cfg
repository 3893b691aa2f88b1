SPECIFICATION FairSpec
CONSTANTS
  s1 = s1
  c1 = c1  c2 = c2
  r1 = r1  r2 = r2
  d1 = d1
  g1 = g1
  SessionId = {s1}
  Conn = {c1, c2}
  Request = {r1, r2}
  Shard = {"shard"}
  ShardOf <- OneShard
  Timeouts = {1}
  DefaultTimeout = 1
  NoConn = NoConn
  NoSession = NoSession
  Answered = Answered
  Off = Off
  Guild = {g1}
  Deleter = {d1}
  MaxPlayers = 2
  MaxTasks = 2
  NoPlayer = NoPlayer
  NoTask = NoTask
CHECK_DEADLOCK FALSE
INVARIANTS
  ShutdownStopsEverything
PROPERTIES
  ShutdownCompletes
