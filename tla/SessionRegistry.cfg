SPECIFICATION RegFairSpec
CONSTANTS
  s1 = s1  s2 = s2
  c1 = c1  c2 = c2  c3 = c3
  r1 = r1
  SessionId = {s1, s2}
  Conn = {c1, c2, c3}
  Request = {r1}
  Shard = {"shard"}
  ShardOf <- OneShard
  Timeouts = {1}
  DefaultTimeout = 1
  NoConn = NoConn
  NoSession = NoSession
  Answered = Answered
  Off = Off
CHECK_DEADLOCK FALSE
INVARIANTS
  SoleOwner
  PausedWhileHeld
  HeldHasTimer
  NoLeakNoRevival
  FindableWhileServed
PROPERTIES
  LeaseSpec
  NothingWaitsForEver
