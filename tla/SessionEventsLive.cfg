SPECIFICATION FairSpec
CONSTANTS
  s1 = s1
  c1 = c1  c2 = c2  c3 = c3
  e1 = e1  e2 = e2
  SessionId = {s1}
  Conn = {c1, c2}
  Request = {}
  Shard = {"shard"}
  ShardOf <- OneShard
  Timeouts = {0}
  DefaultTimeout = 0
  NoConn = NoConn
  NoSession = NoSession
  Answered = Answered
  Off = Off
  Emitter = {e1}
  MaxEvents = 2
  max_queue_size = 2
CHECK_DEADLOCK FALSE
PROPERTIES
  ChannelDelivered
