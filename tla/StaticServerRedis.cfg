\* The peers, redis and the requests are bounded.
SPECIFICATION ServerSpec
CONSTANTS
  NumConns = 1
  NumLoops = 1
  MaxConns = 2
  WheelSize = 1
  Chunks = 1
  MaxRequests = 1
  Kinds = {"vip"}
  Headers = {"none"}
  MaxChanges = 1
PROPERTIES RedisReconnects
CHECK_DEADLOCK FALSE
