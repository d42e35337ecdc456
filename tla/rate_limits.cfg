SPECIFICATION FairSpec
CONSTANTS
  Processes = {p1, p2}
  RequestsPerMinute = 1
  Burst = 1
  WindowSeconds = 2
  TicksPerSecond = 2
  RedisBackend = TRUE
  RedisEnabled = TRUE
  MaxTime = 6
  MaxRequests = 4
  MaxRestarts = 1
INVARIANTS
  TypeOK
  AdmittedBound
PROPERTIES
  RefusedWhenFull
  RetryIsHonest
  FallbackEnds
CHECK_DEADLOCK FALSE
