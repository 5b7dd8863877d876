SPECIFICATION LimiterSpec
CONSTANTS
  c1 = c1
  Clients <- OneClient
  MaxRequests = 2
  Window = 3
  MaxTime = 6
  MaxPerTick = 3
INVARIANTS
  LimiterTypeOK
  TwiceTheLimit
PROPERTIES
  RefusalIsEarned
CHECK_DEADLOCK FALSE
