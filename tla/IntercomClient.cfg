CONSTANTS
  Cells = 3
  FirstDoors = 1
  MaxDoors = 2
  SyncInterval = 2
  RingTime = 1
  Silence = 3
  OutboxCapacity = 2
  ErrorLimit = 0
  RetryLimit = 1
  FirstDay = 31
  LastDay = 35
  MaxUnderWay = 1
SPECIFICATION FairSpec
CHECK_DEADLOCK FALSE
INVARIANTS TypeOK OpenIsMeant SilentOnlyForACause
PROPERTY Reconnects
