CONSTANTS
  NumDoors = 3
  Populations <- WithAndWithoutGap
  MaxBells = 1
  MaxRequests = 1
  MaxBoots = 1
  NoDoor = NoDoor
  NoEvent = NoEvent
SPECIFICATION FairSpec
CHECK_DEADLOCK FALSE
INVARIANTS EventsAttributed CommandsReachWithoutGap
PROPERTY RequestsEnd
