CONSTANTS
  NumDoors = 3
  Populations <- FirstMissing
  MaxBells = 0
  MaxRequests = 1
  MaxBoots = 0
  NoDoor = NoDoor
  NoEvent = NoEvent
SPECIFICATION Spec
INVARIANT CommandsReachTheirDoor
CHECK_DEADLOCK FALSE
