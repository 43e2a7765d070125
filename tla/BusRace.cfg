CONSTANTS
  NumDoors = 2
  Populations <- AllDoors
  MaxBells = 1
  MaxRequests = 1
  MaxBoots = 0
  NoDoor = NoDoor
  NoEvent = NoEvent
SPECIFICATION Spec
INVARIANT BellsNameTheirDoor
CHECK_DEADLOCK FALSE
