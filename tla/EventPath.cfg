CONSTANTS
  Tasks = {UI, Comms}
  NoTask = NoTask
  Capacity = 4
  Parts = 2
  MaxCalls = 3
  MaxFaults = 1
SPECIFICATION FairSpec
CHECK_DEADLOCK FALSE
INVARIANTS Accounted OnceInOrder LogWithinBounds DataMatches
PROPERTIES EventCollected RegisterFreed
