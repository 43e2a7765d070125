CONSTANTS
  GeneralCapacity = 3
  PriorityCapacity = 2
  MaxCommands = 6
  Comms = Comms
  NoTask = NoTask
  Blank = Blank
SPECIFICATION FairSpec
CHECK_DEADLOCK FALSE
INVARIANTS NewestIsRead PriorityFirst LeakedOnlyWhenFull
PROPERTY Drained
