CONSTANTS
  GeneralCapacity = 3
  PriorityCapacity = 2
  MaxCommands = 5
  Comms = Comms
  NoTask = NoTask
  Blank = Blank
SPECIFICATION Spec
INVARIANT NeverHalted
CHECK_DEADLOCK FALSE
