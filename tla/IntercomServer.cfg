CONSTANTS
  MaxClients = 2
  OutboxCapacity = 1
  QuietLimit = 0
  MaxBells = 1
  CountModulus = 8
  Listener = Listener
  Forwarder = Forwarder
  Nobody = Nobody
SPECIFICATION FairSpec
CHECK_DEADLOCK FALSE
INVARIANTS NextSlotFree NoSelfDeadlock ConnectionOwnsSlot CountAccounted
PROPERTY QuietClientLeaves
