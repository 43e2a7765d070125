CONSTANTS
  DoorManager = DoorManager
  IntercomServer = IntercomServer
  Database = Database
  Others <- MCOthers
  InboxCapacity = 1
  InternalCapacity = 1
  MaxPackets <- MCPackets
  MaxCrashes = 0
  Nothing = Nothing
SPECIFICATION PathFairSpec
CHECK_DEADLOCK FALSE
PROPERTY TakenIsForwarded
