CONSTANTS
  Kinds <- MCKinds
  Owner = "owner"
  Users <- MCUsers
  Triers <- MCWeb
  Readers <- MCWeb
  LogSize = 2
  Empty = "empty"
  MaxCrashes = 2
  MaxSignals = 1
SPECIFICATION FairSpec
CHECK_DEADLOCK FALSE
INVARIANTS TokenConserved LogNewestFirst
PROPERTIES WaitEnds EndedIsLaunched
