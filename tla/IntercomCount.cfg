CONSTANTS
  MaxClients = 2
  OutboxCapacity = 1
  QuietLimit = 1
  MaxBells = 1
  CountModulus = 8
  Listener = Listener
  Forwarder = Forwarder
  Nobody = Nobody
SPECIFICATION Spec
INVARIANT CountMatchesList
CHECK_DEADLOCK FALSE
