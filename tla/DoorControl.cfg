CONSTANTS
  Comms = Comms
  Callers <- MCCallers
  DoorLoop = DoorLoop
  CloseAngle = 3
SPECIFICATION ControlFairSpec
INVARIANTS FlagsTellTheTruth SensorWatchesClosing
PROPERTY OpenDoorCloses
