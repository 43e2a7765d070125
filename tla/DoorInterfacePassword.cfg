CONSTANTS
  a1 = a1
  a2 = a2
  n1 = n1
  n2 = n2
  Addresses <- MCAddresses
  Names <- MCNames
  DefaultAddress = a1
  DefaultName = n1
  Garbage = Garbage
  MaxPowerLosses = 0
SPECIFICATION Spec
CHECK_DEADLOCK FALSE
INVARIANT PasswordCanBeSet
