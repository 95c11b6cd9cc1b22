CONSTANTS
  MaxEdits = 3
  MaxStep = 2
  MaxFaults = 2
  Configs = 2
  None = None
SPECIFICATION Spec
CHECK_DEADLOCK FALSE
INVARIANTS
  VerdictOfThisCode
  DeviceReturned
  AnchorBeforeRounds
PROPERTIES
  KeptIsCorrect
