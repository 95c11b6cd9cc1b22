CONSTANTS
  Procs = {p1, p2, p3}
  Devices = 1
  Blind = {p3}
  MaxCrashes = 1
  None = None
SPECIFICATION FairSpec
CHECK_DEADLOCK FALSE
INVARIANTS
  ExclusiveWhileFresh
  ReferenceMadeOnce
PROPERTIES
  JobsEnd
