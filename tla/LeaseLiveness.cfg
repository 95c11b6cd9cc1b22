SPECIFICATION FairSpec
CONSTANTS
  Devices = {0, 1}
  TaskIds = {"t"}
  Clients = {c1, c2}
  Handlers = {h1, h2}
  Modes = {"exact"}
  MaxLeases = 3
  MaxDisconnects = 0
  MaxRestarts = 0
INVARIANTS TokenKeepsLease LateReleaseFreesNothing OneScriptPerDevice
PROPERTIES LeaseEndsRightly DeadClientReclaimed
CHECK_DEADLOCK FALSE
