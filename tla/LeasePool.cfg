SPECIFICATION Spec
CONSTANTS
  Devices = {0}
  TaskIds = {"t"}
  Clients = {c1, c2}
  Handlers = {h1}
  Modes = {"exact", "owner", "other"}
  MaxLeases = 3
  MaxDisconnects = 1
  MaxRestarts = 1
INVARIANTS DevicesConserved
SYMMETRY Symmetry
CHECK_DEADLOCK FALSE
