CONSTANTS
  Clis = {c1}
  Pids = {1, 2}
  MaxStarts = 4
  MaxKills = 1
SPECIFICATION FairSpec
CHECK_DEADLOCK FALSE
INVARIANTS
  RunningIsRecorded
  ReadyMeansReaped
  StopLeavesNoWorker
PROPERTIES
  CommandEnds

