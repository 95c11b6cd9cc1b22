SPECIFICATION FairSpec
CONSTANTS
  MaxRounds = 3
  FailThreshold = 2
  Metrics = {1}
  LowerIsBetter = TRUE
  ImprovementThreshold = 0
  PlanSizes = {2}
  MaxCrashes = 1
INVARIANTS EditHasActive RoundsBounded
PROPERTIES TaskFinishes
