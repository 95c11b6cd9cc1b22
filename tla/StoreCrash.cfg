SPECIFICATION Spec
CONSTANTS
  MaxRounds = 2
  FailThreshold = 1
  Metrics = {1, 2}
  LowerIsBetter = TRUE
  ImprovementThreshold = 0
  PlanSizes = {2}
  MaxCrashes = 2
INVARIANTS TypeOK NoJournalNoGap RoundsRecordedOnce HistoryMatchesState SettledOnce SettleSucceeds BestIsCommitted
PROPERTIES EventsAtomic
