SPECIFICATION FairSpec
CONSTANTS
    Ops = {a, b}
    Runners = {1, 2}
    Tasks = {1, 2}
    MaxRetries = 1
    MaxFaults = 1
    MaxEdits = 1
    RetryErrored = FALSE
    Overlap = FALSE
    Lapses = FALSE
    None = None
INVARIANTS OneRunner DoneIsFinished
PROPERTIES FinishedKept CaseSettles
CHECK_DEADLOCK FALSE
