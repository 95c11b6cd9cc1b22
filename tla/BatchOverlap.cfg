SPECIFICATION Spec
CONSTANTS
    Ops = {a}
    Runners = {1, 2}
    Tasks = {1}
    MaxRetries = 1
    MaxFaults = 1
    MaxEdits = 1
    RetryErrored = FALSE
    Overlap = TRUE
    Lapses = FALSE
    None = None
INVARIANT OneRunner
CHECK_DEADLOCK FALSE
