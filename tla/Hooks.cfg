SPECIFICATION Spec
CONSTANTS
    MaxRounds = 3
    FailThreshold = 1
    Metrics = {1}
    AttemptsCap = 2
    s1 = s1
    s2 = s2
    Subs = {s1, s2}
    MaxVersion = 2
    MaxSpawns = 2
    Commands <- Tried
    Obedience = {TRUE, FALSE}
INVARIANTS GuidanceAllowed FallbackEarned
PROPERTY PlanFromDiagnosis
CHECK_DEADLOCK FALSE
SYMMETRY SubSymmetry
