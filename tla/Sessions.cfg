SPECIFICATION FairSpec
CONSTANTS
    s1 = s1
    s2 = s2
    None = None
    SessionIds = {s1, s2}
    Procs <- OneEach
    Tasks = {1, 2}
    Listed = {1}
    Window = 1
    MaxKills = 1
    MaxClaims = 2
INVARIANTS OneTaskPerSession
PROPERTIES FreshClaimKept ClaimEnds OwnedTaskFound
CHECK_DEADLOCK FALSE
