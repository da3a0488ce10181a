\* A threshold rule looks back over hits of three hours.
SPECIFICATION Spec
CONSTANTS
    Ids = {1, 2}
    Samples <- MCSamples
    UpsertAttempts = 2
    Hour = 2
    Day = 4
    FineSpan = 1
    DailySpan = 3
    MaxTime = 4
    Retentions = {2, 3}
    PageSize = 1
    Lookbacks = {2}
CHECK_DEADLOCK FALSE
INVARIANT
    LooksBackFarEnough
