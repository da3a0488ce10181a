\* Two hits of two endpoints over four hours and two days, upserts that are applied up to
\* twice, a reader with pages of one.
SPECIFICATION Spec
CONSTANTS
    Ids = {1, 2}
    Samples <- MCSamples
    UpsertAttempts = 2
    Hour = 2
    Day = 4
    FineSpan = 1
    DailySpan = 3
    MaxTime = 6
    Retentions = {2, 3}
    PageSize = 1
    Lookbacks = {2}
CHECK_DEADLOCK FALSE
INVARIANTS
    TypeOK
    StatsFollowUpserts
PROPERTY PagesCoverLog
