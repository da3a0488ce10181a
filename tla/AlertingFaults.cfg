\* A rule that changes, goes and fires while channels, Mongo, the statistics and
\* the worker fail.
CONSTANTS
    MaxAlerts = 1
    Summaries = {}
    Cooldowns = {1, 2}
    PageSize = 1
    NumChannels = 2
    ChannelsMayFail = TRUE
    MongoMayFail = TRUE
    StatsMayFail = TRUE
    MaxTime = 2
    MaxExits = 2
SPECIFICATION Spec
INVARIANTS
    TypeOK
    AtMostOneOrphan
    StampsAreLogged
PROPERTIES
    RefiresRespectStamp
    BreachesAreNoticed
