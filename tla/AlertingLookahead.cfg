CONSTANTS
    MaxAlerts = 2
    Summaries = {}
    Cooldowns = {2}
    PageSize = 1
    NumChannels = 1
    ChannelsMayFail = FALSE
    MongoMayFail = FALSE
    StatsMayFail = FALSE
    MaxTime = 1
    MaxExits = 0
SPECIFICATION Spec
PROPERTIES BreachesAreNoticed
