\* Database faults and backpressure, no crash, no channel loss: every event settles.
SPECIFICATION Spec
CONSTANTS
    failureThreshold = 2
    halfOpenStateMaxAttempts = 1
    Events = {e1, e2, e3}
    Malformed = {e3}
    Handlers = {h1, h2}
    prefetchCount = 2
    maxRetries = 1
    postgresUpsertRetryAttempts = 2
    MaxPublish = 1
    MaxChannelLosses = 0
    MaxConsumeLosses = 0
    MaxKills = 0
    MaxSignals = 0
    MaxDisturbances = 0
    StartMayFail = FALSE
    DrainMayTimeOut = FALSE
    MongoFaults = {"retryable", "permanent", "lostReply"}
    PostgresFaults = {"failed"}
    RedisMayFail = TRUE
    Backpressure = TRUE
PROPERTY EventuallySettled
