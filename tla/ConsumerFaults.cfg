\* Two events under kills, a signal, a lost channel, one more lost under a pending
\* consume(), lost replies and Redis down: what the stores and the broker hold, that the
\* consumer is never deaf, and what a shutdown that drains leaves behind.
SPECIFICATION Spec
CONSTANTS
    failureThreshold = 1
    halfOpenStateMaxAttempts = 1
    Events = {e1, e2}
    Malformed = {}
    Handlers = {h1, h2}
    prefetchCount = 2
    maxRetries = 1
    postgresUpsertRetryAttempts = 2
    MaxPublish = 1
    MaxChannelLosses = 1
    MaxConsumeLosses = 1
    MaxKills = 1
    MaxSignals = 1
    MaxDisturbances = 2
    StartMayFail = TRUE
    DrainMayTimeOut = FALSE
    MongoFaults = {"retryable"}
    PostgresFaults = {"failed", "lostReply"}
    RedisMayFail = TRUE
    Backpressure = FALSE
SYMMETRY MCSymmetry
INVARIANTS
    TypeOK
    MetricsBounded
    OnlyForsakenLost
    NeverDeaf
    StopLeavesNoStoredEvent
PROPERTY
    ProcessedOnce
