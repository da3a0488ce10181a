\* A kill between the raw insert and the ack: the process never gets past the message.
SPECIFICATION Spec
CONSTANTS
    failureThreshold = 2
    halfOpenStateMaxAttempts = 1
    Events = {e1}
    Malformed = {}
    Handlers = {h1}
    prefetchCount = 2
    maxRetries = 1
    postgresUpsertRetryAttempts = 2
    MaxPublish = 1
    MaxChannelLosses = 0
    MaxConsumeLosses = 0
    MaxKills = 1
    MaxSignals = 0
    MaxDisturbances = 1
    StartMayFail = FALSE
    DrainMayTimeOut = FALSE
    MongoFaults = {}
    PostgresFaults = {}
    RedisMayFail = FALSE
    Backpressure = FALSE
PROPERTY EventuallySettled
