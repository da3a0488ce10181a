\* Both modes: lost connections, refused messages, backpressure.
SPECIFICATION Spec
CONSTANTS
    failureThreshold = 2
    halfOpenStateMaxAttempts = 2
    Calls = {c1, c2, c3}
    ConfirmModes = {TRUE, FALSE}
    maxRetries = 1
    MaxLosses = 2
    MaxNacks = 1
    Backpressure = TRUE
INVARIANTS
    TypeOK
    AcceptedIsDelivered
    CopiesBounded
    OneConnectAttempt
PROPERTIES
    NobodyWaitsForever
    ProbesDecide
    AnswersAreTrue
