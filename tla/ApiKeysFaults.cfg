\* One key, two requests, an operator who switches the client off and on, and
\* Redis and Mongo failing.
SPECIFICATION Spec
CONSTANTS
    Keys = {k1}
    Lookups = {l1, l2}
    MaxSwitches = 2
    MongoMayFail = TRUE
    RedisMayFail = TRUE
INVARIANTS
    TypeOK
    QuietRevokeIsFinal
PROPERTIES
    StaleKeysDieOut
    UsableKeysRecover
