SPECIFICATION Spec
CONSTANTS
    failureThreshold = 3
    halfOpenStateMaxAttempts = 2
    Calls = {c1, c2, c3, c4}
INVARIANTS
    TypeOK
    CountersOK
    AtMostMaxProbes
    ProbesAccounted
PROPERTIES
    QuietWhileOpen
    Recovers
