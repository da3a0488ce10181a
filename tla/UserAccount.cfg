\* Two overlapping requests of every kind, a token, a storm of failures that ends.
SPECIFICATION Spec
CONSTANTS
    Requests = {r1, r2}
    Tokens = {t1}
    Passwords = {p1, p2}
    Permissions = {some, more}
    None = None
    MayStorm = TRUE
INVARIANTS
    TypeOK
    LateComersFail
PROPERTIES
    SessionsFollowUser
    EventuallyVerified
