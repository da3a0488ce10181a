\* Three overlapping requests of any kind, failing queries, a process that ends.
SPECIFICATION Spec
CONSTANTS
    Requests = {r1, r2, r3}
    None = None
    Slugs = {s1}
    Emails = {e1, e2}
    Names = {n1, n2}
    MongoFaults = {"failed", "lostReply"}
    MayCrash = TRUE
SYMMETRY MCSymmetry
CHECK_DEADLOCK FALSE
INVARIANTS
    TypeOK
    NoUnmannedCompany
    NoStrayUser
    OnboardingCloses
