\* Safety: two administrators at any level, two requests handled at once, two rows for
\* two intents and a clock that can pass a row's deadline.
SPECIFICATION Spec
CONSTANTS
    promote = promote
    suspend = suspend
    None = None
    Admins = {a1, a2}
    Intents = {promote, suspend}
    Procs = {p1, p2}
    Levels = {1, 2, 3}
    ApproverTiers <- MCApproverTiers
    MaxRequests = 2
    TTL = 1
    MaxClock = 1
SYMMETRY Symmetry
INVARIANTS
    TypeOK
    OnePendingPerIntent
    AtMostOnce
    TwoPeople
    TrailAgrees
PROPERTIES
    DecisionIsFinal
    ImplementsFourEyes
