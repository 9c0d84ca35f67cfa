\* Amounts below and at the threshold, two calls, one request, one failure of any kind; the
\* other desks as small as their hazards allow.  Every desk may stop: its bounds end it.
SPECIFICATION MCSpec
CONSTANTS
    a = a
    b = b
    c = c
    None = None
    Admins = {a, b, c}
    Procs = {p1, p2}
    MaxRequests = 1
    TTL = 1
    MaxClock = 1
    TierOf <- MCTierOf
    Amounts = {1, 2}
    Threshold = 2
    MaxCalls = 2
    MaxFaults = 1
    Nodes = {n1, n2}
    Default = "off"
    FlagTTL = 1
    MaxRead = 1
    LastTick = 2
    Requests = {r1, r2}
    MaxAttempts = 2
    Duration = 1
    MaxFailures = 4
    LastMoment = 2
    Sources = {s1, s2}
    Values = {1, 2}
    LastId = 3
    Limit = 1
    LastLine = 3
    Prices = {1, 3}
    Quantities = {1, 2}
    Floors = {0, 2}
    Fees = {0, 1, 2, 5}
INVARIANTS
    TypeOK
    LargeMoneyTakesTwo
    TrailMatchesPlatform
    SignatureSpentOnce
    FlagsConverge
    GuessesAreBounded
    CounterDecays
    FeedLosesNothing
    StatementsAddUp
PROPERTIES
    ImplementsQueue
    ApprovedIsResolved
CHECK_DEADLOCK FALSE
