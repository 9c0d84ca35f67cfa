\* Does reinstating restore the status an account had?
SPECIFICATION Spec
CONSTANTS
    d1 = d1
    d2 = d2
    s = s
    None = None
    Admins = {d1, d2, s}
    Procs = {p1}
    InitialTier <- MCTier
    InitialStatus <- MCPending
    Failures = FALSE
    MaxRequests = 0
    TTL = 1
    MaxClock = 0
INVARIANTS
    ActiveWasActivated
