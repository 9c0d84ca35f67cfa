\* An approval-request row is never approved and left unperformed?
SPECIFICATION Spec
CONSTANTS
    d1 = d1
    d2 = d2
    s = s
    None = None
    Admins = {d1, d2, s}
    Procs = {p1, p2}
    InitialTier <- MCTier
    InitialStatus <- MCActive
    Failures = FALSE
    MaxRequests = 1
    TTL = 1
    MaxClock = 0
INVARIANTS
    NoApprovedLimbo
