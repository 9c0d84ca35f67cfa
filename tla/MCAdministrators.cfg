\* Races: two requests handled at once, a third account that is not created
\* yet, one queued action, no failures.
SPECIFICATION Spec
CONSTANTS
    d1 = d1
    d2 = d2
    s = s
    None = None
    Admins = {d1, d2, s}
    Procs = {p1, p2}
    InitialTier <- MCTier
    InitialStatus <- MCAbsent
    Failures = FALSE
    MaxRequests = 1
    TTL = 1
    MaxClock = 0
SYMMETRY Symmetry
INVARIANTS
    NobodyIsPartyToTheirOwnCase
PROPERTIES
    LevelsChangeByRankOrByTwo
    OnlyReinstatementLifts
