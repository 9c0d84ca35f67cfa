\* One request at a time, three Developers: two queued actions, of which the first to be
\* carried out can change what the second one finds; or one, whose deadline may pass and
\* whose handling may die or fail in every stage.
SPECIFICATION Spec
CONSTANTS
    d1 = d1
    d2 = d2
    s = s
    None = None
    Admins = {d1, d2, s}
    Procs = {p1}
    InitialTier <- MCDevelopers
    InitialStatus <- MCActive
    Failures = TRUE
    MaxRequests = 2
    TTL = 1
    MaxClock = 1
CONSTRAINT OneDisturbed
SYMMETRY SymmetryAll
INVARIANTS
    TypeOK
PROPERTIES
    ImplementsQueue
    ApproverStillRanks
