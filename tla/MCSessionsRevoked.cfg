SPECIFICATION Spec
CONSTANTS
  Admins = {a1}
  Sids = {s1}
  Procs = {p1, p2}
  Tokens = {t1, t2, t3}
  IdleTTL = 1
  AbsTTL = 2
  MaxClock = 2
  MaxCalls = 3
  None = None
INVARIANT RevokedIsRefused
