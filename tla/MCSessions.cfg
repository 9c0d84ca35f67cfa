SPECIFICATION Spec
CONSTANTS
  Admins = {a1}
  Sids = {s1, s2}
  Procs = {p1, p2}
  Tokens = {t1, t2, t3}
  IdleTTL = 1
  AbsTTL = 2
  MaxClock = 2
  MaxCalls = 5
  None = None
SYMMETRY Symmetry
INVARIANTS
  TypeOK
  EndedStaysEnded
  LiveIsIndexed
  EndedRowIsOver
  AdmittedInTime
  SupersededNeverRotates
