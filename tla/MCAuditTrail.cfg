SPECIFICATION Spec
CONSTANTS
  MaxRows = 2
  MaxClock = 1
  MaxFaults = 1
  Exports = {e1, e2}
  Procs = {p1, p2}
  Ranges <- MCRanges
  ExportFloors = {1}
  RestampFloors = {2}
  BatchSize = 1
  NoExport = NoExport
SYMMETRY Symmetry
INVARIANTS
  TypeOK
  ClaimedRowIsFiled
  NothingDiesYoung
  CompleteFileHoldsRange
  StampedFileIsClaimed
