SPECIFICATION Spec
CONSTANTS
  MaxRows = 2
  MaxClock = 1
  MaxFaults = 0
  Exports = {e1}
  Procs = {p1}
  Ranges <- MCRanges
  ExportFloors = {1}
  RestampFloors = {2}
  BatchSize = 1
  NoExport = NoExport
INVARIANT DeletedWasExported
