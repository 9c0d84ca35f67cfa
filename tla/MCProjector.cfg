\* Two rows, one of which is edited once; batches of two and a cap of one delivery; one tick
\* may fail; three instants, of which the first is before the service starts.
SPECIFICATION MCSpec
CONSTANTS
    i1 = i1
    i2 = i2
    Rows = {1, 2}
    StartId = 3
    Edited = {1}
    Admins = {a1}
    Instances = {i1, i2}
    BatchSize = 2
    Cap = 1
    ArchiveAfter = 0
    Retention = 0
    MaxFaults = 1
    LastTime = 2
INVARIANTS
    TypeOK
    PassedIsAccounted
    EchoNeedsDisturbance
PROPERTIES
    SweepReachesEveryRow
