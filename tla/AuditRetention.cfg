SPECIFICATION FairSpec
CONSTANTS
    Ids = {i1}
    Permissions = {p1}
    BigintMax = 1000
    Jobs = {j1, j2}
    Offered <- Emitted
    Retention = 1
    BatchSize = 2
    MaxBatches = 2
    MaxTime = 4
    MaxRows = 3
INVARIANTS
    TypeOK
    EveryErasureIsVouchedFor
    ReportsAreTrue
    ContractsAgree
PROPERTIES
    EveryRunEnds
CHECK_DEADLOCK FALSE
