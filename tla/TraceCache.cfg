CONSTANTS
    Clients = {c1, c2}
    Droppable = {c1, c2}
    Height = 2
    Permits = 1
    MaxBatches = 2
SPECIFICATION FairSpec
INVARIANTS
    TypeOK
    CountWithinBatches
    PooledHasTracer
    WaiterHasSender
    BatchWillEnd
    PermitsConserved
PROPERTIES
    FilterReturns
    Drains
    ImplementsService
CHECK_DEADLOCK FALSE
