CONSTANTS
    Requests = {r1, r2}
    Droppable = {r2}
    CacheTasks = {t1}
    Permits = 1
    Blocks = {a, b}
    MaxReorgs = 1
SPECIFICATION FairSpec
INVARIANTS
    TypeOK
    PermitsConserved
    ReplayIsOneBlock
PROPERTIES
    EveryCallReturns
    PermitsReturn
CHECK_DEADLOCK FALSE
