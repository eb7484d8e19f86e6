CONSTANTS
    Clients = {c1, c2}
    Droppable = {}
    Height = 2
    Permits = 1
    MaxBatches = 2
SPECIFICATION Spec
INVARIANT BatchedBlockIsServed
CHECK_DEADLOCK FALSE
