CONSTANTS
    Extrinsics <- SixExtrinsics
    Senders = {"a", "s"}
    MaxNonce = 2
    MaxMoves = 3
    MaxReorgs = 2
SPECIFICATION Spec
INVARIANTS
    PoolIsListed
    InspectIsContent
CHECK_DEADLOCK FALSE
