CONSTANTS
    x = x
    y = y
    z = z
    Nodes = {x, y, z}
    AuthorityIds = {"a", "b", "c"}
    Config <- Modes
    Exposed <- Between
    SessionSet <- Rotation
    MaxSlot = 2
    MaxNumber = 2
    MaxDrift = 2
    MaxSlotCapacity = 1
SPECIFICATION FairSpec
INVARIANTS
    PeersAgree
    SealedByTheOldSet
    FaultyIsRefused
    EquivocationsAreReported
PROPERTY BlocksSpread
CHECK_DEADLOCK FALSE
