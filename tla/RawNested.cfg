CONSTANTS
    Addresses = {"a", "b"}
    Root = "a"
    Scenarios <- Nesting
    Keys = {"k"}
    Values = {1}
    MaxOps <- OpsPerScenario
    MaxFrames = 3
    MaxOther = 0
SPECIFICATION Spec
INVARIANT TrackedStorageIsCurrent
CHECK_DEADLOCK FALSE
