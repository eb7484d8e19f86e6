CONSTANTS
    Addresses = {"a", "b"}
    Root = "a"
    Scenarios <- RegularAndOdd
    Keys = {"k"}
    Values = {1}
    MaxOps <- OpsPerScenario
    MaxFrames = 3
    MaxOther = 1
SPECIFICATION Spec
INVARIANTS
    LogIsTheExecution
    EveryOpcodeLogged
CHECK_DEADLOCK FALSE
