CONSTANTS
    Addresses = {"a", "b"}
    AddressSets <- NoneOrFirst
    Actions <- FourActions
    MaxCount = 2
    MaxAfter = 2
    MaxBlocks = 3
    MaxTraces = 3
SPECIFICATION Spec
INVARIANTS
    TypeOK
    AnswerIsTheWindow
    UnboundedIsComplete
CHECK_DEADLOCK FALSE
