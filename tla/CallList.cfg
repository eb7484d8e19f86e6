CONSTANTS
    Runtimes = {"early", "legacy"}
    Opcodes = {"DelegateCall", "Create"}
    Reasons = {"Succeed", "Revert"}
    TxCost = 1
    MaxNodes <- Nodes3
    MaxCosts <- CostsPerRuntime
    Callers = {"debug", "trace"}
SPECIFICATION Spec
INVARIANTS
    TypeOK
    EntriesAreTheTree
    OneRootPerTransaction
    PathsAreUnique
    NestedIsTheTree
    PositionsAreTransactions
    BlockscoutWalksTheTree
CHECK_DEADLOCK FALSE
