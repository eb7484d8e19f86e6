CONSTANTS
    Runtimes = {"legacy"}
    Opcodes = {"DelegateCall", "Create"}
    Reasons = {"Succeed", "Revert"}
    TxCost = 1
    MaxNodes <- Nodes3
    MaxCosts <- CostsPerRuntime
    Callers = {"trace"}
SPECIFICATION Spec
INVARIANT LastTransactionHasRoot
CHECK_DEADLOCK FALSE
