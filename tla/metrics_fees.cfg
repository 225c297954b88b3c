SPECIFICATION MetricsSpec
CONSTANTS
    InitialInventory = 0
    LastPrice = 2
    ExecPrices = {1, 2, 4}
    ExecQuantities = {2, 3}
    Fees = {1}
    MaxExecutions = 5
INVARIANTS
    AverageWithinEntryPrices
CHECK_DEADLOCK FALSE
