SPECIFICATION DeskSpec
CONSTANTS
    InstrumentTicks <- MCInstrumentTicks
    BookPrices = {1, 9, 10, 11, 14}
    BookSizes = {0, 1, 3}
    Inventories <- MCInventories
    Drifts <- MCDrifts
    MaxInventory = 500
    MinInventory <- MCMinInventory
    MaxRequests = 3
    InitialInventory = 0
    LastPrice = 2
    ExecPrices = {1, 2, 4}
    ExecQuantities = {1, 2, 3}
    Fees = {0}
    MaxExecutions = 4
CHECK_DEADLOCK FALSE
INVARIANTS
    OnlySubmissionsFail
    SpreadIsKept
    NotThroughTheBook
    InventoryLowersQuotes
    AcceptedPricesArePositive
    AverageWithinEntryPrices
PROPERTIES
    RefusedIsHeardOf
    AverageConservesValue
