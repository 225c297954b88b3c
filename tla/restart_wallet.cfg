SPECIFICATION RestartSpec
CONSTANTS
    Prices = {1, 2, 3}
    Quantities = {2}
    MaxInventory = 2
    MinInventory <- MCMinInventory
    NoChange = NoChange
    InitialInventory = 0
    InitialOrderLinkId = 1
    Tasks = {t1, t2}
    Idle = Idle
    MaxOrders = 2
    CommandBound = 2
    EventBound = 1
    Quotes <- OneQuote
    OrderSize = 2
    Fee = 1
    AmbiguousOutcomes = FALSE
    SameMillisecond = FALSE
    Delivery = "ordered"
    Absent = Absent
    MaxTime = 2
    MaxExecutions = 2
    MaxDuplicates = 0
    StreamBound = 3
    MaxSessions = 2
SYMMETRY Symmetry
INVARIANTS
    InventoryIsWallet
