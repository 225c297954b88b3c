SPECIFICATION Spec
CONSTANTS
    Prices = {1, 2, 3}
    Quantities = {2}
    MaxInventory = 2
    MinInventory <- LongOnly
    NoChange = NoChange
    InitialInventory = 0
    InitialOrderLinkId = 1
    Tasks = {t1, t2}
    Idle = Idle
    MaxOrders = 2
    CommandBound = 2
    EventBound = 1
    Quotes <- OneQuote
    OrderSize = 2
    Fee = 1
    AmbiguousOutcomes = TRUE
    SameMillisecond = FALSE
    Delivery = "any"
    Absent = Absent
    MaxTime = 2
    MaxExecutions = 2
    MaxDuplicates = 1
    StreamBound = 3
SYMMETRY Symmetry
INVARIANTS
    InventoryCatchesUpWithWallet
    ViewConverges
PROPERTIES
    ClosedStaysClosed
    SettlesExactlyOnce
