SPECIFICATION Spec
CONSTANTS
    Prices = {1, 2}
    Quantities = {1}
    MaxInventory = 0
    MinInventory <- MCMinInventory
    NoChange = NoChange
    InitialInventory <- MCInitialInventory
    InitialOrderLinkId = 1
    Tasks = {t1, t2}
    Idle = Idle
    MaxOrders = 2
    CommandBound = 1
    EventBound = 1
    Commands <- MCCommands
    Events <- MCEvents
SYMMETRY Symmetry
INVARIANTS
    TypeOK
    IndexConsistent
    LatestInventoryReachesStrategy
    AmendsOnlyAcknowledged
PROPERTIES
    NeverBackInTime
    CountedOnce
