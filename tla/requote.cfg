SPECIFICATION RequoteSpec
CONSTANTS
    Prices = {1, 2, 3}
    Quantities = {2}
    MaxInventory = 2
    MinInventory <- MCMinInventory
    NoChange = NoChange
    InitialInventory = 0
    InitialOrderLinkId = 1
    Tasks = {t1, t2, t3}
    Idle = Idle
    MaxOrders = 2
    CommandBound = 2
    EventBound = 1
    Quotes <- TwoBids
    OrderSize = 2
    Fee = 0
    AmbiguousOutcomes = FALSE
    SameMillisecond = FALSE
    Delivery = "any"
    Absent = Absent
    MaxTime = 100
    MaxExecutions = 0
    MaxDuplicates = 0
    StreamBound = 2
    MaxQuoteChanges = 2
PROPERTIES
    QuoteIsReached
