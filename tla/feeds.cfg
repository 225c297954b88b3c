SPECIFICATION FeedsSpec
CONSTANTS
    Prices = {1, 2, 3}
    Sizes = {1, 2}
    MaxItems = 2
    MaxTs = 2
    FeedBound = 1
    MaxItemsReceived = 3
    MaxReceived = 5
    H1 = 1
    H5 = 2
    H10 = 3
    ExecIds = {1, 2}
    MaxTime = 4
    MaxFillTime = 1
    MaxDuplicates = 1
    NA = NA
CHECK_DEADLOCK FALSE
INVARIANTS
    TypeOK
    BookFollowsExchange
    FirstLevelsAreBest
    LatestBookReachesReaders
    LinkedItemsAreForwarded
    SamplesAreFirstElapsed
    EachDeliveryOnce
    LogInFillOrder
PROPERTIES
    MarkoutsComplete
