SPECIFICATION FairSpec
CONSTANTS
    Started <- MCStarted
    Coin = "ADA"
    Symbol = "ADAUSDT"
    WalletAnswers <- MCWalletAnswers
    InstrumentAnswers <- MCInstrumentAnswers
    TradesAnswers <- MCTradesAnswers
    ExecutedSizes <- MCExecutedSizes
    CommandBound = 4
    MaxExecutions = 2
CHECK_DEADLOCK FALSE
INVARIANTS
    NothingStartsMisconfigured
    StrategyCatchesUp
PROPERTIES
    ComesUpOrEnds
    RecorderEndsWithWebSocket
