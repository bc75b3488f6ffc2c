SPECIFICATION Spec
CONSTANTS
    ExchangeCoins <- MCExchangeCoins
    Listed = {"BTC/USDT"}
    Periods = {"1m", "1H"}
    PeriodLength <- MCPeriodLength
    RunOnStart = {"1m", "1H", "rate-sync"}
    Publishing = {"1m"}
    EnabledSets <- MCEnabledSets
    Window = 2
    DayLength = 4
    Fallbacks = {"CNY", "JPY"}
    MaxNow = 4
    MaxStarts = 2
    MaxFaults = 2
    Members = {1, 2}
    MaxWallets = 2
    MaxRequests = 2
    ZrpcTimeout = TRUE
CHECK_DEADLOCK FALSE
INVARIANTS
    MarketInv
    EffectsAreEntitled
    GatewayInv
PROPERTIES
    PricesMoveForward
    StopEnds
    SyncsCatchUp
    EveryRequestIsAnswered
