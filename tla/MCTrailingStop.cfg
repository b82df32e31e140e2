SPECIFICATION StopSpec
CONSTANTS
    Unit <- Third
    OrderSide = "BUY"
    EntryFillPrice <- AverageFill
    OrderPrice <- Limit
    SLPercent = 100
    TrailingSLPct = 50
    Prices <- PricesValue
    Scenarios <- AllScenarios
    MaxRestarts = 1
INVARIANTS
    StopBehindMarket
    WatchedGroupHasPrices
PROPERTIES
    StopNeverLoosens
