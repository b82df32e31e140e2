SPECIFICATION FairSpec
CONSTANTS
    ranged = ranged
    anything = anything
    Garbled = Garbled
    StrategyOrder <- StrategyOrderValue
    Config <- ConfigValue
    News <- NewsValue
    MarketData <- MarketDataValue
    MaxEntries = 1
    MaxHandlerRetries = 2
    ProcessLag = 11
    SessionLag = 11
    Moments <- MomentsValue
    MaxChanges = 1
    MaxRestarts = 1
    Faults = {"save", "query", "no data", "holiday", "closed", "window", "crash", "pause"}
INVARIANTS
    OneEntryPerStock
    CapHonoured
    OrderSound
PROPERTY
    NewsHandled
CHECK_DEADLOCK FALSE
