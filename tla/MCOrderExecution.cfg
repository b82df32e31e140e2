SPECIFICATION FairSpec
CONSTANTS
    Quantity = 2
    Prices = {100, 104}
    OrderPrice = 105
    MaxRetries = 1
    Scenarios <- Mixed
INVARIANTS
    FilledWasTraded
    PricedEvents
    OneOrder
PROPERTIES
    NoFillErased
    FillsReachRow
CHECK_DEADLOCK FALSE
