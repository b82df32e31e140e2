SPECIFICATION Spec
CONSTANTS
    Quantity = 4
    FillPrice = 5
    Prices <- MCPrices
    Cases <- MCCases
    EvalBuf = 1
    MaxFailures = 1
    MaxRequests = 1
    MaxRestarts = 1
INVARIANTS
    QuantitiesAgree
    EveryUnitBooked
PROPERTIES
    FirstExitWins
    StopNeverLoosens
    SquareOffCloses
CHECK_DEADLOCK FALSE
