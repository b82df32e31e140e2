SPECIFICATION Spec
CONSTANTS
    Strategies = {s1, s2}
    Partitions = {p1, p2}
    AmountBased = {}
    PageSize = 1
    BatchSize = 2
    Overlap = 1
    Operations <- AllOperations
    MaxTx = 3
    MaxFaults = 0
    MaxRestarts = 1
SYMMETRY Symmetry
PROPERTIES
    ImplementsDelivery
\* Once the users have made their MaxTx changes and all is delivered, nothing is left to do.
CHECK_DEADLOCK FALSE
