SPECIFICATION FairSpec
CONSTANTS
    Strategies = {s1}
    Partitions = {p1, p2}
    AmountBased = {}
    PageSize = 10
    BatchSize = 2
    Overlap = 1
    Operations <- AllOperations
    MaxTx = 3
    MaxFaults = 1
    MaxRestarts = 0
INVARIANTS
    NoChangeLost
    ActiveRowsServed
PROPERTIES
    StoredNeverRegresses
    OutboxDrainsOrBlocks
CHECK_DEADLOCK FALSE
