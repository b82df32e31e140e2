SPECIFICATION FairSpec
CONSTANTS
    o1 = o1
    o2 = o2
    Orders = {o1, o2}
    Cases <- Mixed
    MaxTriggerAttempts = 2
    EvalCap = 1
    Malformed = Malformed
    Workers = {w1, w2}
    QueueCap = 1
INVARIANTS
    SecondEntryOnlyAfterLostResult
    FillFindsManager
PROPERTIES
    CancelledStaysOut
    WatchEnds
CHECK_DEADLOCK FALSE
