SPECIFICATION Spec
CONSTANTS
    Entries = {e1}
    StrategyOf <- StrategyOfValue
    Size = 2
    Intraday = {e1}
    Managed <- ManagedValue
    CustomTimes = {0, 5}
    Requests = {q1}
    Events <- EventsValue
    Times = {3, 9}
    Faults = {"rows", "book", "sale", "cancel", "events"}
    MaxOf <- MaxValue
    MaxTotal = 1
INVARIANTS
    NoneForgotten
PROPERTIES
    SchedulerClosesOnce
    ShortNeedsCause
CHECK_DEADLOCK FALSE
