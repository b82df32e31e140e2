CONSTANTS
    Quantity = 2
    Attempts = 2
    Enabled <- BothLegs
    Environment <- AllRaces
SPECIFICATION Spec
INVARIANTS
    LegsWithinPosition
CHECK_DEADLOCK FALSE
