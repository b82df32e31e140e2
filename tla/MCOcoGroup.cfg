CONSTANTS
    Quantity = 2
    Attempts = 1
    Enabled <- BothLegs
    Environment <- Orderly
SPECIFICATION FairSpec
INVARIANTS
    NoOrphanLeg
    LegsCoverPosition
PROPERTIES
    TerminalIsFinal
    ExitEndsGroup
    FillLeadsToLegs
CHECK_DEADLOCK FALSE
