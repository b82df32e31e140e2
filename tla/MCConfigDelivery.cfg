SPECIFICATION Spec
CONSTANTS
    Strategies = {s1, s2}
    MaxVersion = 4
SYMMETRY Symmetry
INVARIANTS
    DeletedStaysDeleted
PROPERTY VersionsMonotone
