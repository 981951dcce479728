SPECIFICATION Spec
CONSTANTS
    InitSize = 4
    MaxRange = 2
    RandomValues = {r}
INVARIANTS
    TypeOK
    OnlyRangesThrow
    AbortTakesManyDels
CHECK_DEADLOCK FALSE
