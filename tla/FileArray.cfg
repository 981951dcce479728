SPECIFICATION Spec
CONSTANTS
    Elements = {a, b}
    Positions = {0, 1, 2, 3, 4, 5}
    First = 0
    Torn = torn
    Tearing = TRUE
    TearsUnderCheck = FALSE
    NoData = nodata
    MaxSize = 2
    MaxOps = 5
    MaxStops = 2
INVARIANTS TypeOK OverwritesAreJournaled RestoreGivesVector
PROPERTIES FileStepsThroughOperations RestoreKeepsGoal
CHECK_DEADLOCK FALSE
