SPECIFICATION Spec
CONSTANTS
    Blocks = {a, b}
    NoData = nodata
    MaxId = 2
    MaxOps = 4
    MaxCrashes = 2
INVARIANTS TypeOK FirstOperationIsUndone PositionsInReach
PROPERTIES WritesMakeOperations
CHECK_DEADLOCK FALSE
