SPECIFICATION Spec
CONSTANTS
    Elements = {a, b}
    Positions = {0, 1, 2, 3, 4}
    First = 0
    Torn = torn
    Tearing = FALSE
    TearsUnderCheck = FALSE
    NoData = nodata
    MaxSize = 2
    MaxOps = 4
    MaxStops = 1
INVARIANT RestoredVectorIsPast
CHECK_DEADLOCK FALSE
