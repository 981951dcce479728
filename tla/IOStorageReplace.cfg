SPECIFICATION Spec
CONSTANTS
    Blocks = {a}
    NoData = nodata
    MaxId = 2
    MaxOps = 3
    MaxCrashes = 2
INVARIANT CallIsUndoneOrDone
CHECK_DEADLOCK FALSE
