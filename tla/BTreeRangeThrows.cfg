SPECIFICATION MCSpec
CONSTANTS
    v = v
    w = w
    NodeSize = 2
    Values = {v, w}
    Keys <- AllKeys
    Calls <- AllCalls
    Scenarios <- SmallTrees
    MaxCalls = 5
INVARIANT GetRangeLists
CHECK_DEADLOCK FALSE
