SPECIFICATION MCKVSpec
CONSTANTS
    v = v
    w = w
    NodeSize = 2
    Values = {v, w}
    Keys <- AllKeys
    Calls <- AllCalls
    Scenarios <- Sessions
    MaxCalls = 7
    KeyBytes = 4
    MaxIds = 8
    MaxSessions = 2
PROPERTIES
    LoadAfterCrash
CHECK_DEADLOCK FALSE
