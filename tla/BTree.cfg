SPECIFICATION MCSpec
CONSTANTS
    v = v
    w = w
    NodeSize = 3
    Values = {v, w}
    Keys <- AllKeys
    Calls <- AllCalls
    Scenarios <- Trees
    MaxCalls = 29
INVARIANTS
    TypeOK
    TreeShape
    LeafListIsOrdered
    ValuesMatchKeys
    CommitsAreContiguous
    CommittedTreeIsCurrent
    CommittedNodesFitBlock
    ShortageHasSibling
    BufferIsCurrent
PROPERTIES
    ImplementsMap
CHECK_DEADLOCK FALSE
