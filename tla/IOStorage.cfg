SPECIFICATION Spec
CONSTANTS
    Blocks = {a, b}
    MaxId = 4
INVARIANTS
    TypeOK
    NoAliasing
    FreeListSound
    NoLeak
PROPERTY ImplementsMap
