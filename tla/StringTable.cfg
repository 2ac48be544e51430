SPECIFICATION Spec
CONSTANTS
    Strings <- MCStrings
    Hash <- MCHash
    InitSize = 4
    DepthLimit = 3
    MaxSize = 32
    MaxEntry = 3
    ChunkSize = 12
    NumChunks = 2
INVARIANTS
    TypeOK
    EveryAtomOnce
    TextKept
    CompareOrders
PROPERTIES
    ImplementsAtomSet
    InsertEnds
CHECK_DEADLOCK FALSE
