SPECIFICATION Spec
CONSTANTS
    Small = Small
    Large = Large
    Caches <- MCCaches
    NumEntries <- MCTwins
    BitsPerUnit = 3
    MaxBlocks = 3
    Threshold = 2
    NoCache = NoCache
    NoBlock = 0
INVARIANTS
    EveryBlockOnce
    ListsMatchCounts
    FreeBlocksClean
    BlockUsedExact
