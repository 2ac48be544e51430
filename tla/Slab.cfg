SPECIFICATION Spec
CONSTANTS
    Small = Small
    Large = Large
    Caches <- MCCaches
    NumEntries <- MCUnits
    BitsPerUnit = 3
    MaxBlocks = 2
    Threshold = 2
    NoCache = NoCache
    NoBlock = 0
INVARIANTS
    TypeOK
    FreeCountExact
    FreshEntry
    BitsAreEntries
PROPERTIES
    ImplementsEntryPool
    CollectionEnds
