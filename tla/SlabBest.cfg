SPECIFICATION Spec
CONSTANTS
    Small = Small
    Large = Large
    Caches <- MCOneCache
    NumEntries <- MCUnits
    BitsPerUnit = 3
    MaxBlocks = 3
    Threshold = 8
    NoCache = NoCache
    NoBlock = 0
PROPERTIES
    BestGoesFirst
