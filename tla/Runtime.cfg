SPECIFICATION Spec
CONSTANTS
    WordSize = 8
    ChunkSize = 32
    Requests = {1, 9, 32}
    MaxChunks = 1
    Structs = {s1, s2, s3}
    Values = {v1, v2}
    MaxInits = 2
    NULL = NULL
INVARIANTS
    TypeOK
    AllocsDisjoint
    LinksAgree
    WalkIsList
    SetUpOnce
CHECK_DEADLOCK FALSE
