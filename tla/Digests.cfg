SPECIFICATION DigestsSpec
CONSTANTS
    MaxStart = 4
    MaxLength = 26
    Process <- Chain
    Message <- MCMessage
    Garbage <- MCGarbage
    NoDigest = NoDigest
    CountLimit = 1024
    Pieces = {1, 55, 56, 63, 64, 65, 130}
    MaxSent = 260
INVARIANTS
    HashOfKeyOnly
    SameFunctions
    StateOfMessage
    DigestOfMessage
CHECK_DEADLOCK FALSE
