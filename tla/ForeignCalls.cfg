SPECIFICATION Spec
CONSTANTS
    Entries = {e1, e2, e3}
    NoEntry = none
    MaxSlots = 4
    MaxCalls = 6
INVARIANTS
    TypeOK
    FramesKept
    SavedAboveFrames
