SPECIFICATION Spec
CONSTANTS
    Monos = {m1, m2}
    Nodes = {n1}
    Counts = {200, 300}
    ByteCounts = {300}
    Finalizers = {f1, f2}
    MaxFinalizers = 2
    Null = null
    Outside = outside
INVARIANTS
    TypeOK
    ListedOnce
    FinalizersRunOnFree
PROPERTIES
    RootsKept
    CollectionEnds
CHECK_DEADLOCK FALSE
