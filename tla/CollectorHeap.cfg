SPECIFICATION Spec
CONSTANTS
    Nodes = {n1, n2}
    Cafs = {c1}
    NoNode = none
    MaxPtrs = 2
    MaxStack = 2
    StackGrow = 0
    Places = {s1}
    ForeignWords = {2}
    SavingMallocHeap = TRUE
PROPERTIES ImplementsLazyHeap CollectionEnds
CHECK_DEADLOCK FALSE
