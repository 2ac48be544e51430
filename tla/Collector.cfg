SPECIFICATION Spec
CONSTANTS
    Nodes = {n1, n2, n3}
    Cafs = {c1}
    NoNode = none
    MaxPtrs = 1
    MaxStack = 3
    StackGrow = 1
    Places = {s1}
    ForeignWords = {2}
    SavingMallocHeap = FALSE
SYMMETRY NodeSymmetry
INVARIANTS TypeOK NoDangling NeverScansStale GreyFits MarksExactly
CHECK_DEADLOCK FALSE
