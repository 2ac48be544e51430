SPECIFICATION Spec
CONSTANTS
    Monos = {m1, m2}
    Nodes = {n1}
    Counts = {300}
    ByteCounts = {300}
    Finalizers = {f1}
    MaxFinalizers = 1
    Null = null
    Outside = outside
INVARIANTS
    NoDangling
SYMMETRY MonoSymmetry
CHECK_DEADLOCK FALSE
