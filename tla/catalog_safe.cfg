SPECIFICATION Spec
CONSTANTS
    Call = {c1, c2, c3, c4}
    Free = Free
    Faults <- SafeFaults
SYMMETRY Symmetry
INVARIANTS TypeOK MutualExclusion NoLostEntry
PROPERTIES CatalogExtends LogSpec
CHECK_DEADLOCK FALSE
