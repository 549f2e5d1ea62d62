SPECIFICATION Spec
CONSTANTS
    Call = {c1, c2}
    Free = Free
    Faults = {"fetch"}
PROPERTIES CatalogExtends
CHECK_DEADLOCK FALSE
