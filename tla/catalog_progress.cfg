SPECIFICATION FairSpec
CONSTANTS
    Call = {c1, c2, c3}
    Free = Free
    Faults <- AllFaults
INVARIANTS EntriesGenuine
PROPERTIES EveryCallEnds
CHECK_DEADLOCK FALSE
