SPECIFICATION Spec
CONSTANTS
    M = 4
    N <- MCN
    Offset <- MCOffset
INVARIANTS
    TypeOK
    LoopInv
PROPERTIES
    ImplementsContract
    OpensOnlyNeededMembers
CHECK_DEADLOCK FALSE
