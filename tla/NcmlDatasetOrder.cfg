SPECIFICATION Spec
CONSTANTS
    Files <- MCFiles
    Content <- MCContent
    Documents <- MCDocuments
    NaN = NaN
    Garbage = Garbage
INVARIANTS
    ConcatenatedInOrderListed
CHECK_DEADLOCK FALSE
