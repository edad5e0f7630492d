SPECIFICATION Spec
CONSTANTS
    Files <- MCFiles
    Content <- MCContent
    Documents <- MCDocuments
    NaN = NaN
    Garbage = Garbage
INVARIANTS
    CoordinateForEveryRow
CHECK_DEADLOCK FALSE
