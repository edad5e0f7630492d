SPECIFICATION Spec
CONSTANTS
    Files <- MCFiles
    Content <- MCContent
    Documents <- MCDocuments
    NaN = NaN
    Garbage = Garbage
INVARIANTS
    TypeOK
    RowHasItsCoordinate
    CacheCoversDds
    OtherIsDescribed
    DocumentInForce
CHECK_DEADLOCK FALSE
