SPECIFICATION Spec
CONSTANTS
    Files <- MCFiles
    Builders <- MCBuilders
    Hdf5 = Hdf5
    Unlabelled = Unlabelled
    Unreadable = Unreadable
INVARIANTS
    TypeOK
    DasCoversDds
    FillValueHasTypeOfVariable
    GridsAreConsistent
CHECK_DEADLOCK FALSE
