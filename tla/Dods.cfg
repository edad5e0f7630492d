SPECIFICATION FairSpec
CONSTANTS
    File <- Labelled
    Word = 1024
    Word32 = 64
    HeaderLen = 3
    Constraints <- MCConstraints
INVARIANTS
    TypeOK
    SlabsInRange
    PrefixIsLength
    DdsDescribesData
    
PROPERTIES
    KeepsToTheHttpContract
CHECK_DEADLOCK FALSE
