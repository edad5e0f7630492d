SPECIFICATION FairServerSpec
CONSTANTS
    Files = {"f"}
    Keys = {"kf"}
    Datasets = {"H", "N"}
    Aggregates = {"N"}
    Sources = {"h", "ma", "mb"}
    DatasetOf <- MCDatasetOf
    FileOf <- MCFileOf
    KeyOf <- MCKeyOf
    Streams = {"c"}
    None = "none"
    Plans <- MCPlans
    Length <- MCLength
    MaxVersion = 2
    MaxRestarts = 1
INVARIANTS
    TypeOK
    IndexInv
    NoPanic
    PublishedIsComplete
    CheckedIsDescribed
    OwnIndexDescribesFile
    ServerTypeOK
    PartsInv
    PartsAgree
PROPERTIES
    ScanEnds
    RequestsEnd
CHECK_DEADLOCK FALSE
