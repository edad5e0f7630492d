SPECIFICATION ServerSpec
CONSTANTS
    Files = {"f"}
    Keys = {"kf"}
    Datasets = {"H"}
    Aggregates = {}
    Sources = {"h"}
    DatasetOf <- MCDatasetOf
    FileOf <- MCFileOf
    KeyOf <- MCKeyOf
    Streams = {"c"}
    None = "none"
    Plans <- MCPlans
    Length <- MCLength
    MaxVersion = 2
    MaxRestarts = 0
INVARIANTS
    RawHasAnnouncedLength
CHECK_DEADLOCK FALSE
