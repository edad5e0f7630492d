SPECIFICATION Spec
CONSTANTS
    Files = {"f"}
    Keys = {"kf"}
    Datasets = {"H"}
    Aggregates = {}
    Sources = {"h"}
    DatasetOf <- MCDatasetOf
    FileOf <- MCFileOf
    KeyOf <- MCKeyOf
    Streams = {"r"}
    None = "none"
    MaxVersion = 2
    MaxRestarts = 1
INVARIANTS
    ChangedFileIsRefused
CHECK_DEADLOCK FALSE
