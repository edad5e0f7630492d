SPECIFICATION Spec
CONSTANTS
    Names = {"A", "B"}
    Numerals = {"0", "7"}
    Value <- MCValue
    Queries <- MCQueries
    Written <- MCWritten
    NoText = NoText
    MaxLen = 5
INVARIANTS
    TypeOK
    AcceptedMeansWhatItSays
    WrittenIsUnderstood
CHECK_DEADLOCK FALSE
