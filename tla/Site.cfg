SPECIFICATION Spec
CONSTANTS
    Parts <- MCParts
    Disk <- PlainDisk
    Undecodable <- MCUndecodable
    Alphabet <- MCAlphabet
    Wide <- MCWide
    Builds = {TRUE, FALSE}
    CommandLines <- MCCommandLines
    Typed <- MCTyped
    Escaped <- MCEscaped
INVARIANTS
    TypeOK
    DatasetsAnswerForThemselves
    PagesListEachOnce
    AllAvailable
CHECK_DEADLOCK FALSE
