SPECIFICATION Spec
CONSTANTS
    Parts <- MCParts
    Disk <- SpacedDisk
    Undecodable <- MCUndecodable
    Alphabet <- MCAlphabet
    Wide <- MCWide
    Builds = {TRUE}
    CommandLines <- OnlyWithSlash
    Typed <- Nothing
    Escaped <- MCEscaped
INVARIANTS
    AllAvailable
CHECK_DEADLOCK FALSE
