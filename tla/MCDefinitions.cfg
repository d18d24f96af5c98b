SPECIFICATION MCSpec
CONSTANTS
    NULL = NULL
    Lost = Lost
    SIZE_MEM_BUFFER = 66
    PATH_SIZE = 2
    FH_SIZE = 1
    ENUM_SIZE = 4
    BUF_SIZE = 20
    INDEX_VALUES = 16
    COUNT_VALUES = 3
    CTX_SIZE = 6
    JsonNames <- MCJsonNames
    JsonFields <- MCJsonFields
    Parts <- MCParts
    MaxSteps = 5
INVARIANTS TypeOK CompleteStructsKept LookupFindsFirst
PROPERTIES KeepsSchema
CHECK_DEADLOCK FALSE
