SPECIFICATION EncodingSpec
CONSTANTS
    NULL = NULL
    SIZE_MEM_BUFFER = 140
    PATH_SIZE = 2
    FH_SIZE = 1
    ENUM_SIZE = 4
    BUF_SIZE = 40
    INDEX_VALUES = 36
    COUNT_VALUES = 256
    PTR_SIZE = 4
    HASH_SIZE = 6
    Schemas <- Numbered
    Rooms = {5, 9, 11}
    JsonNames <- MCJsonNames
    JsonFields <- MCJsonFields
    Parts = {}
    CTX_SIZE = 1
    Lost = Lost
INVARIANTS TextIsEncodeType
CHECK_DEADLOCK FALSE
