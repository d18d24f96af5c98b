SPECIFICATION MCSpec
CONSTANTS
    NULL = NULL
    PastEnd = PastEnd
    Structs <- LimitStructs
    RootNames <- LimitRootNames
    Packets <- LimitPackets
    Sizes = {1, 2}
    SIZE_MEM_BUFFER = 38
    DefsEnd = 10
    CTX_SIZE = 8
    HASH_SIZE = 3
    ENC_SIZE = 3
    PTR_SIZE = 2
    MAX_PATH_DEPTH = 2
    MAX_ARRAY_DEPTH = 2
    ADDRESS_LENGTH = 1
    MaxApdus = 6
CHECK_DEADLOCK FALSE
INVARIANTS TypeOK Balanced NoStrayContext OnlyEmptyStructsStray
PROPERTIES HandlersReturn
