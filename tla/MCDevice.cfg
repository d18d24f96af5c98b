SPECIFICATION MCSpec
CONSTANTS
    NULL = NULL
    PastEnd = PastEnd
    Structs <- MCStructs
    RootNames <- MCRootNames
    Packets <- MCPackets
    Sizes = {1, 2}
    SIZE_MEM_BUFFER = 60
    DefsEnd = 10
    CTX_SIZE = 8
    HASH_SIZE = 3
    ENC_SIZE = 3
    PTR_SIZE = 2
    MAX_PATH_DEPTH = 3
    MAX_ARRAY_DEPTH = 2
    ADDRESS_LENGTH = 1
    MaxApdus = 7
INVARIANTS PathOnValue ArraysOnPath StackMirrorsPath Released
PROPERTIES DigestIsWholeRoot
CHECK_DEADLOCK FALSE
