SPECIFICATION SessionSpec
CONSTANTS
    NULL = NULL
    PastEnd = PastEnd
    Structs <- MCStructs
    Messages <- EmptyArrayMessages
    RootNames = {}
    Packets = {}
    Sizes = {}
    SIZE_MEM_BUFFER = 200
    DefsEnd = 10
    CTX_SIZE = 8
    HASH_SIZE = 3
    ENC_SIZE = 3
    PTR_SIZE = 2
    MAX_PATH_DEPTH = 4
    MAX_ARRAY_DEPTH = 4
    ADDRESS_LENGTH = 2
    MAX_PAYLOAD = 5
PROPERTY BothHashesPrinted
