SPECIFICATION Spec
CONSTANTS
    Uninitialised = Uninitialised
    BUF_SIZE = 7
    Bytes = {0, 1, 2}
    Streams <- MCStreams
    INS_STRUCT_DEF = 1
    INS_STRUCT_IMPL = 2
    P1_COMPLETE = 0
    P1_PARTIAL = 2
    P2_NAME = 0
    P2_ARRAY = 1
    P2_FIELD = 2
INVARIANTS TypeOK Aligned
PROPERTIES HandlesWholeFrames DeliversFrames
CHECK_DEADLOCK FALSE
