SPECIFICATION Spec
CONSTANTS
    NULL = NULL
    Message <- MCMessage
    Lengths = {1, 7, 8, 20, 32, 127, 136}
INVARIANTS TypeOK PiecesDoNotMatter DigestIsKeccak256
