CONSTANTS
    BufSize = 3
    ReadSizes = {1, 2, 3}
    MaxBytes = 7

SPECIFICATION Spec
CHECK_DEADLOCK FALSE

INVARIANT
    Decrypted
PROPERTY
    ReadsReturn
