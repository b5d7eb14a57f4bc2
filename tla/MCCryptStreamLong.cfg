CONSTANTS
    BufSize = 3
    ReadSizes = {1, 4}
    MaxBytes = 7

SPECIFICATION Spec
CHECK_DEADLOCK FALSE

INVARIANT
    Decrypted
