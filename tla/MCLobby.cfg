CONSTANTS
    Conn = {c1, c2}
    Silent = {c2}
    Request = {r1}
    None = None
    IncomingSize = 1

SPECIFICATION Spec
CHECK_DEADLOCK FALSE
INVARIANTS
    HandedOverInOrder
PROPERTIES
    HeldUpOnlyBySilence
    ShutdownEnds
