CONSTANTS
    Workers = {w1, w2}
    Reading = {w1}
    Backends = {"None", "Sqlite"}
    QueueSize = 1
    RingSize = 1
    MsgSize = 2
    MaxMessages <- MCMaxMessages
    MaxCalls = 2

SPECIFICATION Spec
CHECK_DEADLOCK FALSE
INVARIANTS
    HeardInOrder
    MissedOnlyByLag
    OwnChangeFirst
    FramingKept
PROPERTIES
    CallsReturn
    GetsPast
