CONSTANTS
    Name = {"pak", "mfs", "secret"}
    Mfs = {"mfs"}
    Hidden = {"secret"}
    Whitelist = {"pak"}
    Size0 <- MCSize0
    Sizes = {0, 1, 3, 6}
    ChunkSize = 2
    MaxTotal = 4
    MaxRequests = 2
    MaxRewrites = 1
SPECIFICATION Spec
INVARIANTS ChunksInOrder UndisturbedComplete AnsweredInOrder
PROPERTY Served
CHECK_DEADLOCK FALSE
