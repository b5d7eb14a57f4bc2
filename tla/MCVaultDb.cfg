CONSTANTS
    u1 = u1
    u2 = u2
    nil = nil
    ann = ann
    ANN = ANN
    bob = bob
    noname = noname
    Uuid <- MCUuid
    NilUuid = nil
    Name <- MCName
    NoName = noname
    Fold <- MCFold
    ClientNode <- MCClientNode
    Ref <- MCRef
    MAX_PLAYERS = 1
    MaxNodeIndex = 1006
    MaxRefs = 2
    MaxGameServers = 1

SPECIFICATION Spec
CHECK_DEADLOCK FALSE
SYMMETRY Symmetry

INVARIANTS
    TypeOK
    NoDuplicateIds
    LookupsHitOwnNodes
    NamesUnique
    AtMostMaxPlayers
    PlayersMatchNodes
    BlobsKeepNodes
PROPERTIES
    ChangesAnnounced
