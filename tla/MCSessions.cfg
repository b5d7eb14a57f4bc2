CONSTANTS
    s1 = s1
    s2 = s2
    a1 = a1
    a2 = a2
    p1 = p1
    p2 = p2
    u1 = u1
    None = None
    Session <- TwoSessions
    Account <- TwoAccounts
    Player <- TwoPlayers
    AgeUuid <- Nobody
    Ready <- OnePlayer
    OwnerOf <- OwnedByFirst
    ClientRef <- EarlyInfo
    BadSdl <- BadRelto

SPECIFICATION Spec

INVARIANTS
    SignOffFindsInfo
    NoDanglingRefs
    RefsDescend
    PublishedComplete
PROPERTIES
    SignsInOwnPlayer
    RefinesSignIn
    DisconnectSignsOff
    CreationCompletes
