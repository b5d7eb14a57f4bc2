CONSTANTS
    s1 = s1
    s2 = s2
    a1 = a1
    a2 = a2
    p1 = p1
    p2 = p2
    u1 = u1
    None = None
    Session <- TwoSessions
    Account <- TwoAccounts
    Player <- TwoPlayers
    AgeUuid <- Nobody
    Ready <- TwoPlayers
    OwnerOf <- OwnedApart
    ClientRef <- Nobody
    BadSdl <- GoodSdl

SPECIFICATION Spec

INVARIANT
    OnlinePlayersAreHeld
