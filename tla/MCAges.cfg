CONSTANTS
    s1 = s1
    s2 = s2
    a1 = a1
    a2 = a2
    p1 = p1
    p2 = p2
    u1 = u1
    None = None
    Session <- TwoSessions
    Account <- Nobody
    Player <- Nobody
    AgeUuid <- OneAge
    Ready <- Nobody
    OwnerOf <- OwnsNothing
    ClientRef <- Cycle
    BadSdl <- BadAge

SPECIFICATION Spec

INVARIANTS
    AgesConsistent
PROPERTIES
    RepliedAgeCompletes
