CONSTANTS
    File = {"prp", "sdl", "ogg", "client", "pak"}
    Content <- MCContent
    Torn = "torn"
    Compressible = {"old"}
    Cipher <- MCCipher
    Secure = {"sdl"}
    Pak = "pak"
    Manifest <- MCManifest
    Stages <- MCStages
    Gate <- MCGate
    Wants <- MCWants
    Refs <- MCRefs
    Initial <- MCInitial
    Edits <- MCEdits
    MaxRuns = 3
    MaxEdits = 2
    MaxFaults = 1
SPECIFICATION Spec
INVARIANT RunBringsUpToDate
CHECK_DEADLOCK FALSE
