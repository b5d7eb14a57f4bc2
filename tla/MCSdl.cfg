CONSTANTS
    Db <- MCDb
    Top = 1
    Value = {0, 1}
    Wire <- MCWire
    Now = 5
    TooMany = 3
    Text <- MCText
    Cut <- MCCut
    Lossy <- MCLossy
SPECIFICATION Spec
INVARIANTS RoundTrip UpgradeKeeps SaveLosesOnlyUpgraded
CHECK_DEADLOCK FALSE
