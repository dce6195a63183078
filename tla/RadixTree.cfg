SPECIFICATION Spec
CONSTANTS
    Keys <- MCKeys
    Values = {v1, v2}
    Branches = 4
    Cap4 = 2
    Cap8 = 3
    SmallStr = 2
    KeySize = 4
    NULL = NULL
VIEW IndexFree
INVARIANTS Shape OwnedOnce LookupsRight
PROPERTY RefinesMap
