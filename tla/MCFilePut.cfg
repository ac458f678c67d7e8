SPECIFICATION FairSpec
CONSTANTS
    Values = {x, y}
    MaxLen = 3
INVARIANTS
    TypeOK
    CopyIsExact
PROPERTIES
    GoodPartialKept
    Heals
