SPECIFICATION FairSpec
CONSTANTS
    Blocks = {1, 2}
    Versions <- MCVersions
    MaxLen = 3
    PartSizes = {2, 3}
    Concurrency = 2
    Page = 2
    MaxUploads = 2
INVARIANTS
    TypeOK
    CopyIsExact
    OnlyMissingSent
PROPERTIES
    ObjectIsWhole
    Heals
