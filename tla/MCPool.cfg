SPECIFICATION Spec
CONSTANTS
    Workers = {w1, w2}
    N = 2
    Size <- MCSize
    UploadJobs = 1
    ChanCap = 2
    BulkStater = FALSE
    BulkThreshold = 2
    Figures = {1, 3}
    Modes = {"sync", "verify", "dry"}
SYMMETRY Symmetry
INVARIANTS
    TypeOK
    NeverStuck
    DoneMeansSynced
    UploadCap
    QuietAtDone
    UpNextIsNew
    LiveFigures
PROPERTIES
    LedgerSpec
    PauseStopsPool
    ReadOnlyModes
