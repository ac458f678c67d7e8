SPECIFICATION Spec
CONSTANTS
    Workers = {w1, w2}
    N = 2
    Size <- MCTiny
    UploadJobs = 0
    ChanCap = 1
    BulkStater = TRUE
    BulkThreshold = 2
    Figures = {}
    Modes = {"sync"}
SYMMETRY Symmetry
INVARIANTS
    ExactlyOnce
    DoneMeansSynced
