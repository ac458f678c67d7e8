SPECIFICATION Spec
CONSTANTS
    Workers = {w1, w2}
    N = 2
    Size <- MCTiny
    UploadJobs = 0
    ChanCap = 2
    BulkStater = TRUE
    BulkThreshold = 2
    Figures = {1}
    Modes = {"sync", "verify", "dry"}
INVARIANTS
    SuccessMeansFinished
