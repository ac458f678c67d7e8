SPECIFICATION FairSpec
CONSTANTS
    Workers = {w1, w2}
    N = 2
    Size <- MCTiny
    UploadJobs = 1
    ChanCap = 1
    BulkStater = FALSE
    BulkThreshold = 2
    Figures = {1}
    Modes = {"sync", "dry"}
CONSTRAINT NotCancelled
PROPERTIES
    Completes
