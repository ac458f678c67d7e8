SPECIFICATION FairSpec
CONSTANTS
    Workers = {w1, w2}
PROPERTIES
    CancelWakesAll
