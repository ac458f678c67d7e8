SPECIFICATION FairSpec
CONSTANTS
    Workers = {w1, w2, w3}
INVARIANTS
    TypeOK
    NoLostResume
PROPERTIES
    SleepersTestAgain
    ResumeWakesAll
