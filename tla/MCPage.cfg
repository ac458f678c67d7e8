SPECIFICATION FairSpec
CONSTANTS
  Parts = {p1, p2}
  Concurrency = 2
  MaxTries = 2
CONSTRAINT Small
INVARIANTS TypeOK CommittedIsTrue Nested
PROPERTIES SentNeverGoesBack PageCatchesUp
