SPECIFICATION Spec
CONSTANTS
  MaxLines = 3
  JobCounts = {0, 1, 6}
  Heights = {10, 13, 15, 18}
  PublicURLs = {u1, u2}
CHECK_DEADLOCK FALSE
INVARIANTS TypeOK  SelectedIsShown
PROPERTIES ClickOpensDrawn
