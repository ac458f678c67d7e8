SPECIFICATION FairSpec
CONSTANTS
  Procs = {p1, p2}
  Jobs = {j1, j2}
  Callers = {j1, j2, "loop"}
  NoProc = NoProc
CONSTRAINT OneProcessWhenInstalling
INVARIANTS TypeOK NothingUnverified OneInstaller
PROPERTIES TransientsEnd LinkIsShown
