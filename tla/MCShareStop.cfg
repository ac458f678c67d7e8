SPECIFICATION Spec
CONSTANTS
  Procs = {p1, p2}
  Jobs = {j1}
  Callers = {j1, "loop"}
  NoProc = NoProc
INVARIANT StopTerminates
