SPECIFICATION Spec
CONSTANTS
  Procs = {p1, p2}
  NoProc = NoProc
  NFiles = 3
  NBundles = 1
  Starts = {1}
  Levels = {}
  Mvn = {}
  Hanging = {}
  MaxLaunches = 4
  MaxKills = 1
SYMMETRY ProcSymmetry
CHECK_DEADLOCK FALSE
INVARIANTS SetUpComplete
PROPERTIES KeepsEdits NeverResumed
