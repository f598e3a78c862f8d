SPECIFICATION FairSpec
CONSTANTS
  Procs = {p1}
  NoProc = NoProc
  NFiles = 1
  NBundles = 3
  Starts = {1, 3}
  Levels = {2, 3}
  Mvn = {2, 3}
  Hanging = {3}
  MaxLaunches = 3
  MaxKills = 1
CHECK_DEADLOCK FALSE
INVARIANTS ListHonoured
PROPERTIES StopsBundles InterruptHeard GoesDown
