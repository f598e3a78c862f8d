SPECIFICATION FairSpec
CONSTANTS
  MaxConfigs = 2
  NPools = 3
  Bad = {1}
  MayFail = {2}
  MaxStarts = 2
  Threads = {t1, t2}
  NoThread = NoThread
  Keys = {k1}
  MaxCalls = 3
CHECK_DEADLOCK FALSE
INVARIANTS AllConfigured StrayOnlyByOverlap RaisesWithCause NothingOldComesBack SamePreviousOverlap
PROPERTIES InitEnds GetCacheEnds
