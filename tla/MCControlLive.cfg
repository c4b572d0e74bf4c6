SPECIFICATION FairSpec
CONSTANTS
  Id = {i1, i2}
  Task = {t1, t2}
  NoTask = NoTask
  SeenCap = 2
  Grace = 2
  MaxTime = 3
PROPERTIES
  TakeoverCompletes
  CleanupCompletes
CHECK_DEADLOCK FALSE
