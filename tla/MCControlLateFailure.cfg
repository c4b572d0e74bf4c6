SPECIFICATION HistorySpec
CONSTANTS
  Id = {i1, i2}
  Task = {t1, t2}
  NoTask = NoTask
  SeenCap = 2
  Grace = 2
  MaxTime = 2
SYMMETRY Symmetry
INVARIANT FailureResumesScreening
CHECK_DEADLOCK FALSE
