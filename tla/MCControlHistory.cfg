SPECIFICATION HistorySpec
CONSTANTS
  Id = {i1, i2, i3}
  Task = {t1, t2, t3}
  NoTask = NoTask
  SeenCap = 2
  Grace = 2
  MaxTime = 3
SYMMETRY Symmetry
INVARIANTS
  TypeOK
  ListensOnlyWhenScreening
  ScreeningIsLive
  OnlyTheStatementIsHeard
  SilentOnceLeaving
  HandlerInv
  ForgottenOnlyWhenFull
PROPERTIES
  OutroKeepsItsTime
  StatementSaidOnce
  RefinesTakeover
CHECK_DEADLOCK FALSE
