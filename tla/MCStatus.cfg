SPECIFICATION Spec
CONSTANTS
  Executor = {e1, e2}
  Probe = {p1, p2}
  MaxConnections = 2
SYMMETRY Symmetry
INVARIANTS
  ConnectionIsReported
  SessionsAddUp
PROPERTIES
  ReadyAnswerIsTrue
  StoppingIsFinal
CHECK_DEADLOCK FALSE
