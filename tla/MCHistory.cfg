SPECIFICATION Spec
CONSTANTS
  Observer = {o1, o2}
  Capacity = 1
  MaxSnapshots = 1
  MaxTurn = 2
  MaxSequence = 3
  MaxToken = 2
SYMMETRY Symmetry
INVARIANTS
  TypeOK
  UtteranceOnce
  ObserverConverges
CHECK_DEADLOCK FALSE
PROPERTY PagesAreFrozen
