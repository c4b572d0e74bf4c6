SPECIFICATION FairSpec
CONSTANTS
  Text = {"a"}
  Capacity = 2
  MaxSequence = 5
INVARIANTS
  TypeOK
  NothingSilentlyLost
  PartialsAreClosed
PROPERTY RefinesFeed
CHECK_DEADLOCK FALSE
