SPECIFICATION BootstrapSpec
CONSTANTS
  Leg = {s1, s2}
  NoLeg = NoLeg
  Profile <- Sizes
PROPERTY ConformingIsAccepted
CHECK_DEADLOCK FALSE
