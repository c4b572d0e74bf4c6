SPECIFICATION FairAdmission
CONSTANTS
  Sid = {s1, s2}
  Other = {o1}
  Token = {k1, k2}
  NoToken = NoToken
  Pub = {p1, p2}
  Nobody = Nobody
INVARIANTS
  LegChangeAborts
  OnlyLegAudioRequested
  LostAudioAborts
PROPERTIES
  SoleLegIsAdmitted
  AudioIsNoticed
CHECK_DEADLOCK FALSE
