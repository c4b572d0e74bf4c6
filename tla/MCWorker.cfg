SPECIFICATION FairSpec
CONSTANTS
  Sid = {s1, s2}
  Other = {}
  Token = {k1, k2}
  NoToken = NoToken
  Pub = {p1}
  Nobody = Nobody
  Leg = {s1, s2}
  NoLeg = Nobody
  Profile <- Profiles
INVARIANTS
  TypeOK
  ServesAdmittedLeg
  ServesRedeemedLeg
  TurnsOnlyWhenServing
PROPERTIES
  NeverReplayed
  StartupEnds
  RefinesCall
CHECK_DEADLOCK FALSE
