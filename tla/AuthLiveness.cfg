SPECIFICATION FairSpec
CONSTANTS
  User = {u1}
  SessionId = {s1}
  Proc = {p1, p2}
  None = None
  Kinds <- RotateKinds
  RedisMayFail = TRUE
  MayCrash = FALSE
  MayDeactivate = FALSE
  MaxGrants = 3
  MaxLapses = 0
PROPERTIES RefreshSucceeds
CHECK_DEADLOCK FALSE
