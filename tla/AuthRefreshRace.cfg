\* Two refreshes present the same refresh token.
SPECIFICATION Spec
CONSTANTS
  User = {u1}
  SessionId = {s1}
  Proc = {p1, p2}
  None = None
  Kinds <- RotateKinds
  RedisMayFail = FALSE
  MayCrash = FALSE
  MayDeactivate = FALSE
  MaxGrants = 3
  MaxLapses = 0
INVARIANTS OneRefreshTokenPerSession
CHECK_DEADLOCK FALSE
