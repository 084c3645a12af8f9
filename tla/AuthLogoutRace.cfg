\* A request caches its access token while a logout revokes the session.
SPECIFICATION Spec
CONSTANTS
  User = {u1}
  SessionId = {s1}
  Proc = {p1, p2}
  None = None
  Kinds <- LogoutKinds
  RedisMayFail = FALSE
  MayCrash = FALSE
  MayDeactivate = FALSE
  MaxGrants = 1
  MaxLapses = 0
INVARIANTS RevokedIsUncached
CHECK_DEADLOCK FALSE
