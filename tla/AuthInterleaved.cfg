\* Interleaved requests of two users, Redis failing, aborts anywhere.
SPECIFICATION Spec
CONSTANTS
  User = {u1, u2}
  SessionId = {s1, s2}
  Proc = {p1, p2}
  None = None
  Kinds <- TokenKinds
  RedisMayFail = TRUE
  MayCrash = TRUE
  MayDeactivate = FALSE
  MaxGrants = 3
  MaxLapses = 0
SYMMETRY Symmetry
INVARIANTS TypeOK LookupsAgree
PROPERTIES RevokedStaysRevoked RevocationIsFinal
\* Aborts may use up the bounded grants.
CHECK_DEADLOCK FALSE
