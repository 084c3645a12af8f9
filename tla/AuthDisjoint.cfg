\* Requests that work on different sessions, Redis answering, aborts anywhere.
SPECIFICATION Spec
CONSTANTS
  User = {u1}
  SessionId = {s1, s2}
  Proc = {p1, p2}
  None = None
  Kinds <- EveryKind
  RedisMayFail = FALSE
  MayCrash = TRUE
  MayDeactivate = TRUE
  MaxGrants = 3
  MaxLapses = 1
SYMMETRY Symmetry
CONSTRAINT Disjoint
INVARIANTS RevokedIsUncached OneRefreshTokenPerSession
PROPERTIES ContractHolds
\* Clients may run out of the bounded grants and of unexpired tokens.
CHECK_DEADLOCK FALSE
