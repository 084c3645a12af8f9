\* Two connections one after the other, Redis failing, workers dying.
SPECIFICATION Spec
CONSTANTS
  c1 = c1  c2 = c2  u1 = u1  w1 = w1  w2 = w2
  User = {u1}
  Worker = {w1}
  Conn = {c1, c2}
  Message = {m1}
  None = None
  Owner <- OneUser
  MayOverlap = FALSE
  RedisMayFail = TRUE
  MayCrash = TRUE
  MaxPublished = 2
  PresenceTicks = 1
INVARIANTS TypeOK
PROPERTIES ContractHolds
\* Connections and messages are finite.
CHECK_DEADLOCK FALSE
