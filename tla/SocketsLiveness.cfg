\* A connection and a message, Redis failing, the worker dying.
SPECIFICATION FairSpec
CONSTANTS
  c1 = c1  c2 = c2  u1 = u1  w1 = w1  w2 = w2
  User = {u1}
  Worker = {w1}
  Conn = {c1}
  Message = {m1}
  None = None
  Owner <- OneUser
  MayOverlap = FALSE
  RedisMayFail = TRUE
  MayCrash = TRUE
  MaxPublished = 2
  PresenceTicks = 3
PROPERTIES CleanedUp EveryMessageAnswered PresenceFades
\* Connections and messages are finite.
CHECK_DEADLOCK FALSE
