\* A second connection of the user on the same worker.
SPECIFICATION Spec
CONSTANTS
  c1 = c1  c2 = c2  u1 = u1  w1 = w1  w2 = w2
  User = {u1}
  Worker = {w1}
  Conn = {c1, c2}
  Message = {m1}
  None = None
  Owner <- OneUser
  MayOverlap = TRUE
  RedisMayFail = FALSE
  MayCrash = FALSE
  MaxPublished = 1
  PresenceTicks = 1
PROPERTIES ForwardsEveryMessage
\* Connections and messages are finite.
CHECK_DEADLOCK FALSE
