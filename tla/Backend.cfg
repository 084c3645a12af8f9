\* Two workers that start, stop and die, two registrations of one email.
SPECIFICATION FairSpec
CONSTANTS
  Worker = {w1, w2}
  Request = {r1, r2}
  Email = {e1}
  None = None
  ServicesMayFail = TRUE
  DatabaseMayFail = TRUE
INVARIANTS TypeOK ServingIsReady NothingStaysOpen OnlyFirstStartsConflict
INVARIANTS CreatedOwnsTheAccount RefusalsAreTrue
PROPERTIES EveryStopEnds EveryRequestEnds
\* Requests are finite; workers need not be started.
CHECK_DEADLOCK FALSE
