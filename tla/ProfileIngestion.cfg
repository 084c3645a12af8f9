\* Three uploads of two users that overlap and fail anywhere.
SPECIFICATION FairSpec
CONSTANTS
  empty = empty  long = long
  User = {u1, u2}
  Upload = {p1, p2, p3}
  Doc = {empty, long}
  None = None
  Chunks <- ChunkCounts
  BatchSize = 2
INVARIANTS TypeOK IndexedIsComplete LoneUploadRepairs
PROPERTIES EventuallyIndexed
\* Uploads are finite.
CHECK_DEADLOCK FALSE
