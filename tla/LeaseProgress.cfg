SPECIFICATION FairSpec
CONSTANTS
  u1 = u1
  Users <- MCUsers
  Owner <- MCOwner
  Tasks = {t1, t2, t3}
  Cancellable = {}
  Batches = {}
  Handlers = {h1}
  Workers = {w1, w2}
  UserLimit = 1
  GlobalLimit = 2
  MaxBatch = 1
  MaxFaults = 1
  RetryOnTimeout = FALSE
  VisibilityTimeout = 1
  MaxClock = 0
  NoTask = NoTask
  NoBatch = NoBatch
  NoLease = NoLease
  NoTTL = NoTTL
INVARIANTS
  OvershootBounded
PROPERTIES
  QueuedTasksEnd
\* every id may have been used: the system is then at rest
CHECK_DEADLOCK FALSE
