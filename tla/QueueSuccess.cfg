SPECIFICATION Spec
CONSTANTS
  u1 = u1
  Users <- MCUsers
  Owner <- MCOwner
  Tasks = {t1}
  Cancellable = {}
  Batches = {}
  Handlers = {h1}
  Workers = {w1}
  UserLimit = 3
  GlobalLimit = 20
  MaxBatch = 1
  MaxFaults = 0
  RetryOnTimeout = FALSE
  NoTask = NoTask
  NoBatch = NoBatch
  NoLease = NoLease
  NoStream = NoStream
PROPERTY SuccessIsCompleted
\* every id may have been used: the system is then at rest
CHECK_DEADLOCK FALSE
