SPECIFICATION Spec
CONSTANTS
  u1 = u1
  Users <- MCUsers
  Owner <- MCOwner
  Tasks = {t1}
  Cancellable = {t1}
  Batches = {}
  Handlers = {h1}
  Workers = {w1, w2}
  UserLimit = 1
  GlobalLimit = 2
  MaxBatch = 1
  MaxFaults = 1
  RetryOnTimeout = TRUE
  VisibilityTimeout = 1
  MaxClock = 2
  NoTask = NoTask
  NoBatch = NoBatch
  NoLease = NoLease
  NoTTL = NoTTL
SYMMETRY Symmetry
INVARIANTS
  TypeOK
  SingleToken
  NoEarlyRedelivery
\* every id may have been used and the clock at its bound: the system is then at rest
CHECK_DEADLOCK FALSE
