SPECIFICATION Spec
CONSTANTS
  u1 = u1
  Users <- MCUsers
  Owner <- MCOwner
  Tasks = {t1, t2}
  Cancellable = {t1}
  Batches = {b1}
  Handlers = {h1, h2}
  Workers = {w1, w2}
  UserLimit = 1
  GlobalLimit = 1
  MaxBatch = 2
  MaxFaults = 1
  RetryOnTimeout = TRUE
  NoTask = NoTask
  NoBatch = NoBatch
  NoLease = NoLease
  NoStream = NoStream
SYMMETRY Symmetry
INVARIANTS
  TypeOK
  SingleCopy
  ReadyIsUnstarted
  LedgerAgrees
  FinishedIsFinal
PROPERTY SlotsAccounted
\* every id may have been used: the system is then at rest
CHECK_DEADLOCK FALSE
