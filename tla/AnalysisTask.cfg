SPECIFICATION FairSpec
CONSTANTS
  Tasks = {t1}
  Requests = {r1}
  Admins = {a1}
  PoolSize = 1
  NodeProgress <- MCNodeProgress
  SideUpdates = 1
  MaxAdmin = 1
  MaxFaults = 1
  NoEntry = NoEntry
INVARIANTS
  TypeOK
  CompletedHasReport
  CopiesAgreeAtRest
  StoredIsLastOrLate
PROPERTIES
  DeletedStaysDeleted
  EndedTrackerStays
  EveryTaskEnds
\* every task id may have been used: the system is then at rest
CHECK_DEADLOCK FALSE
