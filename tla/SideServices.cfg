SPECIFICATION Spec
CONSTANTS
  r1 = r1
  r2 = r2
  r3 = r3
  s1 = s1
  s2 = s2
  s3 = s3
  c1 = c1
  c2 = c2
  Requests <- MCRequests
  Prices = {1, 2}
  Quantities = {1}
  InitialCash = 2
  NSymbols = 2
  MaxDay = 3
  MaxDrives = 4
  Periods = {"daily", "weekly"}
  LastDay = 4
  BatchSize = 2
  Lookback = 1
  Instances = {"scheduled", "api"}
  Syncs <- MCSyncs
  Callers <- MCCallers
  MaxCalls = 2
  TimeWindow = 2
CHECK_DEADLOCK FALSE
INVARIANTS
  TypeOK
  NothingNegative
  PnlMatchesTrades
  BarRepeatsAreKnown
  StopLeavesOneBar
  GapsAreKnown
  SyncsBounded
  StatusSettles
  PermitsInWindow
