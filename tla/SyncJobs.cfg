SPECIFICATION Spec
CONSTANTS
  a = a
  Jobs <- MCJobs
  Callers <- MCJobs
  KindsOfJobs <- MCKindsOfJobs
  MaxRecords = 5
  MaxRuns = 2
  MaxOps = 2
  RecentAge = 0
  ZombieAge = 0
  MaxCalls = 1
  TimeWindow = 1
  Items = 2
  ReportEvery = 1
  MaxRestarts = 1
INVARIANTS
  TypeOK
  SuccessesAreRuns
  CancelObeyed
PROPERTIES
  EndedRecordsStay
  NoRecordRunsForever
