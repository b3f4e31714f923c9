SPECIFICATION FairSpec
CONSTANTS
    Setups <- MCSetups
    MaxRecurLimit = 40
    NoPlan = NoPlan
INVARIANT
    TypeOK
    BothSidesHeard
    FinalUsesEveryReport
    CallerAgrees
    JudgeHearsEnough
PROPERTY
    WorkflowEnds
\* a run that is over stops
CHECK_DEADLOCK FALSE
