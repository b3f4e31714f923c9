SPECIFICATION Spec
CONSTANTS
    Setups <- MCSetups
    MaxRecurLimit = 100
    NoPlan = NoPlan
INVARIANT
    RiskVoicesHeard
\* a run that is over stops
CHECK_DEADLOCK FALSE
