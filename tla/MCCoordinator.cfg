CONSTANTS
    MaxTries = 3
    MaxFlips = 4
SPECIFICATION Spec
INVARIANT TypeOK
INVARIANT RunningMatchesStatus
PROPERTY FailoverEventually
PROPERTY YieldEventually
CHECK_DEADLOCK FALSE
