CONSTANTS
    a1 = a1
    a2 = a2
    b1 = b1
    n1 = n1
    n2 = n2
    NoConfig = NoConfig
    NoService = NoService
    VIP4 <- MCVIP4
    VIP6 <- MCVIP6
    NodeLists <- MCNodeLists
    InitNodes = n1
    Configs <- MCConfigs
    TicksAwaitConfig = TRUE
    MaxUpdates = 1
    MaxFailures = 0
    MaxDrift = 0
    StopCalled = TRUE
    ParentCancels <- MCCancelNever
SPECIFICATION Spec
PROPERTY CleanupIsFinal
CHECK_DEADLOCK FALSE
