CONSTANTS
    a1 = a1
    a2 = a2
    b1 = b1
    n1 = n1
    n2 = n2
    NoConfig = NoConfig
    NoService = NoService
    VIP4 <- MCVIP4
    VIP6 <- MCVIP6
    NodeLists <- MCNodeLists
    InitNodes = n1
    Configs <- MCConfigs
    TicksAwaitConfig = FALSE
    MaxUpdates = 2
    MaxFailures = 2
    MaxDrift = 1
    StopCalled = TRUE
    ParentCancels <- MCCancelAnytime
SPECIFICATION Spec
PROPERTY ReconcileEstablishesParity RefinesKernelReconciler
CHECK_DEADLOCK FALSE
