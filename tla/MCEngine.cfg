SPECIFICATION EngineSpec
CONSTANTS
    a = a
    b = b
    Clients <- MCClients
    Hash <- MCHash
    ID <- MCID
    WorkerCount = 2
    QueueSize = 1
    Batches <- MCBatches
    LimitedKinds <- MCLimitedKinds
    MaxAccepted = 2
    MaxTicks = 1
    MaxMessages = 1
    MaxLosses <- MCLosses
INVARIANTS EngineIInv CrashOnlyWhileStopping DisconnectAlone StopDrains EveryClientPooled EveryClientDisconnected
PROPERTIES PoolSpec LinksSpec
