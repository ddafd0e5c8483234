SPECIFICATION EngineSpec
CONSTANTS
    a = a
    b = b
    Clients <- MCClients
    Hash <- StaticHash
    ID <- StaticID
    WorkerCount = 2
    QueueSize = 1
    Batches <- MCBatches
    LimitedKinds <- MCLimitedKinds
    MaxAccepted = 2
    MaxTicks = 1
    MaxMessages = 1
    MaxLosses <- MCLosses
INVARIANTS EveryClientDisconnected
