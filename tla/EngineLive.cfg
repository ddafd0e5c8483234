SPECIFICATION EngineFairSpec
CONSTANTS
    a = a
    b = b
    Clients <- LiveClients
    Hash <- LiveHash
    ID <- LiveID
    WorkerCount = 2
    QueueSize = 1
    Batches <- LiveBatches
    LimitedKinds <- MCLimitedKinds
    MaxAccepted = 2
    MaxTicks = 1
    MaxMessages = 1
    MaxLosses <- LiveLosses
PROPERTIES StopEnds
