SPECIFICATION FairSpec
CONSTANTS
    a = a
    b = b
    c = c
    Clients <- MCClients
    Hash <- MCHash
    WorkerCount = 2
    QueueSize = 2
    Batches <- MCBatches
    LimitedKinds <- MCLimitedKinds
    MaxAccepted = 3
INVARIANTS IInv SequentialPerClient ServedInOrder DrainedOnExit ActionsAccounted
PROPERTIES MailboxSpec Served
