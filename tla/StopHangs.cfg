SPECIFICATION FairSpec
CONSTANTS
    t = t
    Topics <- MCTopics
    Ops <- MCOps
    OnConnectOps <- MCOnConnectOps
    MaxInbox = 3
    MaxLosses = 1
    MaxOps = 1
PROPERTIES StopDisconnectsClient
