SPECIFICATION FairSpec
CONSTANTS
    t = t
    Topics <- MCTopics
    Ops <- MCOps
    OnConnectOps <- MCOnConnectOps
    MaxInbox = 3
    MaxLosses = 2
    MaxOps = 2
INVARIANTS IInv ListedOnce NothingStale NothingForgotten NoDoubleClose
PROPERTIES LinkSpec LoopsEnd
