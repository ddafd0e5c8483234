SPECIFICATION FairSpec
CONSTANTS
    acs = acs
    id1 = id1
    id2 = id2
    id3 = id3
    NoID = NoID
    Requests <- MCRequests
    MaxInbox = 2
    MaxLosses = 2
INVARIANTS IInv AnsweredOnce StaysClosed
PROPERTIES LinkSpec DisconnectEnds RequestsSettled
