SPECIFICATION Spec
CONSTANTS
    NodeId = 16
    Timeout = 2
    N = 8
    MaxNow = 3
    Objects <- MCObjects
    Readable <- MCReadable
    Writable <- MCWritable
    Honest <- MCHonest
    Values <- MCValues
    Requests <- MCRequests
INVARIANTS TypeOK TimerMatchesTransfer TransferInBounds
PROPERTIES WritesAreWholeTransfers
