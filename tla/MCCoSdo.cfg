SPECIFICATION MCSpec
CONSTANTS
    Entries <- MCEntries
    InitialOd <- MCInitialOd
    BUFFER_SIZE = 25
    MAX_BLKSIZE = 2
    SDOtimeoutTime = 2
    block_SDOtimeoutTime = 1
    Clients <- MCClients
    Patience = 6
    Histories <- MCHistories
INVARIANTS
    BufferInBounds
    RecoversInTime
    BytesAreAccounted
    ClientBytesAreAccounted
    DoneIsComplete
    EndsInTime
PROPERTIES
    SegmentedWritesAreWhole
CHECK_DEADLOCK FALSE
