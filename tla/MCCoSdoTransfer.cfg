SPECIFICATION Spec
CONSTANTS
    Entries <- MCEntries
    InitialOd <- MCInitialOd
    BUFFER_SIZE = 25
    MAX_BLKSIZE = 3
    SDOtimeoutTime = 2
    block_SDOtimeoutTime = 1
    CLI_BUFFER_SIZE = 22
    CLI_MAX_BLKSIZE = 3
    CLI_PST = 6
    CliTimeoutTime = 2
    CliBlockTimeoutTime = 1
    Chunk = 24
    MaxFaults = 1
    COMM_BUF_SIZE = 24
    RESP_BUF_SIZE = 12
    BLOCK_DL_LOOP = 3
    STATE_TIMEOUT_TIME = 1
    Plans <- MCPlans
INVARIANTS
    SuccessIsTrue
    Unhindered
    LostSegmentsAreRepaired
CHECK_DEADLOCK FALSE
