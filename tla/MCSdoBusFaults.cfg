SPECIFICATION FairSpec
CONSTANTS
    NodeId = 16
    N = 8
    ClientTimeout = 1
    ServerTimeout = 3
    Scenarios <- Faults
    Objects <- MCObjects
    Readable <- MCObjects
    Writable <- MCObjects
    ValuesOf <- MCValuesOf
    Calls <- MCCalls
INVARIANTS UploadsAreFresh DownloadsAreWritten RetriesMaskLoss
PROPERTIES CallsReturn DownloadsGetWritten ServerRecovers
\* The applications may make no further calls.
CHECK_DEADLOCK FALSE
