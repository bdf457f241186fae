SPECIFICATION FairSpec
CONSTANTS
    NodeId = 16
    N = 8
    ClientTimeout = 1
    ServerTimeout = 3
    Scenarios <- OneLoss
    Objects <- MCObjects
    Readable <- MCObjects
    Writable <- MCObjects
    ValuesOf <- MCValuesOf
    Calls <- MCSimilarCalls
PROPERTIES AbortsAreSent
\* The applications may make no further calls.
CHECK_DEADLOCK FALSE
