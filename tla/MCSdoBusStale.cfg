SPECIFICATION Spec
CONSTANTS
    NodeId = 16
    N = 8
    ClientTimeout = 1
    ServerTimeout = 3
    Scenarios <- Disorder
    Objects <- MCObjects
    Readable <- MCObjects
    Writable <- MCObjects
    ValuesOf <- MCValuesOf
    Calls <- MCSimilarCalls
INVARIANTS ObjectsAreWhole UploadsAreWhole
\* The applications may make no further calls.
CHECK_DEADLOCK FALSE
