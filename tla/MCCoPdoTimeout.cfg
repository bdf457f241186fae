SPECIFICATION PdoSpec
CONSTANTS
  TimerLimit = 8
  MaxMapped = 2
  MaxAge = 6
  Objects <- MCObjects
  Pairs <- MCPairs
  MinDelay = 1
  FirstDelay = 1
  MaxDataAge = 11
  Scenarios <- MCQuiet
INVARIANT TimeoutIsReported
CHECK_DEADLOCK FALSE
