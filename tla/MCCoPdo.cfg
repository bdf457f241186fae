SPECIFICATION MCSpec
CONSTANTS
  TimerLimit = 5
  MaxMapped = 2
  MaxAge = 4
  Objects <- MCObjects
  Pairs <- MCPairs
  MinDelay = 1
  FirstDelay = 1
  MaxDataAge = 11
  Scenarios <- MCScenarios
INVARIANTS MappingIsSound SafetyDataIsSound
PROPERTIES RpdoFollowsSync TpdoWhenDue
CHECK_DEADLOCK FALSE
