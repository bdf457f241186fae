SPECIFICATION MCSpec
CONSTANTS
  fifoSize = 3
  Times = {1, 2}
  MaxAge = 5
  LssScenarios <- MCLss
  Scenarios <- MCScenarios
INVARIANTS HeartbeatsAreTimely DeadPeersAreNoticed EmergenciesTellTheErrors HistoryIsTrue NodeIdsAreAssigned
CHECK_DEADLOCK FALSE
