SPECIFICATION Spec
CONSTANTS
  HistoryLen = 5
  HistoryPage = 2
  MaxQueries = 4
  Pages = {"tunnel", "route_input"}
  Touched = {"a", "input", "created"}
  MaxVisits = 2
  MaxActions = 3
  MaxAttempts = 3
INVARIANTS TypeOK SettledIsCurrent WaitsHaveRequests HistoryConsistent MTRReleased
PROPERTY LeftPagesSilent
CHECK_DEADLOCK FALSE
