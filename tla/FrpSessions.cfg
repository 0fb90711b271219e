SPECIFICATION FairSpec
CONSTANTS
  MaxSessions = 2
INVARIANTS ServedIsCurrent
PROPERTIES LeftSessionsEnd ClientStops ServedAgain
CHECK_DEADLOCK FALSE
