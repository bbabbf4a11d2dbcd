SPECIFICATION FairSpec
CONSTANTS
  MaxMessages = 1
  MaxSessions = 1
PROPERTY CancelStopsTask
CHECK_DEADLOCK FALSE
