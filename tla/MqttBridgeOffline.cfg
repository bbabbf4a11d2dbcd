\* One connection is enough for the retained state to outlive the bridge.
SPECIFICATION Spec
CONSTANTS
  Points <- MCPoints
  Commandable <- MCCommandable
  MaxChanges = 1
  MaxSets = 0
  MaxSessions = 1
INVARIANT OfflineWhenStopped
CHECK_DEADLOCK FALSE
