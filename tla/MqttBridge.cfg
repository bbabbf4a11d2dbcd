\* Two messages, two changes of each point, two connections.  Both tasks are fair; links
\* drop and the poll task fails at will.
SPECIFICATION FairSpec
CONSTANTS
  Points <- MCPoints
  Commandable <- MCCommandable
  MaxChanges = 2
  MaxSets = 2
  MaxSessions = 2
INVARIANT TypeOK
PROPERTIES StatesNeverGoBack NoSetDropped TaskSpec CurrentStateShown
CHECK_DEADLOCK FALSE
