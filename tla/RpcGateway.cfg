\* Three commands over two connections: one answered, one lost, one queued.  The task is
\* fair; links drop at will.
SPECIFICATION FairSpec
CONSTANTS
  MaxMessages = 3
  MaxSessions = 2
INVARIANTS TypeOK AcksInOrder AcksTruthful ServedInItsSession UnackedOnlyIfSessionOver
PROPERTIES LedgerSpec TaskSteps EveryCommandAnswered
CHECK_DEADLOCK FALSE
