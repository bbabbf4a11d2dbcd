\* Three candidates in chunks of two, so that the last chunk is a partial one.
SPECIFICATION Spec
CONSTANTS
  Objects <- MCObjects
  DeviceObject = "device"
  Known <- MCKnown
  MayCommand <- MCMayCommand
  Arrayed <- MCArrayed
  Lists <- MCLists
  Requests <- MCRequests
  Priorities <- MCPriorities
  ChunkSize = 2
  CheckChunkSize = 2
  MaxChanges = 3
INVARIANTS TypeOK AnswersMatch OverridesWitnessed SteadyOverridesReported
CHECK_DEADLOCK FALSE
