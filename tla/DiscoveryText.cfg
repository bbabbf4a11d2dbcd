\* A value that has no priority array.
SPECIFICATION Spec
CONSTANTS
  Objects <- MCObjects
  DeviceObject = "device"
  Known <- MCKnown
  MayCommand <- MCMayCommand
  Arrayed <- MCArrayed
  Lists <- MCLists
  Requests <- MCRequests
  Priorities <- MCPriorities
  ChunkSize = 2
  CheckChunkSize = 2
  MaxChanges = 0
INVARIANT CommandableHasArray
CHECK_DEADLOCK FALSE
