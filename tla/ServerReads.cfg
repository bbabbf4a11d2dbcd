\* An HTTP thread and the gateway share three points and a schedule.
SPECIFICATION Spec
CONSTANTS
  Workers = {w1}
  Coroutines = {gateway}
  Points = {oat, damper, valve}
  CommandableNames = {damper, valve, device}
  Commandable = {damper, valve}
  Schedules = {occ}
  Values <- MCValues
  None = None
  Foreign = Foreign
  MaxCalls = 3
INVARIANTS TypeOK LoopSnapshotConsistent ReadsForward PresentFollowsDefault
