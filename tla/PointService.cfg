\* An HTTP thread, the bridge and the gateway: every overlap of up to three calls.
SPECIFICATION Spec
CONSTANTS
  Workers = {w1}
  Coroutines = {bridge, gateway}
  Names <- MCNames
  Points <- MCPoints
  Kind <- MCKind
  CommandableNames <- MCCommandableNames
  Arrayed <- MCArrayed
  Requests <- MCRequests
  Commands <- MCCommands
  Priorities <- MCPriorities
  NaN = NaN
  Null = Null
  MaxCalls = 3
INVARIANTS TypeOK PriorityGoverns ReportsWitnessed EveryNameHandled
PROPERTIES NoStaleStore StoreSpec
