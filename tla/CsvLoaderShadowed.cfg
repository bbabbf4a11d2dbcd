SPECIFICATION Spec
CONSTANTS
  Names <- MCNames
  BlankName = ""
  DeviceName = "device"
  RowTypes <- MCTwoTypes
  MaxInstance = 2
  MaxRows = 3
  NoObject = NoObject
INVARIANT ServerOwnedUpdatable
CHECK_DEADLOCK FALSE
