\* Three instance numbers (0..2) per kind and three rows: enough for a collision,
\* an exhausted counter and a name that comes back.
SPECIFICATION Spec
CONSTANTS
  Names <- MCNames
  BlankName = ""
  DeviceName = "device"
  RowTypes <- MCRowTypes
  MaxInstance = 2
  MaxRows = 3
  NoObject = NoObject
INVARIANTS TypeOK TablesAgree OutputsProtected
PROPERTY RegistrySpec
CHECK_DEADLOCK FALSE
