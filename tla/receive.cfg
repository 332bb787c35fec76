CONSTANTS
  Units <- Messages
  MaxUnits = 3
  MaxRecvBuf = 6
  SizeMod = 16
SPECIFICATION Spec
INVARIANTS
  TypeOK
  FramingExact
  ClosedOnlyOnOverflow
