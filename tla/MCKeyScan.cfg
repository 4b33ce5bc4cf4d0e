SPECIFICATION Spec
CONSTANTS
  Keys <- MCKeys
  P1Values <- MCP1Values
  RegValues <- MCRegValues
INVARIANTS
  TypeOK
  ScanConsistent
  LinesFollowTable
