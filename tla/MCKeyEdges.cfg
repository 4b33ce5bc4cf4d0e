SPECIFICATION EdgesSpec
CONSTANTS
  Keys <- MCKeys
  P1Values <- MCP1Values
  RegValues <- MCRegValues
  OtherDevices <- MCOtherDevices
  MaxPresses = 3
INVARIANTS
  TypeOK
  NoExtraService
  PolledStillPending
PROPERTIES WinnerIsServed NoSpuriousRequest HeldPressIsRequested
