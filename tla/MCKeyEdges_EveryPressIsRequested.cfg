SPECIFICATION EdgesSpec
CONSTANTS
  Keys <- MCKeys
  P1Values <- MCP1Values
  RegValues <- MCRegValues
  OtherDevices <- MCOtherDevices
  MaxPresses = 3
PROPERTY EveryPressIsRequested
