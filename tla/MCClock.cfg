SPECIFICATION ClockSpec
CONSTANTS
  cpu = cpu
  ppu = ppu
  Devices <- MCDevices
  Prices <- MCPrices
  Steps <- MCSteps
  InitVals <- MCInitVals
  MaxDebt = 6
  MaxTime = 12
CHECK_DEADLOCK FALSE
INVARIANTS
  TypeOK
  NeverAhead
  ReadyWhenPaidOff
