SPECIFICATION DevicesSpec
CONSTANTS
  BANK_SIZE = 2
  SVBKValues <- MCSVBKValues
  PhysAddrs <- MCPhysAddrs
  Bytes <- MCBytes
  Blank <- MCBlank
  d1 = d1
  d2 = d2
  b1 = b1
  b2 = b2
  b3 = b3
  Null = Null
  Absent = Absent
  Hollow = Hollow
  Devices <- MCDevices
  Blocks <- MCBlocks
  VBKValues <- MCVBKValues
  VRAM_BANK_SIZE = 2
  AllocMayFail = TRUE
INVARIANT TypeOK
PROPERTIES ImplementsBanked ImplementsDevices
SYMMETRY Interchangeable
