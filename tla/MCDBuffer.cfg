SPECIFICATION Spec
CONSTANTS
  o1 = o1
  o2 = o2
  o3 = o3
  b1 = b1
  b2 = b2
  b3 = b3
  b4 = b4
  Null = Null
  Objs <- MCObjs
  Blocks <- MCBlocks
  Bytes <- MCBytes
  MaxLen = 2
  AllocMayFail = TRUE
INVARIANTS
  TypeOK
  OneOwner
  AllocatedIffOwned
  BlockHoldsLength
PROPERTY ImplementsValues
