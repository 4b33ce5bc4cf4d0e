SPECIFICATION Spec
CONSTANTS
  Categories <- MCCategories
  LegacyCategories <- MCLegacyCategories
  DefaultFilters <- MCDefaultFilters
  CSuppressed <- MCCSuppressed
  KernelSuppressed <- MCKernelSuppressed
  Beginnings <- MCBeginnings
  TopLevel <- MCTopLevel
  CommandLines <- MCCommandLines
  Trees <- MCTrees
  MaxFiles = 2
INVARIANT ConfigScope
CHECK_DEADLOCK FALSE
