SPECIFICATION Spec
CONSTANT Width = 7
INVARIANTS
  OperatorsMatch
  LsbMatches
