SPECIFICATION ParseSpec
CONSTANTS
  Graphs <- Both
  MAX_DEPTH = 3
  None = None
INVARIANTS
  ParseInv
  DependenciesPrecede
  CompleteIffWellFounded
  SameAsOperator
  AcceptsShallowDags
  ReportsACycle
CHECK_DEADLOCK FALSE
