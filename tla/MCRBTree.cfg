SPECIFICATION Spec
CONSTANTS
  Entry <- MCEntry
  NULL = NULL
  Freed = Freed
PROPERTY SuccessorReturns
CHECK_DEADLOCK FALSE
