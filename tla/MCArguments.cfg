SPECIFICATION Spec
CONSTANTS
  Sources <- UsesOnly
  Repeated <- None
INVARIANT ArgumentsMatch
CHECK_DEADLOCK FALSE
