SPECIFICATION Spec
CONSTANTS
  BYTES_PER_PAGE = 10
  INT_SIZE = 2
  BYTE = 4
  Sizes <- MCSizes
INVARIANT BlocksApart
INVARIANT LiveBlocksValid
INVARIANT FreedBlocksInvalid
CHECK_DEADLOCK FALSE
