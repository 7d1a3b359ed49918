SPECIFICATION Spec
CONSTANTS
  NIB = 4
  STACK_START = 204
  STACK_END = 214
  FlagBits <- MCFlagBits
  UNSIGNED_CARRY_FLAG = 0
  ZERO_FLAG = 1
  SIGNED_OVERFLOW_FLAG = 2
  NEGATIVE_FLAG = 3
  BitAnd <- MCBitAnd
  BitOr <- MCBitOr
  BitXor <- MCBitXor
  BitNot <- MCBitNot
  InitialMemories <- MCMemories
  Junk <- MCJunk
  INT_BITS = 16
  mOps <- ArithmeticOps
  Conditions <- UnsignedConditions
  Programs <- ArithmeticPrograms
  ROMs <- NoPrograms
  MaxCalls = 1
INVARIANT BranchFollowsComparison
PROPERTY CarryMeansInexact
CHECK_DEADLOCK FALSE
