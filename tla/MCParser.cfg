SPECIFICATION FairSpec
CONSTANTS
  Tokens <- Token
  MaxTokens = 11
INVARIANT DepthBounded
INVARIANT CrashesAreAnnounced
PROPERTY Terminates
CHECK_DEADLOCK FALSE
