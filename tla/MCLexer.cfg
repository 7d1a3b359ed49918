SPECIFICATION FairSpec
CONSTANTS
  Chars <- AnyChar
  MaxChars = 5
  MaxDigits = 2
PROPERTY ImplementsTokens
PROPERTY LinesCounted
PROPERTY AllRead
CHECK_DEADLOCK FALSE
