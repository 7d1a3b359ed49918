SPECIFICATION FairSpec
CONSTANTS
  Sources <- AnyTree
  MaxRuns = 2
INVARIANT RoundTrip
PROPERTY ReadableIsRead
CHECK_DEADLOCK FALSE
