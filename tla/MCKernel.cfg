SPECIFICATION FairSpec
CONSTANTS
  MaxThreads = 3
  MaxNodes = 2
  SleepTimes <- MCSleepTimes
INVARIANT TypeOK
INVARIANT CurrentIsFront
INVARIANT NeverOutOfThreads
PROPERTY RunToCompletion
PROPERTY RunReturns
CHECK_DEADLOCK FALSE
