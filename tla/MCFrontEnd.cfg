SPECIFICATION Spec
CONSTANTS
  Sources <- MCSources
  Repeated <- MCRepeated
INVARIANT PassedUsesAreVisible
INVARIANT PassedUsesAreInnermost
INVARIANT PassedCallsAreResolved
INVARIANT PassedIsWellTyped
INVARIANT CrashesAreKnown
CHECK_DEADLOCK FALSE
