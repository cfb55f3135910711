SPECIFICATION FairSpec
CONSTANTS
  MaxSteps = 2
  MaxText = 3
  MaxCrashes = 1
  MaxRuns = 1
INVARIANTS
  PageEndsComplete
  SuccessAwaitsCommands
  KeysAreCleared
PROPERTIES
  RerunRepeats
  ImplementsStream
  PollingEnds
CHECK_DEADLOCK FALSE
