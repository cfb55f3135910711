SPECIFICATION FairSpec
CONSTANTS
  Pipes = {1, 2}
  NoPipe = 0
  Crons <- MCCrons
  MaxTime = 2
  MaxActive = 1
  MaxEdits = 1
  MaxCrashes = 1
PROPERTIES
  OncePerSlot
  DueIsServed
