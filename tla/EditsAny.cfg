SPECIFICATION Spec
CONSTANTS
  Requests = {q1, q2}
  NoRequest = NoRequest
  Names = {b1}
  MaxPipes = 2
  MaxBirths = 2
  MaxRuns = 1
  MaxTokens = 2
  MaxEdits = 4
SYMMETRY Symmetry
INVARIANTS
  NoStepTwice
  RunsBelong
  PushesAreUnderstood
PROPERTIES
  LoopEditsLoseNothing
  DeadTokensStayDead
CHECK_DEADLOCK FALSE
