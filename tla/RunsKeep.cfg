SPECIFICATION FairKeepSpec
CONSTANTS
  Workers = {w1, w2}
  Requests = {q1}
  NoWorker = NoWorker
  MaxRuns = 2
  MaxPipes = 1
  StepCounts = {1}
  MaxCrashes = 1
  MaxDbErrors = 0
INVARIANTS
  TypeOK
  WorkerIsReachable
  ActiveRunIsOwned
  OneRunningRow
PROPERTIES
  ImplementsBoard
  QueuedRunEnds
  CancelQueuedWins
