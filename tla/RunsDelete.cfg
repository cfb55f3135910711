SPECIFICATION Spec
CONSTANTS
  Workers = {w1, w2}
  Requests = {q1, q2}
  NoWorker = NoWorker
  MaxRuns = 1
  MaxPipes = 1
  StepCounts = {1}
  MaxCrashes = 0
  MaxDbErrors = 1
SYMMETRY Symmetry
INVARIANTS
  Serialised
  LockHeldInside
  EventsAreLive
