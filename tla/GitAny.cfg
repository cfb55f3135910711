SPECIFICATION Spec
CONSTANTS
  Actors = {a1, a2, a3}
  NoActor = NoActor
  Pipelines = {p1, p2}
  NoPipe = NoPipe
  Repos = {r1}
  NoRepo = NoRepo
  MaxCrashes = 1
  MaxOrphans = 1
SYMMETRY Symmetry
INVARIANTS
  BuildsOwnPull
  CredentialIsExplained
  RowMatchesCheckout
