SPECIFICATION Spec
CONSTANTS
  MaxChanges = 2
  MaxRestores = 2
INVARIANTS
  DataFitsTogether
PROPERTIES
  SafetyHolds
