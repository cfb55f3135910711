SPECIFICATION Spec
CONSTANTS
  ScriptNames = {a, b}
  NoName = NoName
  MaxEdits = 2
SYMMETRY Symmetry
INVARIANTS
  ItemsStayWhole
  RoundTrip
  StepsKeepTheirScript
PROPERTIES
  CredentialsSurvive
