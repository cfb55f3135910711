SPECIFICATION Spec
CONSTANTS
  ScriptNames = {a}
  NoName = NoName
  MaxEdits = 0
INVARIANTS
  CredentialIsRestored
