SPECIFICATION Spec
CONSTANTS
  Procs = {sh, k1, k2}
  Leader = sh
  OutputMayFail = TRUE
INVARIANTS
  KillIsExplained
  ShellIsReaped
PROPERTIES
  CancelStopsShell
  GroupDies
CHECK_DEADLOCK FALSE
