SPECIFICATION Spec
CONSTANTS
  c1 = c1
  c2 = c2
  v1 = v1
  v2 = v2
  b1 = b1
  b2 = b2
  b3 = b3
  Callers = {c1, c2}
  Versions = {v1, v2}
  Backups = {b1, b2, b3}
  NoCaller = NoCaller
  NoBackup = NoBackup
  NoVersion = NoVersion
  Managed = TRUE
  MaxCalls = 2
  MaxFaults = 2
  MaxCrashes = 1
SYMMETRY Symmetry
CHECK_DEADLOCK FALSE
INVARIANTS
  Consistent
  VersionsSurvive
  FailureKeepsAVersion
  AnswerIsTrue
