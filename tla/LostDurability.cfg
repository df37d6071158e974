SPECIFICATION Spec
CONSTANTS
  k1 = k1
  k2 = k2
  Txns <- Two
  NoSyncs = {FALSE}
  Faults = FALSE
  MaxLogs = 2
  MaxCrashes = 1
SYMMETRY Alike
INVARIANT
  AckedSurvive
CHECK_DEADLOCK FALSE
