SPECIFICATION Spec
CONSTANTS
  k1 = k1
  k2 = k2
  Txns <- Two
  NoSyncs = {TRUE, FALSE}
  Faults = TRUE
  MaxLogs = 2
  MaxCrashes = 2
SYMMETRY Alike
INVARIANTS
  DurabilityTypeOK
  NothingTorn
  SyncedLogKeeps
PROPERTIES
  OnlyPowerLoses
CHECK_DEADLOCK FALSE
