SPECIFICATION Spec
CONSTANTS
  p1 = p1
  p2 = p2
  p3 = p3
  Procs <- Three
  OpenFlags <- Mixed
  AtomicConversion = TRUE
  Faults = TRUE
  MaxOpens = 4
  MaxLogs = 3
  MaxCommits = 2
  MaxCrashes = 1
SYMMETRY Alike
INVARIANTS
  ConnectionTypeOK
  SharedLog
  Recoverable
  TrailerGuarded
  NoSyncAlone
PROPERTIES
  LogStays
  ImplementsStore
CHECK_DEADLOCK FALSE
