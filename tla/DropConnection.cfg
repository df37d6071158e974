SPECIFICATION FairSpec
CONSTANTS
  p1 = p1
  p2 = p2
  p3 = p3
  Procs <- Three
  OpenFlags <- Mixed
  AtomicConversion = FALSE
  Faults = FALSE
  MaxOpens = 3
  MaxLogs = 3
  MaxCommits = 1
  MaxCrashes = 1
INVARIANTS
  NoSyncAlone
PROPERTIES
  LogStays
  OpenReturns
CHECK_DEADLOCK FALSE
