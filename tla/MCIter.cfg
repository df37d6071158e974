SPECIFICATION FairSpec
CONSTANTS
  t1 = t1
  t2 = t2
  Threads <- Two
  Records <- Kinds
  InitLogs <- Logs
  Section = 9
  Wrap = 36
  Hdr = 2
  PreferWriters = TRUE
  Faults = TRUE
  MaxSections = 3
  MaxWrites = 1
  MaxIters = 1
INVARIANTS
  IterTypeOK
  RecordsUnlessSlipped
  EndMeansAll
  LeaseKeepsOpen
  LayoutSound
PROPERTIES
  InOrder
  RecordsKept
  CloseReturnsUnlessNested
CHECK_DEADLOCK FALSE
