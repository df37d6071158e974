SPECIFICATION FairSpec
CONSTANTS
  p1 = p1
  p2 = p2
  t1 = t1
  t2 = t2
  t3 = t3
  Procs <- TwoProcs
  Threads <- TwoThreads
  ProcOf <- TwoProcOf
  Index <- MCIndex
  Span = 2
  Modes = {"write"}
  MaxHolds = 3
  Section = 6
  MaxWalk = 2
  Sizes = {2}
  InitCount = 1
  InitLen <- OneLen
  Faults = FALSE
  IndexRange = 16
  MaxCount = 4
  MaxCommits = 2
  MaxCrashes = 1
INVARIANTS
  NoHoles
  IntactUnlessTainted
  WriterExclusion
PROPERTIES
  AcquireReturnsUnlessForgotten
CHECK_DEADLOCK FALSE
