SPECIFICATION Spec
CONSTANTS
  p1 = p1
  p2 = p2
  t1 = t1
  t2 = t2
  t3 = t3
  Procs <- TwoProcs
  Threads <- TwoThreads
  ProcOf <- TwoProcOf
  Index <- MCIndex
  Span = 2
  Modes = {"write"}
  MaxHolds = 3
  Section = 4
  MaxWalk = 2
  Sizes = {1}
  InitCount = 0
  InitLen <- NoLen
  Faults = FALSE
  IndexRange = 16
  MaxCount = 3
  MaxCommits = 2
  MaxCrashes = 0
INVARIANTS
  CommittedIntact
CHECK_DEADLOCK FALSE
