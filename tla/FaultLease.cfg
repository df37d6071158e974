SPECIFICATION Spec
CONSTANTS
  p1 = p1
  p2 = p2
  t1 = t1
  t2 = t2
  t3 = t3
  Procs <- TwoProcs
  Threads <- ThreeThreads
  ProcOf <- ThreeProcOf
  Index <- MCIndex
  Span = 2
  Modes = {"write"}
  MaxHolds = 3
  Section = 5
  MaxWalk = 2
  Sizes = {2}
  InitCount = 0
  InitLen <- NoLen
  Faults = TRUE
  IndexRange = 16
  MaxCount = 2
  MaxCommits = 1
  MaxCrashes = 0
SYMMETRY Alike
INVARIANTS
  LeaseTypeOK
  LeaseInBounds
  CellInBounds
  NoHoles
  IntactUnlessTainted
  CellsCountOwners
  WriteInKernel
CHECK_DEADLOCK FALSE
