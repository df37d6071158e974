SPECIFICATION Spec
CONSTANTS
  t1 = t1
  t2 = t2
  Threads <- One
  Lengths = {1, 3}
  Section = 3
  MaxLen = 4
  Faults = FALSE
  MaxCells = 6
  MaxMade = 2
  MaxHeld = 2
  MaxDepth = 2
  MaxPuts = 2
INVARIANTS
  OpenTxnsUsable
CHECK_DEADLOCK FALSE
