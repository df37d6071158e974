SPECIFICATION FairSpec
CONSTANTS
  p1 = p1
  p2 = p2
  t1 = t1
  t2 = t2
  t3 = t3
  Head = Head
  Null = Null
  Procs <- MCProcs
  Threads <- MCThreads
  ProcOf <- MCProcOf
  Index <- MCIndex
  Span = 1
  Modes = {"write"}
  MaxHolds = 1
PROPERTIES
  CallsReturn
