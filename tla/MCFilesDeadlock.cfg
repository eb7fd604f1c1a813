SPECIFICATION Spec
CONSTANTS
  Proc = {p1, p2}
  None = None
  a = a
  b = b
  Name = {a, b}
  Paths <- MCPaths
  NI = 3
  Images <- MCImages
  NFILE = 1
  NOFILE = 1
  MAX_DEPTH = 3
  Links = FALSE
  MaxLost = 0
  MaxCalls = 2
  MaxCrashes = 0
INVARIANTS NoDeadlock
CHECK_DEADLOCK FALSE
