SPECIFICATION Spec
CONSTANTS
  Proc = {p1, p2}
  None = None
  a = a
  b = b
  Name = {a, b}
  Paths <- MCPaths
  NI = 3
  Images <- MCImages
  NFILE = 2
  NOFILE = 2
  MAX_DEPTH = 3
  Links = TRUE
  MaxLost = 3
  MaxCalls = 3
  MaxCrashes = 1
SYMMETRY Perms
INVARIANTS RefExact FileRefExact NoPanic NamesCovered DiskNamed CacheCoherent
CHECK_DEADLOCK FALSE
