SPECIFICATION Spec
CONSTANTS
  CPU = {c1, c2}
  NPROC = 4
  NPAGE = 4
  Threads = FALSE
  ThreadsCall = {}
  MaxCreate = 4
  MaxKills = 1
SYMMETRY Perms
INVARIANTS StackExclusive PagesConserved NoOrphan NoLostWakeup
CHECK_DEADLOCK FALSE
