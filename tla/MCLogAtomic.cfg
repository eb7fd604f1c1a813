SPECIFICATION Spec
CONSTANTS
  Proc = {p1, p2}
  NHome = 2
  Value = {0, 1}
  Zero = 0
  MAXOPBLOCKS = 4
  LOGSIZE = 8
  NLOG = 8
  OPBLOCKS = 2
  MaxCrashes = 2
SYMMETRY Perms
INVARIANTS TypeOK CommitDurable
PROPERTY CrashAtomic
