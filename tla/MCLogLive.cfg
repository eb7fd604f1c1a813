SPECIFICATION FairSpec
CONSTANTS
  Proc = {p1, p2}
  NHome = 5
  Value = {0}
  Zero = 0
  MAXOPBLOCKS = 2
  LOGSIZE = 5
  NLOG = 5
  OPBLOCKS = 1
  MaxCrashes = 1
INVARIANTS NoPanic LogFits
PROPERTIES BeginOpWakes CallReturns
