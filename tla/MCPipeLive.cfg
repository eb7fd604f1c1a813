SPECIFICATION FairSpec
CONSTANTS
  Proc = {p1, p2}
  None = None
  Byte = {0}
  PIPESIZE = 1
  Width = 2
  MaxN = 2
  Kills = FALSE
INVARIANTS NoLostWakeup
PROPERTIES CallReturns
CHECK_DEADLOCK FALSE
