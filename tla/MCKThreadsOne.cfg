SPECIFICATION FairSpec
CONSTANTS
  CPU = {c1}
  NPROC = 3
  NPAGE = 3
  Threads = TRUE
  ThreadsCall = {"fork"}
  MaxCreate = 3
  MaxKills = 0
INVARIANTS NoSchedPanic ThreadCountExact UniqueTids
PROPERTIES OnlyThreadsOrphan JoinReturns ZombieReaped
CHECK_DEADLOCK FALSE
