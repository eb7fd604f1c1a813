SPECIFICATION Spec
CONSTANTS
  Proc = {p1, p2}
  None = None
  Byte = {0, 1}
  PIPESIZE = 2
  Width = 4
  MaxN = 2
  Kills = TRUE
SYMMETRY Perms
INVARIANTS NoUseAfterFree
PROPERTIES IsByteStream
