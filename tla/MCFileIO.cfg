SPECIFICATION Spec
CONSTANTS
  Proc = {p1, p2}
  None = None
  Char = {c}
  NL = NL
  EOF = EOF
  INPUT_BUF = 2
  Width = 4
  MaxN = 2
  File = {f1, f2}
  Modes <- OneOfEach
  CHUNK = 1
  PGSIZE = 1
  MAXFILE = 2
  MaxOff = 2
SYMMETRY Perms
INVARIANTS RingOrder ReaderAwake OffsetInFile
PROPERTIES IsLineDiscipline SharedOffset AppendKeeps
