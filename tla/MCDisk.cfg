SPECIFICATION Spec
CONSTANTS
  a1 = a1
  a2 = a2
  b0 = b0
  Proc = {a1, a2, b0}
  Lock = {b1, b2}
  w = w
  Block = {x, y, z, w}
  Value = {v1, v2}
  Other = {a1, a2, b0, intr}
  Intr = intr
  None = None
  process <- TwoAndOne
  Nested <- BeforeW
SYMMETRY Perms
INVARIANTS SleepLockExclusive LockWakesUp OneCopy RefExact PanicsWhenFull QueueExact
PROPERTIES IsBlockDevice
