SPECIFICATION Spec
CONSTANTS
  a = a
  b = b
  Id = {a}
  Val = {v}
  Blank = Blank
  None = None
  MaxVersion = 3
  TrackerSize = 2
  MaxLock = 2
PROPERTY AtomicForAll
