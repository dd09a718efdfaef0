SPECIFICATION Spec
CONSTANTS
  a = a
  b = b
  Id = {a, b}
  Val = {v}
  Blank = Blank
  None = None
  MaxVersion = 2
  TrackerSize = 3
  MaxLock = 2
CONSTRAINTS OneHalfWritten OneKept
INVARIANTS OneVersion TrackerComplete
PROPERTIES Atomic RepairEnds
