SPECIFICATION Spec
CONSTANTS
  None = None
  idle = idle
  p = p
  c = c
  pMem = pMem
  m = m
  mTask = mTask
  mMsg = mMsg
  e = e
  Obj = {idle, p, c, pMem, m, mTask, mMsg, e}
  Kind <- KindOf
  Parts <- PartsOf
  System = {idle}
  KeptOwners = {idle}
  TableSize = 2
  Hash <- HashOf
INVARIANTS WalkInChain OrphansAhead HeirsAlive
PROPERTIES IsSet
