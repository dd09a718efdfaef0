SPECIFICATION Spec
CONSTANTS
  parent = parent
  child = child
  third = third
  mon1 = mon1
  mon2 = mon2
  om = om
  Task = {parent, child, third}
  Monitors = {mon1, mon2}
  ObjectManager = om
  None = None
  Parent <- ParentOf
  Creator <- CreatorOf
  ScavengerDeletes = FALSE
INVARIANTS NoTaskLost
CHECK_DEADLOCK FALSE
