CONSTANTS
  user = user
  kernel1 = kernel1
  kernel2 = kernel2
  Task = {user, kernel1, kernel2}
  IdleTask = IdleTask
  NoTask = NoTask
  TopPriority = 3
  fPriority <- TwoLevels
  MaxHold = 2
  MaxAtomic = 1
  Suspendable = {user, kernel2}
SPECIFICATION FairSpec
INVARIANTS
  NoTaskLost
  TimeSliceGuaranteed
  IInv
PROPERTIES
  HeldRequestKept
  SectionsPin
  SwitchToHighest
  TopTaskRuns
