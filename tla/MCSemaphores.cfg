CONSTANTS
  low1 = low1
  low2 = low2
  high = high
  Task = {low1, low2, high}
  IdleTask = IdleTask
  NoTask = NoTask
  TopPriority = 2
  fPriority <- TwoLevels
  BigEndian = TRUE
  fCount = 7
  RdWrBase = 2
  ScreenBase = 4
  MaxTokens = 3
  inBlocking = 1
  Label <- AllLabels
  Entry <- AllEntries
  Program <- AllPrograms
  Branch <- AllBranches
  MayDestroy = TRUE
SPECIFICATION Spec
INVARIANTS
  TypeOK
  OnePlace
  NoLostIncrease
  TokensConserved
  CountsAreHolders
  WriterExcludes
  DrawersCounted
  OneUpdate
