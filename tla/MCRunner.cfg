\* a simulation task against the oracle and the mega sandwiches of two blocks
CONSTANTS
  s1 = s1  p1 = p1
  Sims = {s1}
  Pools = {p1}
  MaxHead = 3
SPECIFICATION FairSpec
INVARIANTS
  IInv
  LockHeldByRunningMega
  NonceNotOlderThanTarget
  MegaAfterPublish
PROPERTIES
  MegaReadsStableRecipes
  ClearSparesNextBlock
  BlockPublished
  TasksEnd
