SPECIFICATION Spec
CONSTANTS
  Releases = {1, 2, 3}
  First = 1
  Migs <- MCMigs
  Manual <- MCManual
  Healthy = {1, 2}
  NameRank <- MCNameRank
  Delay = 0
  AutoApply = TRUE
  Retain = 1
  Detached = FALSE
  Slots <- MCOneSlot
  s1 = s1
  s2 = s2
  MaxNow = 1
PROPERTY RollbackComplete
CHECK_DEADLOCK FALSE
