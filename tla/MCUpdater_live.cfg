SPECIFICATION FairSpec
CONSTANTS
  Releases = {1, 2}
  First = 1
  Migs <- MCMigs
  Manual <- MCManual
  Healthy = {1, 2}
  NameRank <- MCNameRank
  Delay = 1
  AutoApply = TRUE
  Retain = 1
  Detached = TRUE
  Slots <- MCSlots
  s1 = s1
  s2 = s2
  MaxNow = 2
INVARIANTS
  LinkWhole
PROPERTIES
  RecordedNotRerun
  LockReleased
CHECK_DEADLOCK FALSE
