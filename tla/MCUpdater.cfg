SPECIFICATION Spec
CONSTANTS
  Releases = {1, 2, 3}
  First = 1
  Migs <- MCManualTwo
  Manual <- MCManualFirst
  Healthy = {1}
  NameRank <- MCNameRank
  Delay = 1
  AutoApply = TRUE
  Retain = 1
  Detached = FALSE
  Slots <- MCSlots
  s1 = s1
  s2 = s2
  MaxNow = 2
INVARIANTS
  TypeOK
  OneApply
PROPERTIES
  StagingRespected
  QuarantinedSkipped
SYMMETRY Symmetry
CHECK_DEADLOCK FALSE
