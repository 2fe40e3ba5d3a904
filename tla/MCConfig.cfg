SPECIFICATION MCSpec
CONSTANTS
  Ids <- MCIds
  HaSettings <- MCHaSettings
  Off = off
  Unset = unset
  Patches <- MCPatches
  clock = clock
  dash = dash
  off = off
  broker = broker
  unset = unset
  Slot <- MCSlot
  s1 = s1
  s2 = s2
  MaxEvents = 3
  Edited = {"frame", "screens"}
  AuthLimit = 2
  Installs = {{"mqtt"}}
  MaxTyped = 2
  MaxOthers = 1
SYMMETRY Symmetry
CHECK_DEADLOCK FALSE
INVARIANTS
  TypeOK
  InstalledFits
  FilesStayValid
  Settled
  BridgeFollowsConfig
  StatusTruthful
  SavedIsShown
PROPERTY
  OnlyEnteredWritten
