SPECIFICATION SettingsSpec
CONSTANTS
  Ids <- MCIds
  HaSettings <- MCHaSettings
  Off = off
  Unset = unset
  Patches <- MCPatches
  clock = clock
  dash = dash
  off = off
  broker = broker
  unset = unset
  Slot <- MCSlot
  s1 = s1
  s2 = s2
  MaxEvents = 2
  Edited = {}
  AuthLimit = 2
SYMMETRY Symmetry
CHECK_DEADLOCK FALSE
INVARIANT WritesStayValid
