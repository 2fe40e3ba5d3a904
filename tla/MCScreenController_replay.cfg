SPECIFICATION Spec
CONSTANTS
  Urls <- MCUrls
  Builtins <- MCBuiltins
  Boot <- MCBoot
  Preloads <- MCPreloads
  Slots <- MCSlots
  Caps = {1, 2}
  MaxShows = 3
  MaxRegisters = 1
  MaxExits = 1
PROPERTIES
  ReplayShowsPick
CHECK_DEADLOCK FALSE
