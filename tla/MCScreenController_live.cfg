SPECIFICATION FairSpec
CONSTANTS
  Urls <- MCUrls
  Builtins <- MCBuiltins
  Boot <- MCBoot
  Preloads <- MCTwoPreloads
  Slots <- MCSlots
  Caps = {2}
  MaxShows = 2
  MaxRegisters = 1
  MaxExits = 1
PROPERTIES
  CallsEnd
CHECK_DEADLOCK FALSE
