SPECIFICATION MCSpec
CONSTANTS
  Urls <- MCUrls
  Builtins <- MCBuiltins
  Boot <- MCBoot
  Preloads <- MCPreloads
  Slots <- MCSlots
  Caps = {1, 2}
  MaxShows = 3
  MaxRegisters = 1
  MaxExits = 1
  Ids = {"a", "b"}
  Default = "a"
  Widget = "number"
  Required = TRUE
  Requests = {1, 2}
  MaxEvents = 3
INVARIANTS
  TypeOK
  SettledShowsTarget
  OverlayReleased
  ScreensTabTruthful
CHECK_DEADLOCK FALSE
