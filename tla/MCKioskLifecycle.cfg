SPECIFICATION MCSpec
CONSTANTS
  Grace = 4
  HeartbeatTimeout = 3
  Cooldown = 7
  ExitDelay = 1
  FailDelay = 2
  BootDelay = 1
  MaxKids = 3
  Enabled = TRUE
  VncSlots = {1, 2}
  Viewers = {1}
  PollSlots = {}
  MaxSpawns = 2
  Geometries = {1, 2}
  Plain = 1
  Warm = {2700}
  Neutral = 6535
  CallSlots = {1, 2}
  MaxCalls = 3
CHECK_DEADLOCK FALSE
INVARIANTS
  TypeOK
  RenderedScreenWatched
  DisplayBackOn
  RunningIsTimed
  GeometryOnce
  OneTemperature
PROPERTIES
  CooldownKept
  HealthyShellSpared
  ChildrenOnce
  CatchesUp
