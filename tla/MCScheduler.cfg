SPECIFICATION MCSpec
CONSTANTS
  ScreenIds <- MCScreenIds
  photos = photos
  dash = dash
  Offers = {"manual_next", "manual_pinned"}
  Durations = {0, 1, 3}
  PinnedTimeouts = {4}
  MinRecheck = 2
  TimerMax = 3
  MaxNow = 4
  MaxClaims = 4
  Lists <- MCLists
  Drafts <- MCDrafts
  Reach = 1
  Slots = {1, 2}
  ReadSlots = {1}
  MaxClock = 1
  MaxPuts = 2
  Calls = {1, 2}
  MaxRotations = 2
SYMMETRY Symmetry
INVARIANTS
  TypeOK
  DefaultPresent
  NothingOutranksActive
  ActiveStillClaimed
  NoOverstay
  TimersFollowRules
  RulesSaved
  PageShowsRules
  SessionKept
PROPERTIES
  DisplacedNextGone
