SPECIFICATION CronSpec
CONSTANTS
  Lists <- MCLists
  Reach = 1
  Slots = {1}
  MaxClock = 3
  MaxPuts = 1
CHECK_DEADLOCK FALSE
PROPERTY OnTime
