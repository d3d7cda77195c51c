CONSTANTS
  Clients = {c1, c2}
  watcher = c1
  MaxWidgets = 4
  MaxCalls = 1
  MaxClicks = 2
  MaxLeaves = 1
SPECIFICATION MCSpec
INVARIANTS ScreenIsWanted ClicksAreHeard
CHECK_DEADLOCK FALSE
