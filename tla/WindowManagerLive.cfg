SPECIFICATION FairSpec
CONSTANTS
  NoWindow = NoWindow
  Monitors = {1, 2}
  AnyMonitor = 0
  all = all
  first = first
  Taskbars = {all, first}
  mMonitor <- Settings
  Windows = {w1}
  MaxEvents = 2
  MaxRefreshes = 1
INVARIANTS
  ButtonsShown
  ListConverges
PROPERTY
  Converges
CHECK_DEADLOCK FALSE
