SPECIFICATION Spec
CONSTANTS
  NoWindow = NoWindow
  Monitors = {1, 2}
  AnyMonitor = 0
  all = all
  first = first
  Taskbars = {all, first}
  mMonitor <- Settings
  Windows = {w1}
  MaxEvents = 1
  MaxRefreshes = 0
INVARIANT
  FlashNotLost
CHECK_DEADLOCK FALSE
