SPECIFICATION Spec
CONSTANTS
  NoWindow = NoWindow
  Monitors = {1, 2}
  AnyMonitor = 0
  all = all
  first = first
  Taskbars = {all, first}
  mMonitor <- Settings
  Windows = {w1}
  MaxEvents = 0
  MaxRefreshes = 1
INVARIANT
  OnEveryWantingTaskbar
CHECK_DEADLOCK FALSE
