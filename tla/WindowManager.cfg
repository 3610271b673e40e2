SPECIFICATION Spec
CONSTANTS
  NoWindow = NoWindow
  Monitors = {1, 2}
  AnyMonitor = 0
  all = all
  first = first
  Taskbars = {all, first}
  mMonitor <- Settings
  Windows = {w1, w2}
  MaxEvents = 2
  MaxRefreshes = 0
INVARIANTS
  TypeOK
  TaskbarsFollowMap
  NothingStale
  ActiveFollows
CHECK_DEADLOCK FALSE
