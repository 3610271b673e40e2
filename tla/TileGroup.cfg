SPECIFICATION Spec
CONSTANTS
  Items = {a, h, u}
  Hidden = {h}
  Unreadable = {u}
  Handlers = {1}
  NoHandler = NoHandler
  MaxGroups = 1
  MaxChanges = 3
  MaxRequests = 4
INVARIANTS
  TypeOK
  PositionsPartition
  AccurateView
CHECK_DEADLOCK FALSE
