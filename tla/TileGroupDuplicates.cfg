SPECIFICATION Spec
CONSTANTS
  Items = {a}
  Hidden = {}
  Unreadable = {}
  Handlers = {1}
  NoHandler = NoHandler
  MaxGroups = 1
  MaxChanges = 2
  MaxRequests = 3
INVARIANT
  NoDuplicateTiles
CHECK_DEADLOCK FALSE
