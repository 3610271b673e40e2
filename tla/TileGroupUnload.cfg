SPECIFICATION Spec
CONSTANTS
  Items = {a}
  Hidden = {}
  Unreadable = {}
  Handlers = {1, 2}
  NoHandler = NoHandler
  MaxGroups = 2
  MaxChanges = 1
  MaxRequests = 3
INVARIANT
  UnloadsEverything
CHECK_DEADLOCK FALSE
