SPECIFICATION FairSpec
CONSTANTS
  Items = {a}
  Hidden = {}
  Unreadable = {}
  Handlers = {1, 2}
  NoHandler = NoHandler
  MaxGroups = 2
  MaxChanges = 2
  MaxRequests = 4
INVARIANT
  AccurateView
PROPERTIES
  NotesDrain
  LoadsArrive
CHECK_DEADLOCK FALSE
