SPECIFICATION ServicesSpec
CONSTANTS
  Items = {i1, i2}
  Handlers = {h1}
  NoHandler = NoHandler
  Unreadable = {i2}
  MaxRequests = 2
  bar = bar
  label = label
  inner = inner
  clock1 = clock1
  clock2 = clock2
  twin = twin
  Drawables = {bar, label, inner, clock1, clock2, twin}
  Clocks = {clock1, clock2}
  Prefixes = {"bar", "label", "inner", "clock1", "clock2"}
  Prefix <- Names
  Parent <- Parents
  Screen = Screen
  None = None
  MaxTimers = 4
  Labels = {w1, w2}
  Texts = {t1, t2, t3}
  Functions = {time, song}
  TimerFunctions = {time}
  NoText = NoText
  Free = Free
  Characters <- MCAlphabet
  RawTexts <- MCTexts
  Writings <- MCWritings
  Alnum <- MCAlnum
  MaxNumArgs = 2
  Files = {f1, f2}
  NoFile = NoFile
  MaxAnnounced = 2
INVARIANTS
  ServicesTypeOK
  FlagOutlivesRequest
  CompleteWhenSent
  CancelledNeverAnswered
  NoDanglingWindow
  AttachedIfPossible
  OnTheWindowOfItsParent
  ClocksRun
  EveryTextIsTold
  NothingOfTheGone
  LosesNothing
  ReadsWhatWasWritten
  LabelsFollow
PROPERTIES
  RequestsEnd
  ImplementsPromise
  TextsCatchUp
CHECK_DEADLOCK FALSE
