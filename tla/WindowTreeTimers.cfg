SPECIFICATION Spec
CONSTANTS
  bar = bar
  label = label
  inner = inner
  clock1 = clock1
  clock2 = clock2
  twin = twin
  Drawables = {bar, label, inner, clock1, clock2, twin}
  Clocks = {clock1, clock2}
  Prefixes = {"bar", "label", "inner", "clock1", "clock2"}
  Prefix <- Names
  Parent <- Parents
  Screen = Screen
  None = None
  MaxTimers = 4
INVARIANT
  TimersCallTheLiving
