SPECIFICATION ModulesSpec
CONSTANTS
  Icons = {i1, i2, i3}
  Wanted = {i1, i2}
  Addresses = {m1, m2}
  None = None
  HasParent = TRUE
  MaxBalloons = 3
  MaxIds = 2
  MaxReleased = 2
  r1 = r1
  c1 = c1
  g1 = g1
  r2 = r2
  c2 = c2
  d2 = d2
  s1 = s1
  Popups = {r1, c1, g1, r2, c2, d2, s1}
  Kind <- MCKind
  Parent <- MCParent
  Above <- MCAbove
  NoPopup = NoPopup
  MaxPosted = 4
  Programs = {w1, w2, w3}
  Desktop = Desktop
  Nothing = Nothing
  Buttons = {b1, b2}
  MaxDebt = 2
INVARIANTS
  ModulesTypeOK
  InstancesAgree
  BalloonHasIcon
  TimerUnderWay
  ChainsFit
  ItemsWhileOpen
  SwitcherConsistent
  LooksAsItIs
  BrushesOfTheTarget
PROPERTIES
  BalloonsPass
  SwitchesToTheNamed
CHECK_DEADLOCK FALSE
