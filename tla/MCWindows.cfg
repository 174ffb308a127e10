SPECIFICATION WindowsSpec
CONSTANTS
  x1 = x1
  x2 = x2
  w1 = w1
  w2 = w2
  w3 = w3
  a = a
  b = b
  c1 = c1
  c2 = c2
  p1 = p1
  p2 = p2
  p3 = p3
  q1 = q1
  q2 = q2
  None = None
  XdgSurfaces <- TwoWindows
  MaxSerial = 3
  Prompt <- FirstWindow
  OneGrab = TRUE
  WrongAcks <- SecondWindow
  Windows <- ThreeWindows
  XdgWindows = {w1}
  AppIds = {a, b}
  MappedId <- BothAreB
  StableIds = TRUE
  Minimizable = {w1}
  MaxPending = 3
  KeepUp = {w1}
  XWindows <- TwoXWindows
  Ids = {1, 2}
  MaxObjects = 3
  Patient = TRUE
  Remaps = FALSE
  Reuses = FALSE
  Clients = {c1, c2}
  XdgPopups = {p1, p2, p3}
  WlPopups = {q1, q2}
  OwnerOf <- OwnersOfPopups
  Mixes <- AllMixes
SYMMETRY Alike
CHECK_DEADLOCK FALSE
INVARIANTS
  TypesOK
  WantedIsSent
  AcksUnderstood
  ApplicationsHaveWindows
  ActivationFollowsFocus
  WindowsArePaired
  GrabMatchesPopups
