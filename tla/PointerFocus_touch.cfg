SPECIFICATION MouseSpec
CONSTANTS
  c1 = c1
  c2 = c2
  s1 = s1
  s2 = s2
  p1 = p1
  p2 = p2
  t1 = t1
  t2 = t2
  v1 = v1
  v2 = v2
  left = left
  None = None
  Clients <- TwoClients
  Surfaces <- TwoSurfaces
  Pointers <- TwoPointers
  Touches <- TwoTouches
  OwnerOf <- OwnedTouches
  Views <- TwoViews
  TouchViews <- TwoViews
  Buttons <- OneButton
  TouchAlone = TRUE
  MaxTaken = 1
  OrderlyClients = TRUE
  OrderlyShell = TRUE
CHECK_DEADLOCK FALSE
INVARIANTS
  TouchOwned
