SPECIFICATION SeatSpec
CONSTANTS
  c1 = c1
  c2 = c2
  c3 = c3
  s1 = s1
  s2 = s2
  s3 = s3
  s4 = s4
  v1 = v1
  v2 = v2
  kb1 = kb1
  kb2 = kb2
  ptr1 = ptr1
  ptr2 = ptr2
  tch1 = tch1
  ti1 = ti1
  ti2 = ti2
  shift = shift
  letter = letter
  us = us
  it = it
  typo = typo
  slow = slow
  fast = fast
  left = left
  screen = screen
  d1 = d1
  d2 = d2
  d3 = d3
  None = None
  Compositor = Compositor
  Clients <- TwoClients
  Surfaces <- ThreeSurfaces
  Keyboards <- TwoKeyboards
  OwnerOf <- Owned
  Keys <- TwoKeys
  ModifierKeys <- OnlyShift
  Keymaps <- ThreeKeymaps
  Loadable <- TwoKeymaps
  MaxHeld <- ShiftTwice
  CursorSurfaces <- OneCursor
  Rates <- TwoRates
  OneEach = TRUE
  Pointers <- TwoPointers
  Touches <- OneTouch
  Views <- TwoViews
  TouchViews <- TouchedViews
  Buttons <- OneButton
  TouchAlone = TRUE
  MaxTaken = 1
  Sources <- TwoSources
  MimeTypes = 2
  KeyboardClients <- TwoClients
  Retains = TRUE
  Overrides = FALSE
  DragSurfaces <- TwoSurfaces
  DragSources <- ThreeSources
  DragViews <- TwoViews
  TextClients <- ThreeClients
  TextSurfaces <- OneEachAndOne
  TextInputs <- TwoInputs
  TextsOf <- TwoTexts
  MaxRequests = 1
  MaxEvents = 1
  OrderlyClients = TRUE
  OrderlyShell = TRUE
  Slots <- ThreeSlots
  OncePerFrame = TRUE
  InputKeyboards <- TwoKeyboards
  Touchscreens <- OneScreen
  InputKeys <- TwoKeys
  Repeating <- OnlyLetter
  MaxQueue = 3
  MaxOpened = 2
  ResumeWorks = TRUE
CHECK_DEADLOCK FALSE
SYMMETRY KeymapsAndRates
INVARIANTS
  TypesOK
  FocusIsTold
  KeysSettle
  EventsFollowMouse
  InputSettles
  TextFocusIsTold
  TextSettles
  SelectionIsKnown
  DragSettles
