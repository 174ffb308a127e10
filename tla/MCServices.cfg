SPECIFICATION ServicesSpec
CONSTANTS
  x1 = x1
  x2 = x2
  x3 = x3
  None = None
  Compositors <- ThreeCompositors
  MaxDisplay = 4
  Crashes = TRUE
  Foreign = FALSE
  Alone = FALSE
  Errors = {x1}
  MaxStops = 2
  MaxSwitches = 2
  MaxCalls = 1
  OpensActive = TRUE
  SwitchesWork = FALSE
  OneTake = TRUE
  Retries = 2
  MaxEnds = 4
  Stops = TRUE
  Prompt = TRUE
  DiesOfStop <- CompositorDies
  EndsOf <- AnyEnd
CHECK_DEADLOCK FALSE
INVARIANTS
  TypesOK
  FollowsService
  ListensAlone
PROPERTIES
  SessionStaysConnected
  Supervised
  CompositorStarts
  DisplayFound
