SPECIFICATION FairSpec
CONSTANTS
  None = None
  Screens = {o1}
  Windowed = {o1}
  Changing = {}
  Buffers = {1, 2, 3}
  MaxSwitches = 2
  FlipsFail = FALSE
CHECK_DEADLOCK FALSE
PROPERTIES
  KeepsPainting
