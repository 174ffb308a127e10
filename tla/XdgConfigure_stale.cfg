SPECIFICATION Spec
CONSTANTS
  x1 = x1
  None = None
  XdgSurfaces <- OneWindow
  MaxSerial = 4
  Prompt <- NoWindow
  OneGrab = TRUE
  WrongAcks <- NoWindow
CHECK_DEADLOCK FALSE
INVARIANTS
  LastSentIsWanted
