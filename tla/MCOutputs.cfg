SPECIFICATION OutputsSpec
CONSTANTS
  s1 = s1
  v1 = v1
  v2 = v2
  o1 = o1
  o2 = o2
  None = None
  Screens <- TwoScreens
  Windowed <- TwoScreens
  Changing <- FirstScreen
  Buffers <- ThreeBuffers
  MaxSwitches = 0
  FlipsFail = FALSE
  CastBuffers <- ThreeBuffers
  Unusable = {}
  TooLarge = {}
  MaxPosted = 3
  Sound = TRUE
CHECK_DEADLOCK FALSE
INVARIANTS
  TypesOK
  BuffersAccounted
  ScanoutIsStable
PROPERTIES
  FramesAnswered
  RecordingGoesOn
  FlipsGoOn
