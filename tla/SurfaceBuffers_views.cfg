SPECIFICATION Spec
CONSTANTS
  s1 = s1
  s2 = s2
  v1 = v1
  v2 = v2
  b1 = b1
  b2 = b2
  None = None
  Surfaces <- OneSurface
  Views <- TwoViews
  Buffers <- OneBuffer
  MaxPool = 3
  Lockable <- OneView
  Discarding <- SecondView
  Hideable <- NoView
  ClientReuses = FALSE
CHECK_DEADLOCK FALSE
INVARIANTS
  TypeOK
  SlotsAccounted
  ReferencedNotOwned
