SPECIFICATION Spec
CONSTANTS
  s1 = s1
  s2 = s2
  v1 = v1
  v2 = v2
  b1 = b1
  b2 = b2
  None = None
  Surfaces <- OneSurface
  Views <- TwoViews
  Buffers <- OneBuffer
  MaxPool = 2
  Lockable <- OneView
  Discarding <- SecondView
  Hideable <- SecondView
  ClientReuses = TRUE
CHECK_DEADLOCK FALSE
SYMMETRY SurfacesAndBuffers
INVARIANT
  ReferencesExact
PROPERTY
  ImplementsReferences
