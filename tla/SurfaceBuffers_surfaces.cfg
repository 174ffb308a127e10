SPECIFICATION FairSpec
CONSTANTS
  s1 = s1
  s2 = s2
  v1 = v1
  v2 = v2
  b1 = b1
  b2 = b2
  None = None
  Surfaces <- TwoSurfaces
  Views <- OneView
  Buffers <- TwoBuffers
  MaxPool = 2
  Lockable <- NoView
  Discarding <- NoView
  Hideable <- OneView
  ClientReuses = FALSE
CHECK_DEADLOCK FALSE
INVARIANTS
  NoReleaseLost
PROPERTY
  ContentStable
  SupersededComesBack
