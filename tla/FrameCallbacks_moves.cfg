SPECIFICATION MovesSpec
CONSTANTS
  s1 = s1
  s2 = s2
  v1 = v1
  v2 = v2
  o1 = o1
  o2 = o2
  k1 = k1
  k2 = k2
  None = None
  Surfaces <- TwoSurfaces
  Views <- TwoViews
  Outputs <- TwoOutputs
  MaxCallbacks = 2
  MaxQueued = 1
  StableViews = FALSE
  BindsFirst = TRUE
  Automatic = {o1}
  Clients = {c1}
  Configurations <- TwoConfigurations
  Changing <- PositionAndScale
  Values = {first, second, third}
  Modes = {small, large, wide}
  MaxEvents = 2
  Alone = TRUE
  Careful = TRUE
SYMMETRY Symmetry
INVARIANTS
  FramesFollowMoves
  IsAsAsked
  IsKnown
