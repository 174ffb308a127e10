SPECIFICATION SessionSpec
CONSTANTS
  MaxStops = 1
  MaxSwitches = 0
  MaxCalls = 0
  OpensActive = TRUE
  SwitchesWork = TRUE
  OneTake = TRUE
CHECK_DEADLOCK FALSE
INVARIANTS
  ControlAgrees
