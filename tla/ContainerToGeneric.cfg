SPECIFICATION Spec
CONSTANTS
  Count = 2
  Names = {n1}
  Archives = {v1}
  Faults = {}
INVARIANT HandlerNeverPanics
CHECK_DEADLOCK FALSE
