CONSTANTS
  v1 = v1
  v2 = v2
  All = All
  Vehicles <- TwoVehicles
  Debounce = 2
  ActiveStopCap = 3
  LastTime = 5
  MaxRows = 4

SPECIFICATION StopsSpec
CHECK_DEADLOCK FALSE
SYMMETRY Symmetry
INVARIANTS
  StopsCoverOffTime
PROPERTIES
  ListedStopsLast
