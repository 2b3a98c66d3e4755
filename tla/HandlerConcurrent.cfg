CONSTANTS
  s1 = s1
  s2 = s2
  o1 = o1
  o2 = o2
  o3 = o3
  NoObj = NoObj
  Slots <- TwoSlots
  Objs <- ThreeObjs
  StoreMode = "memory"
  Speeds <- FewSpeeds
  SpeedLimit = 7
  TripTimeout = 1
  IdleThreshold = 1
  MaxTime = 1
  MaxRows = 2
  MaxLate = 1
  MaxFailures = 0
  MaxLosses = 0

SPECIFICATION Spec
SYMMETRY Symmetry
INVARIANTS
  TypeOK
  ActiveIdlingHasEvent
