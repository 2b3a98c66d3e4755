CONSTANTS
  s1 = s1
  s2 = s2
  o1 = o1
  o2 = o2
  o3 = o3
  NoObj = NoObj
  Slots <- TwoSlots
  Objs <- ThreeObjs
  StoreMode = "memory"
  Speeds <- FewSpeeds
  SpeedLimit = 7
  TripTimeout = 2
  IdleThreshold = 2
  MaxTime = 3
  MaxRows = 3
  MaxLate = 0
  MaxFailures = 0
  MaxLosses = 0

SPECIFICATION Spec
SYMMETRY Symmetry
INVARIANTS
  NoDuplicateIdling
