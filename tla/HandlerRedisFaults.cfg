CONSTANTS
  s1 = s1
  s2 = s2
  o1 = o1
  o2 = o2
  o3 = o3
  NoObj = NoObj
  Slots <- OneSlot
  Objs <- TwoObjs
  StoreMode = "redis"
  Speeds <- CrawlingSpeeds
  SpeedLimit = 7
  TripTimeout = 2
  IdleThreshold = 2
  MaxTime = 3
  MaxRows = 3
  MaxLate = 1
  MaxFailures = 1
  MaxLosses = 1

SPECIFICATION Spec
SYMMETRY Symmetry
INVARIANTS
  OverspeedTracked
  IdlingTracked
