CONSTANTS
  s1 = s1
  s2 = s2
  f1 = f1
  f2 = f2
  l1 = l1
  l2 = l2
  None = None
  Unknown = Unknown
  Keys <- Line
  Drainers <- TwoDrainers
  MaxQueue = 1
  RequestInterval = 1
  RequestTimeout = 1
  Elsewhere <- NextDoor
  Slots <- TwoSlots
  Fences <- TwoFences
  Radii <- SomeRadii
  InitialGeofences <- OneGeofence
  Threshold = 2
  CacheAge = 1
  MaxPackets = 2
  MaxTime = 2
  MaxEdits = 1

SPECIFICATION Spec
SYMMETRY Symmetry
INVARIANTS
  TypeOK
  CrossingsBacked
  NotesTellTrack
  FencesRecent
  AddressNear
  WaitersServed
