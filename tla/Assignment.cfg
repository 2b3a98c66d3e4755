CONSTANTS
  d1 = d1
  d2 = d2
  v1 = v1
  v2 = v2
  u1 = u1
  u2 = u2
  u3 = u3
  p1 = p1
  k1 = k1
  None = None
  Devices <- TwoDevices
  Vehicles <- TwoVehicles
  Uids <- ThreeUids
  Operators <- OneOperator
  Packets <- OnePacket
  MaxRequests = 4
  MaxFaults = 1

SPECIFICATION Spec
SYMMETRY Symmetry
INVARIANTS
  TypeOK
  StatusAgrees
  TablesAgree
PROPERTIES
  MatchingSpec
