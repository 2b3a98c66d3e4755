CONSTANTS
  c1 = c1
  c2 = c2
  u1 = u1
  u2 = u2
  u3 = u3
  r1 = r1
  r2 = r2
  None = None
  Gone = Gone
  Colleges <- TwoColleges
  Users <- ThreeUsers
  Requests <- TwoRequests
  InitialColleges <- OneCollege
  InitialUsers <- AdminAndManager
  MaxRequests = 4

CHECK_DEADLOCK FALSE
SPECIFICATION Spec
SYMMETRY Symmetry
INVARIANTS
  TypeOK
  Owned
PROPERTIES
  UpdateLeavesOneAdmin
