CONSTANTS
  admin = admin
  member = member
  c1 = c1
  c2 = c2
  q1 = q1
  q2 = q2
  All = All
  None = None
  Users <- TwoUsers
  Colleges <- TwoColleges
  CollegeOf <- Memberships
  Calls <- TwoCalls
  MaxNotes = 2
  PageSize = 1
  MaxCalls = 3
  MaxToasts = 1

SPECIFICATION Spec
CHECK_DEADLOCK FALSE
SYMMETRY Symmetry
INVARIANTS
  ScopedList
  CaughtUp
