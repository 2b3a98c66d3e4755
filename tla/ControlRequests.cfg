CONSTANTS
  r1 = r1
  Requests <- OneRequest
  Intervals <- TwoValues
  Targets <- TwoTargets
  Default <- DefaultPair
  WaitTimeout = 1
  MaxTime = 3
  MaxChannel = 2
  MaxFaults = 2

SPECIFICATION FairSpec
INVARIANTS
  TypeOK
  RecordAgrees
  RecordWasApplied
PROPERTIES
  RequestAnswered
