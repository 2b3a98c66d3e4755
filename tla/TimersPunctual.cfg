CONSTANTS
  Word = 32
  MaintenanceInterval = 3
  ReconnectInterval = 5
  PollIntervals <- TwoIntervals
  MaxBlock = 2
  MaxSetup = 6

SPECIFICATION Spec
INVARIANTS
  SamplingPunctual
  RetryBoundedBeforeWrap
