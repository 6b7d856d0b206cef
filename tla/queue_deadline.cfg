CONSTANTS
  MsPerSec = 3
  NsPerMs = 2
  MaxSec = 4
  Timeouts <- MCTimeouts
SPECIFICATION Spec
INVARIANTS
  NeverEarly
  EinvalOnlyNegative
  DeadlineWithinOneNs
CHECK_DEADLOCK FALSE
