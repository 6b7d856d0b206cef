CONSTANTS
  s1 = s1
  s2 = s2
  r1 = r1
  r2 = r2
  v1 = v1
  v2 = v2
  Threads = {s1, r1, r2}
  Senders = {s1}
  Receivers = {r1, r2}
  Queriers = {s1}
  Limited = {}
  MaxCalls = 0
  Cancellable = {s1}
  Values = {v1, v2}
  NoVal = NoVal
  NoThread = NoThread
  nmemb = 2
  SizeMax = 7
  Deadlines = {"future", "invalid"}
SPECIFICATION Spec
INVARIANTS
  TypeOK
  LockDiscipline
  NoLostWakeup
  AvailCountsMessages
  SoleCallerQuery
PROPERTY
  ImplementsFifo
CHECK_DEADLOCK FALSE
SYMMETRY Symmetry
