CONSTANTS
  s1 = s1
  s2 = s2
  r1 = r1
  r2 = r2
  v1 = v1
  v2 = v2
  Threads = {s1, s2, r1}
  Senders = {s1, s2}
  Receivers = {r1}
  Queriers = {r1}
  Limited = {s1, s2, r1}
  MaxCalls = 2
  Cancellable = {s2, r1}
  Values = {v1}
  NoVal = NoVal
  NoThread = NoThread
  nmemb = 1
  SizeMax = 7
  Deadlines = {"future"}
SPECIFICATION FairSpec
PROPERTY
  EveryCallReturns
CHECK_DEADLOCK FALSE
