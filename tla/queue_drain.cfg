CONSTANTS
  main = main
  r1 = r1
  r2 = r2
  v1 = v1
  v2 = v2
  Threads = {main, r1}
  Senders = {main}
  Receivers = {r1}
  Queriers = {}
  Limited = {main}
  MaxCalls = 4
  Cancellable = {r1}
  Values = {v1, v2}
  NoVal = NoVal
  NoThread = NoThread
  nmemb = 2
  SizeMax = 7
  Deadlines = {"future"}
SPECIFICATION DrainFairSpec
INVARIANT
  DrainedIsEmpty
PROPERTIES
  ImplementsFifo
  ProgramEnds
CHECK_DEADLOCK FALSE
