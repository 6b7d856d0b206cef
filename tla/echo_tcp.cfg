CONSTANTS
  c1 = c1
  c2 = c2
  Clients = {c1, c2}
  Args <- MCArgs
  BufSize = 2
SPECIFICATION Spec
INVARIANT
  EchoInOrder
PROPERTIES
  ClientEnds
  ThreadReadsAll
CHECK_DEADLOCK FALSE
