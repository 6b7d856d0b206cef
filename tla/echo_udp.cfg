CONSTANTS
  c1 = c1
  c2 = c2
  Server = server
  Clients = {c1, c2}
  Strangers = {stranger}
  StrayLens = {3}
  Args <- MCArgs
  Dotted = {c1}
  Nobody = nobody
  ServerPort <- MCServerPort
  BufSize = 2
SPECIFICATION Spec
INVARIANT
  WellAddressed
PROPERTY
  ClientEnds
CHECK_DEADLOCK FALSE
