CONSTANTS
  Objects = {x1, x2, x3, x4}
  NULL = NULL
  MaxLen = 4
  Period = 4
  Garbage = {0, 2, 7}
  MaxOverrun = 2
  NsInS = 3
  MaxSec = 4
  Word = 32
  Modules = {m1, m2, m3}
  Dummy = dummy
  SEND_CNT = 16
  BUF_SZ = 8
  Capacity = 5
  ByteMod = 10
  Row = 4
  MaxSize = 9
  Size = 2
  Sep = ","
  Char = "c"
  MaxStr = 5
  MaxAddrs = 16
  MaxFd = 6
SPECIFICATION MCSpec
INVARIANTS
  EachObjectOnce
  CountdownConserved
  ElapsedExact
  CallsByLevel
  ChunksInOrder
  PrintedUpToNul
  DumpExact
  FullPeriod
  SplitExact
  EverythingReturned
PROPERTIES
  SinkEnds
  ImplementsDeque
CHECK_DEADLOCK FALSE
