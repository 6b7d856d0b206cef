CONSTANTS
  k1 = k1
  k2 = k2
  k3 = k3
  v1 = v1
  v2 = v2
  Keys = {k1, k2, k3}
  Vals = {v1, v2}
  NULL = NULL
  Hash <- MCHash
  MinSize = 2
  CreateSizes = {0, 3}
  MaxSize = 4
  MaxCreates = 2
SPECIFICATION Spec
SYMMETRY Symmetry
INVARIANTS
  KeysUnique
  EntriesAccounted
  CountCoversEntries
PROPERTIES
  ImplementsMap
CHECK_DEADLOCK FALSE
