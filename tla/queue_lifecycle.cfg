CONSTANTS
  SizeMod = 64
  U32Mod = 32
  Nmembs = {0, 1, 2, 3, 5, 7}
  Sizes = {0, 1, 2, 4}
  Counts = {}
  ExactBuffers = TRUE
SPECIFICATION Spec
INVARIANTS
  HeapIsOwned
  WriteInBuffer
  RingHasNmembSlots
