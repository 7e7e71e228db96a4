\* A block of one word, freed while it does not touch the only free node.
CONSTANTS
  Request = {8, 16}
  UIntMod = 256
  Chunk = 4
  HeapLimit = 12

SPECIFICATION HeapSpec
INVARIANT
  FreeReturns
