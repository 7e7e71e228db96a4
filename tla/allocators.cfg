\* Free lists on four chunks of four words, with blocks of one and two words,
\* a request that rounding up wraps to a block of one word, and one that is
\* too large for an int; one list on 32 words, with nodes of four, eight and
\* twelve words and one too large.
CONSTANTS
  Request = {0, 9, 137, 249}
  UIntMod = 256
  Chunk = 4
  HeapLimit = 16
  ListRequest = {0, 16, 17, 80, 300}
  ListLimit = 32

SPECIFICATION AllocSpec
VIEW InUse
INVARIANTS
  AllocTypeOK
  Tiled
  EndsAsAssumed
  BlocksIntact
  CrashesOnlyAfterFirstFailure
PROPERTIES
  HeapMovesForCause
  KeepsContract
  HeadLostByBestFit
