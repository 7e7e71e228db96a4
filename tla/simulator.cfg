\* Three frames, so that a hand goes round more than once and a sweep can pass
\* some pages and stop at another; stale stamps and bits in every entry; three
\* slots in a bitmap of two words, which fill at the seventh reference.
CONSTANTS
  Page = {p1, p2, p3, p4}
  NoPage = NoPage
  MemSize = 3
  SwapSize = 3
  TraceLen = 8
  Garbage = {0}
  BitsPerWord = 2

SPECIFICATION SimSpec
SYMMETRY PageSymmetry
INVARIANTS
  TypeOK
  FrameTableInverse
  EntryStates
  BackedBySwap
  SlotOwnership
  CheckAddr
  GivesUpOnlyWhenFull
  BitmapIsSwapmap
PROPERTIES
  SwapCopiesAdvance
  DemandPagingSpec
  FirstInFirstOut
  LeastRecentlyUsed
  SecondChance
  LruButFrameZero
