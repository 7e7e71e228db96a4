\* Every trace of seven loads, on a buffer of zeroes.
CONSTANTS
  Page = {p1, p2, p3, p4}
  NoPage = NoPage
  MemSize = 3
  SwapSize = 3
  TraceLen = 7
  Garbage = {0}
  BitsPerWord = 2

SPECIFICATION SimSpec
SYMMETRY PageSymmetry
INVARIANT
  FarthestNextUse
