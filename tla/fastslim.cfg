\* Four pages, more than two windows of up to three, and the empty buffer.
CONSTANTS
  Page = {p1, p2, p3, p4}
  BufferSizes = {0, 1, 2, 3}
  MaxRefs = 8

SPECIFICATION SlimSpec
SYMMETRY PageSymmetry
INVARIANTS
  PrintsFirstReferences
  LruMissesKept
