\* The dirty bit of a page in memory against its copy on swap.
CONSTANTS
  Page = {p1, p2, p3}
  NoPage = NoPage
  MemSize = 2
  SwapSize = 3
  TraceLen = 6

SPECIFICATION Spec
INVARIANT
  ModifiedIsDirty
