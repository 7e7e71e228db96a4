\* The same traces.
CONSTANTS
  t1 = t1
  t2 = t2
  Thread = {t1, t2}
  Workload <- Traces
  HeapLimit = 6

SPECIFICATION TestSpec
INVARIANT
  OverflowIsReal
