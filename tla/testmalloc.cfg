\* One thread with six operations, or two threads that can race in
\* update_heap, on a heap of six words.
CONSTANTS
  t1 = t1
  t2 = t2
  Thread = {t1, t2}
  Workload <- Traces
  HeapLimit = 6

SPECIFICATION TestSpec
INVARIANTS
  TestTypeOK
  PendingBlocksOwned
  OneThreadAccurate
PROPERTY
  EventuallyJoined
