\* Every build of the two loops, and pthread_create failing at either call.
CONSTANT
  Program = {"rendezvous", "shared"}

SPECIFICATION DemoSpec
INVARIANT
  LinesInOrder
PROPERTY
  ThreadsEnd
