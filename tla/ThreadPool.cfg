\* Seven jobs on three threads: two full batches and a short one.
CONSTANTS
  JobCount = 7
  Threads = 3
SPECIFICATION FairSpec
INVARIANTS
  WorkersBounded
  NoWorkerLeft
  FailureStopsBatches
PROPERTIES
  ImplementsMap
  RunEnds
CHECK_DEADLOCK FALSE
