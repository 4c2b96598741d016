CONSTANTS
  j1 = j1
  j2 = j2
  j3 = j3
  Job <- MCJob
  MaxActive = 2
SPECIFICATION Spec
INVARIANT CancelReachesWorker
CHECK_DEADLOCK FALSE
