SPECIFICATION FairSpec
CONSTANTS
  w0 = w0
  w1 = w1
  w2 = w2
  Workers = {w0, w1, w2}
  Main = w0
  Tasks <- HeapTasks
  Root = 1
  Pardos <- HeapPardos
  Conservative <- UnderTheLock
  Locked <- LockUsers
  Shutdown = Shutdown
  Nobody = Nobody
INVARIANTS
  NoDanglingJob
  DequeMatchesStack
PROPERTY
  RunsTheDag
 Terminates
