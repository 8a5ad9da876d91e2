CONSTANTS
  a = a
  b = b
  t1 = t1  t2 = t2  t3 = t3  t4 = t4
  NoTask = NoTask
  NoThread = NoThread
  ThreadCount = 2
  QueueSize = 2
  TaskArgSize = 2
  Clients = {a, b}
  Tasks <- MCTasks4
  ArgSize <- MCArgSize4
  Calls <- CallsTwoClients
  Failures = {}
  SpuriousWakeups = TRUE
  Quiescent = TRUE
SPECIFICATION Spec
INVARIANTS
  MutualExclusion
  RingConsistent
  NoLostWakeup
  RefusedNeverRun
  OwnArgument
  DestroyFreesPool
  NoUseAfterFree
PROPERTIES
  ImplementsTaskQueue
