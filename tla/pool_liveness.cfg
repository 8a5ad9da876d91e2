CONSTANTS
  a = a
  b = b
  t1 = t1  t2 = t2  t3 = t3  t4 = t4
  NoTask = NoTask
  NoThread = NoThread
  ThreadCount = 2
  QueueSize = 2
  TaskArgSize = 2
  Clients = {a}
  Tasks <- MCTasks2
  ArgSize <- MCArgSize2
  Calls <- CallsTasksDestroy
  Failures = {}
  SpuriousWakeups = FALSE
  Quiescent = TRUE
SPECIFICATION FairSpec
INVARIANTS
  SoleSubmitterCredit
PROPERTIES
  QueuedIsTaken
  DestroyReturns
