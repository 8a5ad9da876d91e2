CONSTANTS
  a = a
  b = b
  t1 = t1  t2 = t2  t3 = t3  t4 = t4
  NoTask = NoTask
  NoThread = NoThread
  ThreadCount = 2
  QueueSize = 2
  TaskArgSize = 2
  Clients = {a, b}
  Tasks <- MCTasks3
  ArgSize <- MCArgSize3
  Calls <- CallsTwoClients
  Failures = {}
  SpuriousWakeups = TRUE
  Quiescent = FALSE
SPECIFICATION Spec
INVARIANTS
  NoUseAfterFree
