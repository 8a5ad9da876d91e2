CONSTANTS
  a = a
  b = b
  t1 = t1  t2 = t2  t3 = t3  t4 = t4
  NoTask = NoTask
  NoThread = NoThread
  ThreadCount = 2
  QueueSize = 1
  TaskArgSize = 2
  Clients = {a, b}
  Tasks <- MCTasks2
  ArgSize <- MCArgSize2
  Calls <- CallsTasksAdd
  Failures = {"lock", "signal", "broadcast"}
  SpuriousWakeups = TRUE
  Quiescent = FALSE
CHECK_DEADLOCK FALSE
SPECIFICATION Spec
INVARIANTS
  TasksConserved
PROPERTIES
  ShutdownFreezesQueue
