CONSTANTS
  main = main
  NoTask = NoTask
  NoThread = NoThread
  ThreadCount = 2
  QueueSize = 2
  TaskArgSize = 1
  Rounds = 4
  Clients = {main}
  Tasks <- MCTasks
  ArgSize <- MCArgSize
  Calls <- MCCalls
  Failures = {"signal"}
  SpuriousWakeups = FALSE
  Quiescent = TRUE
SPECIFICATION SampleSpec
INVARIANTS
  TaskReadsLiveMemory
  LeaksOnlyUnstarted
