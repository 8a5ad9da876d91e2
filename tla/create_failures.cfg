CONSTANTS
  MaxThreads = 4
  DefaultThreads = 2
  MaxQueues = 2
  DefaultQueues = 1
  MaxArgSize = 4
  ThreadCounts <- MCThreadCounts
  QueueSizes <- MCQueueSizes
  ArgSizes <- MCArgSizes
  CpuIdMax = 5
  SetSize = 7
  OnlineSets <- AllOnline
  Affinities <- MCAffinities
  Failures = {"malloc", "mutex_init", "cond_init", "attr_init", "setaffinity", "create", "getaffinity", "attr_destroy"}
SPECIFICATION Spec
INVARIANTS
  ReturnedPoolIsReady
  NothingLeftBehind
  WorkersPlaced
PROPERTIES
  CreateReturns
