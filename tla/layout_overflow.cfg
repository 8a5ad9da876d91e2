CONSTANTS
  MaxInt = 3
  TaskHeader = 1
  QueueSizes <- MCQueueSizes
  TaskArgSizes <- MCTaskArgSizes
  ArgSizes <- MCArgSizes
  TaskIds = 4
SPECIFICATION Spec
INVARIANT
  AccessInBlock
