CONSTANTS
  t1 = t1
  t2 = t2
  t3 = t3
  k1 = k1
  k2 = k2
  s1 = s1
  s2 = s2
  s3 = s3
  NoThread = NoThread
  Threads = {t1, t2, t3}
  MaxCalls <- MCMaxCalls
  ReuseFrames = FALSE
  Frames = 3
  Proxy <- MCProxy
  Height = 2
  Waits <- MCWaitCalls
  SEM_VALUE_MAX = 2
  InitValues = {0, 1, 3}
  PostCounts = {0, 2}
  Cancellable = {"sem_wait", "sem_timedwait"}
  PostMeetsCancel = FALSE
  Victims = {t1}
  Keys = {k1, k2}
  NoKey = NoKey
  Destructed = {k1, k2}
  DESTRUCTOR_ITERATIONS = 1
  Resets = 1
  FreeDelete = FALSE
  Structs = {s1, s2, s3}
  NoStruct = NoStruct
  Main = t1
  AtOnce = {t1, t2}
  EarlyCancel = FALSE
  Objects = {"mcs", "once", "barrier", "spin", "semaphore", "keys", "threads"}
SPECIFICATION Spec
INVARIANTS
  OneHolder
  OnceComplete
  BarrierInStep
  SemBalance
  TsdInStep
  StructsInStep
PROPERTIES
  McsImplementsFifoLock
  CallsReturn
CHECK_DEADLOCK FALSE
