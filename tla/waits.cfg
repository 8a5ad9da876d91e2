CONSTANTS
  t1 = t1
  t2 = t2
  t3 = t3
  NoThread = NoThread
  Threads = {t1, t2, t3}
  MaxCalls <- MCMaxCalls
  Kinds <- MCKinds
  GoneLimit = 2
  SharedMax = 3
  Objects = {"cond", "rwlock", "mutex"}
  Victims = {t1}
SPECIFICATION Spec
INVARIANTS
  OneHolder
  OrphanReported
  CondBalance
  NobodySleepsOnWork
  WriterAlone
PROPERTIES
  GateReopens
  LocksReturn
CHECK_DEADLOCK FALSE
