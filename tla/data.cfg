CONSTANTS
  MaxInt = 7
  TaskHeader = 1
  QueueSizes <- MCQueueSizes
  TaskArgSizes <- MCTaskArgSizes
  ArgSizes <- MCArgSizes
  TaskIds = 4
  Tasks = {t1, t2}
  First = t1
  t1 = t1
  t2 = t2
  AttrKinds <- MCAttrKinds
  Priorities <- MCPriorities
  StackSizes = {0, 1}
  Null = Null
  Chars = {a, sep}
  Separator = sep
  NUL = NUL
  Unset = Unset
  NoBuffer = NoBuffer
  BlockSize = 3
  MaxPiece = 2
  MaxLen = 5
  Blank = blank
  Delim = delim
  Dot = dot
  Alphabet = {blank, delim, dot, a}
  MaxText = 5
  Days <- MCDays
  MktimeFails <- MCMktimeFails
  Seconds <- MCSeconds
  MilliPerSec = 4
  NanoPerMilli = 4
  Word = 16
  LongWord = 64
  MaxSec = 5
SPECIFICATION DataSpec
INVARIANTS
  QueuedIntact
  AttrAsAsked
  PriorityKept
  BufferHoldsText
  TextKept
  ClockRight
CHECK_DEADLOCK FALSE
