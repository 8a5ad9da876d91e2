----------------------------- MODULE PoolLayout -----------------------------
(***************************************************************************)
(* The ring of src/threadpool.c byte by byte: how threadpool_create sizes  *)
(* the block that holds the task slots, where threadpool_get_task_at finds *)
(* a slot in it, what threadpool_add writes there and what threadpool_run  *)
(* copies out.  Addresses count from pool->queues.  The offset of a slot   *)
(* is the product of two ints, which wraps beyond the largest int.         *)
(***************************************************************************)
EXTENDS Integers, Sequences

CONSTANTS
  MaxInt,        \* the largest int
  TaskHeader,    \* sizeof(threadpool_task_t): task_arg[0] takes no room
  QueueSizes,    \* the queue sizes and task_arg sizes threadpool_create is
  TaskArgSizes,  \*   given, all of which pass its checks
  ArgSizes,      \* the arg_size of the calls of threadpool_add
  TaskIds        \* tasks are numbered from 1 to TaskIds and again from 1

ASSUME LayoutAssumption ==
  /\ MaxInt \in Nat /\ TaskHeader \in Nat \ {0} /\ TaskIds \in Nat \ {0}
  /\ QueueSizes \subseteq 1..MaxInt /\ TaskArgSizes \subseteq 0..MaxInt
  /\ ArgSizes \subseteq Int

VARIABLES
  queue_size, task_arg_size,
  head, tail,
  block,     \* the bytes: the task that wrote each of them last, or 0
  queue,     \* history: the queued tasks, with the arg_size stored for each
  task       \* history: the next task

vars == <<queue_size, task_arg_size, head, tail, block, queue, task>>

-----------------------------------------------------------------------------
(* Faulty versions of definitions below, not used here. *)

\* TaskAt: the distance of two slots is the size of task_arg.
TaskAtNoHeader(offset) == offset * task_arg_size

-----------------------------------------------------------------------------
\* pool->task_size
TaskSize == TaskHeader + task_arg_size

\* The part of malloc's block behind the pool and the thread contexts; its size
\* is computed with size_t, which is wide enough.
RingSize(qs, tas) == (TaskHeader + tas) * qs
BlockBytes == 0..(RingSize(queue_size, task_arg_size) - 1)

\* What the build makes of an int product that is too large.
AsInt(x) == ((x + MaxInt + 1) % (2 * (MaxInt + 1))) - (MaxInt + 1)

TaskAt(offset) == AsInt(offset * TaskSize)

Fits(arg_size) == arg_size <= task_arg_size

Step(i) == IF i + 1 = queue_size THEN 0 ELSE i + 1

Init ==
  /\ queue_size \in QueueSizes /\ task_arg_size \in TaskArgSizes
  /\ head = 0 /\ tail = 0
  /\ block = [b \in 0..(RingSize(queue_size, task_arg_size) - 1) |-> 0]
  /\ queue = <<>>
  /\ task = 1

\* The addresses threadpool_add writes, a header and arg_size bytes of task_arg,
\* and those of the slot threadpool_run copies.
Stored(arg_size) == IF arg_size > 0 THEN arg_size ELSE 0
Written(arg_size) == TaskAt(tail) .. (TaskAt(tail) + TaskHeader + Stored(arg_size) - 1)
Copied == TaskAt(head) .. (TaskAt(head) + TaskSize - 1)

Add(arg_size) ==
  /\ Fits(arg_size)
  /\ Len(queue) # queue_size
  /\ block' = [b \in DOMAIN block |-> IF b \in Written(arg_size) THEN task ELSE block[b]]
  /\ tail' = Step(tail)
  /\ queue' = Append(queue, [task |-> task, arg_size |-> Stored(arg_size)])
  /\ task' = (task % TaskIds) + 1
  /\ UNCHANGED <<queue_size, task_arg_size, head>>

Take ==
  /\ queue # <<>>
  /\ head' = Step(head)
  /\ queue' = Tail(queue)
  /\ UNCHANGED <<queue_size, task_arg_size, tail, block, task>>

Next == Take \/ \E arg_size \in ArgSizes : Add(arg_size)

Spec == Init /\ [][Next]_vars

-----------------------------------------------------------------------------
(* Properties *)

\* threadpool_add and threadpool_run access bytes of the block only: whatever
\* arg_size passes the check of threadpool_add, at whatever slot.
AccessInBlock ==
  /\ \A arg_size \in ArgSizes : Fits(arg_size) => Written(arg_size) \subseteq BlockBytes
  /\ Copied \subseteq BlockBytes

\* A queued task keeps its header and its task_arg until it is taken, whatever
\* is written to the slots around it and wherever the ring wraps.
QueuedIntact ==
  \A i \in 1..Len(queue) :
    LET slot == (head + i - 1) % queue_size
    IN  \A b \in 0..(TaskHeader + queue[i].arg_size - 1) :
          block[slot * TaskSize + b] = queue[i].task
=============================================================================
