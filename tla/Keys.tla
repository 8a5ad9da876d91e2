-------------------------------- MODULE Keys --------------------------------
(***************************************************************************)
(* Thread-specific data: a key with a destructor and a thread that has set *)
(* a value for it are associated, in the chain of the key and in that of   *)
(* the thread.  A chain is guarded by a lock of its key or thread, taken   *)
(* in this order; a thread that ends takes its own lock first and only     *)
(* tries the key's.                                                        *)
(***************************************************************************)
EXTENDS Calls

CONSTANTS
  Keys,
  NoKey,
  Destructed,    \* the keys that are created with a destructor
  DESTRUCTOR_ITERATIONS,
  Resets,        \* how many values a thread's destructors set again
  FreeDelete     \* whether keys are deleted while others use or leave them

ASSUME KeysAssumption ==
  /\ NoKey \notin Keys /\ Destructed \subseteq Keys
  /\ DESTRUCTOR_ITERATIONS \in Nat /\ Resets \in Nat /\ FreeDelete \in BOOLEAN

VARIABLES
  key,           \* each key: "none", "live" or "freed"
  threads,       \* key->threads, the chain through nextThread
  keyLock,       \* the thread that holds key->keyLock
  keys,          \* thread->keys, the chain through nextKey
  threadLock,    \* the thread that holds thread->threadLock
  nextAssoc,     \* thread->nextAssoc, by its key
  isSet,         \* whether the thread's value for the key is not NULL
  target,        \* the key that a call is about
  round,         \* iterations in ptw32_callUserDestroyRoutines; 0 outside
  again,         \* assocsRemaining # 0 there
  resets

keyVars == <<key, threads, keyLock, keys, threadLock, nextAssoc, isSet, target, round, again, resets>>

KeysInit ==
  /\ key = [k \in Keys |-> "none"] /\ threads = [k \in Keys |-> <<>>]
  /\ keyLock = [k \in Keys |-> NoThread]
  /\ keys = [t \in Threads |-> <<>>] /\ threadLock = [t \in Threads |-> NoThread]
  /\ nextAssoc = [t \in Threads |-> NoKey]
  /\ isSet = [t \in Threads |-> [k \in Keys |-> FALSE]]
  /\ target = [t \in Threads |-> NoKey]
  /\ round = [t \in Threads |-> 0] /\ again = [t \in Threads |-> FALSE]
  /\ resets = [t \in Threads |-> 0]

Members(chain) == {chain[i] : i \in DOMAIN chain}
First(chain) == IF chain = <<>> THEN NoKey ELSE Head(chain)

\* In a chain each member has one place; the chain without x, and the key
\* behind k in it.
Place(chain, x) == CHOOSE i \in DOMAIN chain : chain[i] = x
Without(chain, x) ==
  [i \in 1..(Len(chain) - 1) |-> IF i < Place(chain, x) THEN chain[i] ELSE chain[i + 1]]
Behind(chain, k) ==
  IF Place(chain, k) = Len(chain) THEN NoKey ELSE chain[Place(chain, k) + 1]

pthread_key_create(t) ==
  /\ In(t, "key_create", "enter")
  /\ \/ key' = [key EXCEPT ![target[t]] = "live"] /\ Return(t, "0")
     \/ \E r \in {"ENOMEM", "EAGAIN"} : Return(t, r) /\ UNCHANGED key
  /\ UNCHANGED <<threads, keyLock, keys, threadLock, nextAssoc, isSet, target, round, again, resets>>

\* ptw32_tkAssocCreate: the new association is the first of both chains.
ptw32_tkAssocCreate(t, k) ==
  /\ threads' = [threads EXCEPT ![k] = <<t>> \o @]
  /\ keys' = [keys EXCEPT ![t] = <<k>> \o @]

\* A faulty version of the next definition: nextAssoc is left.
AssocDestroyKeepsNext(t, k, n) ==
  /\ threads' = [threads EXCEPT ![k] = Without(@, t)]
  /\ keys' = [keys EXCEPT ![t] = Without(@, k)]
  /\ nextAssoc' = [nextAssoc EXCEPT ![t] = n]

\* ptw32_tkAssocDestroy of the association of t and k, when nextAssoc is n.
ptw32_tkAssocDestroy(t, k, n) ==
  /\ threads' = [threads EXCEPT ![k] = Without(@, t)]
  /\ keys' = [keys EXCEPT ![t] = Without(@, k)]
  /\ nextAssoc' = [nextAssoc EXCEPT ![t] = IF n = k THEN Behind(keys[t], k) ELSE n]

\* pthread_setspecific with the value v, NULL or not: what it does with both
\* locks, and the value.
Associated(t, k, v) ==
  IF v /\ k \in Destructed
  THEN /\ keyLock[k] = NoThread /\ threadLock[t] = NoThread
       /\ IF k \in Members(keys[t]) THEN UNCHANGED <<threads, keys>>
          ELSE ptw32_tkAssocCreate(t, k)
  ELSE UNCHANGED <<threads, keys>>
SetValue(t, k, v) == isSet' = [isSet EXCEPT ![t][k] = v] /\ Associated(t, k, v)

pthread_setspecific(t) ==
  /\ In(t, "setspecific", "enter")
  /\ \/ \E v \in BOOLEAN : SetValue(t, target[t], v) /\ Return(t, "0")
     \/ Return(t, "ENOMEM") /\ UNCHANGED <<isSet, threads, keys>>
     \/ \* TlsSetValue fails, and the association stays.
        /\ \E v \in BOOLEAN : Associated(t, target[t], v)
        /\ Return(t, "EAGAIN") /\ UNCHANGED isSet
  /\ UNCHANGED <<key, keyLock, threadLock, nextAssoc, target, round, again, resets>>

pthread_getspecific(t) ==
  In(t, "getspecific", "enter") /\ Return(t, isSet[t][target[t]]) /\ UNCHANGED keyVars

\* pthread_key_delete returns to its caller, or to the destructor that called it.
Deleted(t) ==
  IF round[t] = 0 THEN Return(t, "0")
  ELSE /\ op' = [op EXCEPT ![t] = "exit"] /\ pc' = [pc EXCEPT ![t] = "scan"]
       /\ UNCHANGED <<object, calls, holds, cancelled>>

\* The chain is looked at, ...
DeleteEnter(t) ==
  /\ In(t, "key_delete", "enter")
  /\ Goto(t, IF threads[target[t]] # <<>> /\ target[t] \in Destructed THEN "lock" ELSE "free")
  /\ UNCHANGED keyVars

DeleteLock(t) ==
  /\ In(t, "key_delete", "lock") /\ keyLock[target[t]] = NoThread
  /\ keyLock' = [keyLock EXCEPT ![target[t]] = t]
  /\ Goto(t, "loop")
  /\ UNCHANGED <<key, threads, keys, threadLock, nextAssoc, isSet, target, round, again, resets>>

\* ... and emptied.  The lock is released in every round of the loop, but
\* taken before the loop; a second release waits for ever.
DeleteLoop(t) ==
  /\ In(t, "key_delete", "loop")
  /\ IF threads[target[t]] = <<>>
     THEN Goto(t, "free") /\ UNCHANGED keyVars
     ELSE LET u == Head(threads[target[t]]) IN
          /\ threadLock[u] = NoThread
          /\ threadLock' = [threadLock EXCEPT ![u] = t]
          /\ Goto(t, "unlink")
          /\ UNCHANGED <<key, threads, keyLock, keys, nextAssoc, isSet, target, round, again, resets>>

DeleteUnlink(t) ==
  /\ In(t, "key_delete", "unlink")
  /\ LET k == target[t]
         u == Head(threads[k])
     IN ptw32_tkAssocDestroy(u, k, nextAssoc[u])
        /\ threadLock' = [threadLock EXCEPT ![u] = NoThread]
  /\ Goto(t, "release")
  /\ UNCHANGED <<key, keyLock, isSet, target, round, again, resets>>

DeleteRelease(t) ==
  /\ In(t, "key_delete", "release") /\ keyLock[target[t]] = t
  /\ keyLock' = [keyLock EXCEPT ![target[t]] = NoThread]
  /\ Goto(t, "loop")
  /\ UNCHANGED <<key, threads, keys, threadLock, nextAssoc, isSet, target, round, again, resets>>

\* The lock is taken and released once more before the key goes.
DeleteFree(t) ==
  /\ In(t, "key_delete", "free")
  /\ target[t] \in Destructed => keyLock[target[t]] = NoThread
  /\ key' = [key EXCEPT ![target[t]] = "freed"]
  /\ isSet' = [u \in Threads |-> [isSet[u] EXCEPT ![target[t]] = FALSE]]
  /\ Deleted(t)
  /\ UNCHANGED <<threads, keyLock, keys, threadLock, nextAssoc, target, round, again, resets>>

\* ptw32_callUserDestroyRoutines: a round through the thread's chain, ...
ExitRound(t) ==
  /\ In(t, "exit", "enter") /\ threadLock[t] = NoThread
  /\ nextAssoc' = [nextAssoc EXCEPT ![t] = First(keys[t])]
  /\ round' = [round EXCEPT ![t] = @ + 1] /\ again' = [again EXCEPT ![t] = FALSE]
  /\ Goto(t, "scan")
  /\ UNCHANGED <<key, threads, keyLock, keys, threadLock, isSet, target, resets>>

\* ... one association at a time, when both locks are free: a value is taken
\* for its destructor, and an association without one is destroyed, ...
ExitScan(t) ==
  /\ In(t, "exit", "scan") /\ threadLock[t] = NoThread /\ nextAssoc[t] # NoKey
  /\ LET k == nextAssoc[t]
         n == Behind(keys[t], k)
     IN /\ keyLock[k] = NoThread
        /\ isSet' = [isSet EXCEPT ![t][k] = FALSE]
        /\ IF isSet[t][k] /\ round[t] <= DESTRUCTOR_ITERATIONS
           THEN /\ nextAssoc' = [nextAssoc EXCEPT ![t] = n]
                /\ again' = [again EXCEPT ![t] = TRUE]
                /\ Goto(t, "destructor") /\ UNCHANGED <<threads, keys>>
           ELSE ptw32_tkAssocDestroy(t, k, n) /\ UNCHANGED <<callVars, again>>
  /\ UNCHANGED <<key, keyLock, threadLock, target, round, resets>>

\* ... and another round after one with destructors.
ExitRoundEnds(t) ==
  /\ In(t, "exit", "scan") /\ threadLock[t] = NoThread /\ nextAssoc[t] = NoKey
  /\ IF again[t] THEN Goto(t, "enter") ELSE Exit(t)
  /\ UNCHANGED keyVars

Ending(t) == Inside(t) /\ (op[t] = "exit" \/ round[t] > 0)

\* A key is deleted when no other call is about it.  The loop of
\* pthread_key_delete is right for one association, and when no thread ends
\* meanwhile: FreeDelete says whether the program knows.
MayDelete(t, k) ==
  /\ key[k] = "live" /\ \A u \in Threads \ {t} : Inside(u) => target[u] # k
  /\ \/ FreeDelete
     \/ Len(threads[k]) <= 1 /\ \A u \in Threads \ {t} : ~Ending(u)

NoDelete(k) == \A u \in Threads : op[u] = "key_delete" => target[u] # k

\* The program's destructor sets a value, or deletes a key, or neither.
Destructor(t) ==
  /\ In(t, "exit", "destructor")
  /\ \/ Goto(t, "scan") /\ UNCHANGED <<isSet, threads, keys, resets, target>>
     \/ /\ resets[t] < Resets /\ resets' = [resets EXCEPT ![t] = @ + 1]
        /\ \E k \in Keys : key[k] = "live" /\ NoDelete(k) /\ SetValue(t, k, TRUE)
        /\ Goto(t, "scan") /\ UNCHANGED target
     \/ \E k \in Keys :
          /\ MayDelete(t, k) /\ target' = [target EXCEPT ![t] = k]
          /\ op' = [op EXCEPT ![t] = "key_delete"] /\ pc' = [pc EXCEPT ![t] = "enter"]
          /\ UNCHANGED <<object, calls, holds, cancelled, isSet, threads, keys, resets>>
  /\ UNCHANGED <<key, keyLock, threadLock, nextAssoc, round, again>>

pthread_key_delete(t) ==
  \/ DeleteEnter(t) \/ DeleteLock(t) \/ DeleteLoop(t) \/ DeleteUnlink(t)
  \/ DeleteRelease(t) \/ DeleteFree(t)

ptw32_callUserDestroyRoutines(t) == ExitRound(t) \/ ExitScan(t) \/ ExitRoundEnds(t) \/ Destructor(t)

KeysNext(t) ==
  object = "keys" /\
  ( \/ pthread_key_create(t) \/ pthread_setspecific(t) \/ pthread_getspecific(t) \/ pthread_key_delete(t)
    \/ ptw32_callUserDestroyRoutines(t) )

\* The program creates each key once, uses it while it is there, and ends
\* its threads one by one or together.
KeysCalls(t) ==
  /\ \/ \E k \in Keys :
          /\ target' = [target EXCEPT ![t] = k]
          /\ \/ /\ key[k] = "none" /\ \A u \in Threads : op[u] = "key_create" => target[u] # k
                /\ Call(t, "keys", "key_create")
             \/ key[k] = "live" /\ NoDelete(k) /\ \E f \in {"setspecific", "getspecific"} : Call(t, "keys", f)
             \/ MayDelete(t, k) /\ NoDelete(k) /\ Call(t, "keys", "key_delete")
     \/ /\ FreeDelete \/ \A u \in Threads : op[u] # "key_delete"
        /\ Call(t, "keys", "exit") /\ UNCHANGED target
  /\ UNCHANGED <<key, threads, keyLock, keys, threadLock, nextAssoc, isSet, round, again, resets>>

\* The two chains agree, the scan of a thread that ends stands at an
\* association that is still there, no association outlives its key, and a
\* thread that has ended leaves no value that a destructor is owed.
TsdInStep ==
  object = "keys" =>
    /\ \A t \in Threads, k \in Keys :
         /\ t \in Members(threads[k]) <=> k \in Members(keys[t])
         /\ isSet[t][k] /\ k \in Destructed => k \in Members(keys[t]) \/ ~NoDelete(k)
         /\ key[k] # "live" => threads[k] = <<>>
         /\ pc[t] = "exited" /\ NoDelete(k) => ~(k \in Destructed /\ isSet[t][k]) /\ keys[t] = <<>>
    /\ \A t \in Threads :
         op[t] \in {"exit", "key_delete"} /\ round[t] > 0 /\ Inside(t) => nextAssoc[t] \in Members(keys[t]) \cup {NoKey}

\* pthread_key_delete holds the key's lock whenever it destroys one of its
\* associations.
DeleteGuarded ==
  \A t \in Threads : In(t, "key_delete", "unlink") => keyLock[target[t]] = t
=============================================================================
