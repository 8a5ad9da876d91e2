--------------------------- MODULE ThreadsProofs ---------------------------
(***************************************************************************)
(* A theorem about the life of threads in pthreads-w32, for any number of  *)
(* threads, of structures and of calls, whichever of the threads are       *)
(* detached, joined and cancelled, and whenever.  The invariant says whose *)
(* a structure is, who has still to see to it, and what is known of the    *)
(* handles that calls are about; Frame shows that steps of a few kinds     *)
(* keep it, and there is a lemma for each action that it is of these.      *)
(***************************************************************************)
EXTENDS Threads, SequenceTheorems, TLAPS

\* A program that creates, joins, detaches and cancels threads: its calls, the
\* ends of its threads, and the steps of the library.
ThreadsStep ==
  \E t \in Threads :
    \/ ThreadsNext(t) \/ PopCall(t) \/ ThreadsCalls(t)
    \/ object = "threads" /\ StartReturns(t)

ThreadsSpec ==
  CallsInit({"threads"}) /\ ThreadsInit /\ [][ThreadsStep]_<<callVars, threadVars>>

-----------------------------------------------------------------------------
(* The invariant *)

Handles == Structs \X Nat

\* The use of the structure that h names is over.
Stale(h) == h[2] < st[h[1]].x

\* Thread t is in a call that needs the thread of h to be there.
IsAbout(t, h) == Inside(t) /\ op[t] \in {"join", "detach", "cancel"} /\ arg[t] = h
Detaches(t, h) == Inside(t) /\ op[t] = "detach" /\ arg[t] = h

Struct ==
  [x : Nat, state : 0..7, detached : BOOLEAN, enabled : BOOLEAN, async : BOOLEAN,
   event : BOOLEAN, threadH : Threads \cup {NoThread}, implicit : BOOLEAN]

LifeTypes ==
  /\ st \in [Structs -> Struct]
  /\ reuse \in Seq(Structs) /\ fresh \subseteq Structs
  /\ self \in [Threads -> Structs \cup {NoStruct}]
  /\ arg \in [Threads -> (Structs \cup {NoStruct}) \X Nat]
  /\ os \in [Threads -> {"none", "started", "running", "ended"}]
  /\ pc = [t \in Threads |-> pc[t]] /\ op = [t \in Threads |-> op[t]]
  /\ given \subseteq Handles /\ joinable \subseteq Handles

\* A structure is in the queue once, or not allocated, or in use.
Queue ==
  /\ \A i, j \in DOMAIN reuse : i # j => reuse[i] # reuse[j]
  /\ \A i \in DOMAIN reuse : reuse[i] \notin fresh
  /\ \A s \in Structs : InUse(s) <=> st[s].state # Reuse

\* Whose a structure in use is: of a thread about to start, of one that runs,
\* or of one that ended and is to be joined or detached; ...
Owns(t, s) ==
  /\ st[s].threadH = t
  /\ \/ os[t] = "started" /\ arg[t] = Handle(s)
     \/ self[t] = s
     \/ os[t] = "ended" /\ st[s].state = Last /\ ~st[s].detached
Owned(s) == InUse(s) => \E t \in Threads : Owns(t, s)

\* ... and who is to see to it, unless the thread does itself.
Kept(s) ==
  (InUse(s) /\ ~st[s].detached) =>
    Handle(s) \in joinable \/ \E t \in Threads : Detaches(t, Handle(s))

\* A handle that can be joined is good, and one that was given away never
\* names a later use.
Good(h) == ~Stale(h) /\ Current(h) /\ InUse(h[1]) /\ ~st[h[1]].detached
Past(h) == h[2] <= st[h[1]].x /\ (Current(h) => InUse(h[1]))

\* Where thread t is in its life ...
Stage(t) ==
  /\ os[t] # "running" => ~Inside(t) /\ self[t] = NoStruct
  /\ os[t] = "started" =>
       /\ arg[t][1] \in Structs /\ Current(arg[t]) /\ InUse(arg[t][1])
       /\ st[arg[t][1]].threadH = t /\ ~st[arg[t][1]].async /\ st[arg[t][1]].state # Last
  /\ self[t] # NoStruct =>
       /\ InUse(self[t]) /\ Mine(t).threadH = t
       /\ Mine(t).state = Last => pc[t] \in {"last", "gone"}
  /\ Async(t) => op[t] \notin {"join", "detach", "cancel", "create"}
  /\ pc[t] \in {"throw", "destructors", "last", "cancelable"} => self[t] # NoStruct
  /\ pc[t] = "throw" => op[t] # "detach"
  /\ pc[t] = "last" => Mine(t).state = Last
  /\ (pc[t] = "gone" /\ self[t] # NoStruct) => Mine(t).state = Last /\ ~Mine(t).detached

\* ... and what is known of the handle its call is about.
Knows(t) ==
  /\ (Inside(t) /\ op[t] \in {"join", "detach", "cancel"}) =>
       arg[t] \in Handles /\ arg[t][2] <= st[arg[t][1]].x
  /\ (Inside(t) /\ op[t] = "join") => arg[t] \in joinable \/ Stale(arg[t])
  /\ (Inside(t) /\ op[t] = "detach") => Stale(arg[t]) \/ (Good(arg[t]) /\ arg[t] \notin joinable)
  /\ In(t, "detach", "destroy") => ~Stale(arg[t]) /\ st[arg[t][1]].state = Last
  /\ In(t, "cancel", "pending") => InUse(arg[t][1]) /\ st[arg[t][1]].state # Last
  /\ In(t, "create", "return") => arg[t] \in Handles /\ Past(arg[t]) /\ arg[t] \notin given

\* Two threads are never about the same thread that is there, nor create the
\* same.
Separate(t, u) ==
  /\ \A h \in Handles : IsAbout(t, h) /\ IsAbout(u, h) => Stale(h)
  /\ In(t, "create", "return") /\ In(u, "create", "return") => arg[t] # arg[u]

LifeInv ==
  /\ LifeTypes /\ Queue
  /\ \A s \in Structs : Owned(s) /\ Kept(s)
  /\ \A h \in joinable : Good(h)
  /\ \A h \in given : Past(h)
  /\ \A t \in Threads : Stage(t) /\ Knows(t)
  /\ \A t, u \in Threads : t # u => Separate(t, u)

\* Until the library has terminated.
UpInv == object = "threads" /\ (process = "up" => LifeInv)

-----------------------------------------------------------------------------
(* What a step may do to a structure and to a thread *)

Uses(t, s) ==
  \/ self[t] = s
  \/ os[t] = "started" /\ arg[t][1] = s
  \/ In(t, "cancel", "pending") /\ arg[t][1] = s
  \/ In(t, "detach", "destroy") /\ arg[t] = Handle(s)

\* A structure goes on, is put into the queue, or is taken for a new thread.
Goes(s) ==
  /\ InUse(s)' = InUse(s) /\ st'[s].x = st[s].x /\ st'[s].threadH = st[s].threadH
  /\ st[s].state = Last => st'[s].state = Last
  /\ st'[s].state = Last => st[s].state = Last \/ (Unlocked(s) /\ os[st[s].threadH] # "started")
  /\ st'[s].async => st[s].async \/ os[st[s].threadH] # "started"
  /\ \/ st'[s].detached = st[s].detached
     \/ /\ st'[s].detached /\ st'[s].state # Last
        /\ Handle(s) \notin joinable' /\ \A t \in Threads : ~Detaches(t, Handle(s))'

\* Nothing happens to thread t, ...
Stays(t) ==
  /\ pc'[t] = pc[t] /\ op'[t] = op[t] /\ os'[t] = os[t] /\ self'[t] = self[t] /\ arg'[t] = arg[t]
  /\ Async(t)' => Async(t)
  /\ (self[t] # NoStruct /\ Mine(t)'.state = Last) => Mine(t).state = Last

Pushed(s) ==
  /\ ~InUse(s)' /\ st'[s].x = st[s].x + 1 /\ Handle(s) \notin joinable'
  /\ \A t \in Threads : Stays(t) => ~Uses(t, s)

Taken(s) ==
  /\ ~InUse(s) /\ InUse(s)' /\ st'[s].x = st[s].x
  /\ Owned(s)' /\ Kept(s)'

\* ... or what does leaves it in order.
Moves(t) ==
  /\ Stage(t)' /\ Knows(t)'
  /\ \A s \in Structs : InUse(s)' /\ Owns(t, s) => Owns(t, s)'
  /\ \A s \in Structs :
       InUse(s)' /\ Detaches(t, Handle(s)) => Detaches(t, Handle(s))' \/ st'[s].detached
  /\ \A h \in Handles :
       IsAbout(t, h)' => IsAbout(t, h) \/ Stale(h) \/ \A u \in Threads \ {t} : ~IsAbout(u, h)'
  /\ In(t, "create", "return")' =>
       \A u \in Threads \ {t} : In(u, "create", "return")' => arg'[u] # arg'[t]

\* What the kinds of steps mean for handles.
LEMMA HandlesAge ==
  ASSUME LifeInv, LifeTypes', NEW h \in Handles, Goes(h[1]) \/ Pushed(h[1]) \/ Taken(h[1])
  PROVE  /\ h[1] \in Structs /\ h[2] \in Nat /\ st[h[1]].x \in Nat /\ st'[h[1]].x \in Nat
         /\ Stale(h) => Stale(h)'
         /\ h[2] <= st[h[1]].x => h[2] <= st'[h[1]].x
         /\ ~Pushed(h[1]) => st'[h[1]].x = st[h[1]].x
         /\ Past(h) => Past(h)'
<1>1. h[1] \in Structs /\ h[2] \in Nat /\ st[h[1]].x \in Nat /\ st'[h[1]].x \in Nat
  BY DEF Handles, LifeInv, LifeTypes, Struct
<1>2. st'[h[1]].x = st[h[1]].x \/ st'[h[1]].x = st[h[1]].x + 1
  BY DEF Goes, Pushed, Taken
<1>3. ~Pushed(h[1]) => st'[h[1]].x = st[h[1]].x
  BY DEF Goes, Taken
<1>4. Past(h) => Past(h)'
  <2>1. CASE Goes(h[1])
    BY <1>1, <2>1 DEF Goes, Past, Current
  <2>2. CASE Pushed(h[1])
    BY <1>1, <2>2 DEF Pushed, Past, Current
  <2>3. CASE Taken(h[1])
    BY <1>1, <2>3 DEF Taken, Past, Current
  <2> QED BY <2>1, <2>2, <2>3
<1> QED BY <1>1, <1>2, <1>3, <1>4 DEF Stale

\* A good handle stays good while somebody may join or detach the thread.
LEMMA StaysGood ==
  ASSUME LifeInv, LifeTypes', NEW h \in Handles, Good(h), Goes(h[1]) \/ Pushed(h[1]) \/ Taken(h[1])
  PROVE  /\ h = Handle(h[1])
         /\ Pushed(h[1]) => h \notin joinable' /\ Stale(h)'
         /\ ~Pushed(h[1]) /\ (h \in joinable' \/ \E t \in Threads : Detaches(t, h)') => Good(h)'
<1>1. h[1] \in Structs /\ h[2] \in Nat /\ st[h[1]].x \in Nat /\ st'[h[1]].x \in Nat
  BY HandlesAge
<1>2. h = Handle(h[1]) /\ h[2] = st[h[1]].x /\ InUse(h[1]) /\ ~st[h[1]].detached
  BY DEF Handles, Handle, Good, Current
<1>3. ASSUME ~Pushed(h[1]), h \in joinable' \/ (\E t \in Threads : Detaches(t, h)') PROVE Good(h)'
  <2>1. Goes(h[1])
    BY <1>2, <1>3 DEF Taken
  <2>2. ~st'[h[1]].detached /\ InUse(h[1])'
    <3>1. InUse(h[1])' /\ Handle(h[1])' = h
      BY <1>2, <2>1 DEF Goes, Handle
    <3>2. CASE h \in joinable'
      BY <1>2, <2>1, <3>1, <3>2 DEF Goes
    <3>3. CASE \E t \in Threads : Detaches(t, h)'
      <4>1. \E t \in Threads : Detaches(t, Handle(h[1]))'
        BY <3>1, <3>3 DEF Detaches
      <4> QED BY <1>2, <2>1, <3>1, <4>1 DEF Goes
    <3> QED BY <1>3, <3>1, <3>2, <3>3
  <2> QED BY <1>1, <1>2, <2>1, <2>2 DEF Goes, Good, Current, Stale
<1> QED BY <1>1, <1>2, <1>3 DEF Pushed, Stale

\* What is known of a thread that does nothing goes on being true: where it is
\* in its life, ...
LEMMA StaysInStage ==
  ASSUME LifeInv, LifeTypes', NEW t \in Threads, Stays(t),
         \A s \in Structs : Goes(s) \/ Pushed(s) \/ Taken(s)
  PROVE  Stage(t)'
<1> USE DEF LifeInv, LifeTypes
<1>1. Stage(t) /\ Knows(t)
  OBVIOUS
<1>2. pc'[t] = pc[t] /\ op'[t] = op[t] /\ os'[t] = os[t] /\ self'[t] = self[t] /\ arg'[t] = arg[t]
  BY DEF Stays
<1>3. \A s \in Structs : Uses(t, s) => ~Pushed(s)
  BY DEF Pushed
<1>4. os'[t] # "running" => ~Inside(t)' /\ self'[t] = NoStruct
  BY <1>1, <1>2 DEF Stage, Inside
<1>5. ASSUME os'[t] = "started"
      PROVE  /\ arg'[t][1] \in Structs /\ Current(arg[t])' /\ InUse(arg[t][1])'
             /\ st'[arg'[t][1]].threadH = t /\ ~st'[arg'[t][1]].async /\ st'[arg'[t][1]].state # Last
  <2>1. PICK s \in Structs : s = arg[t][1]
    BY <1>1, <1>2, <1>5 DEF Stage
  <2>2. InUse(s) /\ st[s].x = arg[t][2] /\ st[s].threadH = t /\ ~st[s].async /\ st[s].state # Last
    BY <1>1, <1>2, <1>5, <2>1 DEF Stage, Current
  <2>3. Goes(s)
    BY <1>2, <1>3, <1>5, <2>1, <2>2 DEF Uses, Taken
  <2>4. InUse(arg[t][1])' = InUse(s)'
    BY <1>2, <2>1 DEF InUse
  <2>5. Current(arg[t])'
    BY <1>2, <2>1, <2>2, <2>3 DEF Current, Goes
  <2> QED BY <1>2, <1>5, <2>1, <2>2, <2>3, <2>4, <2>5 DEF Goes
<1>6. ASSUME self'[t] # NoStruct
      PROVE  /\ InUse(self[t])' /\ Mine(t)'.threadH = t
             /\ Mine(t)'.state = Last => pc'[t] \in {"last", "gone"}
             /\ (pc[t] = "last" => Mine(t)'.state = Last)
             /\ pc[t] = "gone" => Mine(t)'.state = Last /\ ~Mine(t)'.detached
  <2>1. PICK s \in Structs : s = self[t]
    BY <1>2, <1>6
  <2>2. InUse(s) /\ st[s].threadH = t
    BY <1>1, <1>2, <1>6, <2>1 DEF Stage, Mine
  <2>3. Goes(s)
    BY <1>2, <1>3, <2>1, <2>2 DEF Uses, Taken
  <2>4. InUse(self[t])' = InUse(s)' /\ Mine(t)' = st'[s] /\ Mine(t) = st[s]
    BY <1>2, <2>1 DEF InUse, Mine
  <2>5. st'[s].state = Last => st[s].state = Last
    BY <1>2, <1>6, <2>4 DEF Stays
  <2> QED BY <1>1, <1>2, <1>6, <2>1, <2>2, <2>3, <2>4, <2>5 DEF Goes, Stage
<1>7. Async(t)' => op'[t] \notin {"join", "detach", "cancel", "create"}
  BY <1>1, <1>2 DEF Stays, Stage
<1> QED BY <1>1, <1>2, <1>4, <1>5, <1>6, <1>7 DEF Stage

\* The handles that the program may use, after the step.
Passed ==
  /\ \A h \in joinable' : h \in joinable \/ (Good(h)' /\ ~InUse(h[1]))
  /\ \A h \in joinable : h \in joinable' \/ \E t \in Threads : Detaches(t, h)'
  /\ \A h \in given' :
       h \in given \/ \E t \in Threads : In(t, "create", "return") /\ arg[t] = h /\ ~In(t, "create", "return")'

\* ... that nobody else is about the same thread, ...
LEMMA StaysSeparate ==
  ASSUME LifeInv, LifeTypes', NEW t \in Threads, NEW u \in Threads, t # u,
         \A s \in Structs : Goes(s) \/ Pushed(s) \/ Taken(s),
         Stays(t) \/ Moves(t), Stays(u) \/ Moves(u)
  PROVE  Separate(t, u)'
<1>1. Separate(t, u) /\ Separate(u, t)
  BY DEF LifeInv
<1>2. ASSUME NEW h \in Handles, IsAbout(t, h)', IsAbout(u, h)' PROVE Stale(h)'
  <2>1. Stale(h) => Stale(h)'
    <3>1. h[1] \in Structs
      BY DEF Handles
    <3> QED BY <3>1, HandlesAge
  <2>2. IsAbout(t, h) \/ Stale(h)
    BY <1>2 DEF Stays, Moves, IsAbout, Inside
  <2>3. IsAbout(u, h) \/ Stale(h)
    BY <1>2 DEF Stays, Moves, IsAbout, Inside
  <2> QED BY <1>1, <2>1, <2>2, <2>3 DEF Separate
<1>3. ASSUME In(t, "create", "return")', In(u, "create", "return")' PROVE arg'[t] # arg'[u]
  BY <1>1, <1>3 DEF Separate, Stays, Moves, In
<1> QED BY <1>2, <1>3 DEF Separate, Handles

\* ... and what its call is about.
LEMMA StaysInTouch ==
  ASSUME LifeInv, LifeTypes', NEW t \in Threads, Stays(t), Passed,
         \A s \in Structs : Goes(s) \/ Pushed(s) \/ Taken(s), \A u \in Threads : Stays(u) \/ Moves(u)
  PROVE  Knows(t)'
<1>1. Stage(t) /\ Knows(t)
  BY DEF LifeInv
<1>2. pc'[t] = pc[t] /\ op'[t] = op[t] /\ arg'[t] = arg[t]
  BY DEF Stays
<1>3. \A h \in Handles : h[1] \in Structs /\ (Goes(h[1]) \/ Pushed(h[1]) \/ Taken(h[1]))
  BY DEF Handles
<1>4. \A h \in Handles : (Stale(h) => Stale(h)') /\ (h[2] <= st[h[1]].x => h[2] <= st'[h[1]].x) /\ (Past(h) => Past(h)')
  BY <1>3, HandlesAge
<1>5. ASSUME Inside(t)', op'[t] \in {"join", "detach", "cancel"}
      PROVE  arg[t] \in Handles /\ arg'[t] \in Handles /\ arg'[t][2] <= st'[arg'[t][1]].x
  BY <1>1, <1>2, <1>4, <1>5 DEF Knows, Inside
<1>6. ASSUME Inside(t)', op'[t] = "join" PROVE arg'[t] \in joinable' \/ Stale(arg[t])'
  <2>1. PICK h \in Handles : h = arg[t]
    BY <1>5, <1>6
  <2>2. CASE Stale(h)
    BY <1>2, <1>4, <2>1, <2>2 DEF Stale
  <2>3. CASE h \in joinable' \/ ~\E u \in Threads : Detaches(u, h)'
    BY <1>1, <1>2, <1>4, <1>6, <2>1, <2>3 DEF Knows, Inside, Passed, Stale
  <2>4. ASSUME NEW u \in Threads, Detaches(u, h)' PROVE Stale(h)'
    <3>1. u # t
      BY <1>6, <2>4 DEF Detaches
    <3>2. IsAbout(t, h)' /\ IsAbout(u, h)'
      BY <1>2, <1>6, <2>1, <2>4 DEF Detaches, IsAbout
    <3> QED BY <3>1, <3>2, StaysSeparate DEF Separate
  <2> QED BY <1>2, <2>1, <2>2, <2>3, <2>4 DEF Stale
<1>7. ASSUME Inside(t)', op'[t] = "detach"
      PROVE  /\ Stale(arg[t])' \/ (Good(arg[t])' /\ arg'[t] \notin joinable')
             /\ pc'[t] = "destroy" => ~Stale(arg[t])' /\ st'[arg'[t][1]].state = Last
  <2>1. PICK h \in Handles : h = arg[t]
    BY <1>5, <1>7
  <2>2. ASSUME Stale(h) PROVE Stale(h)' /\ pc[t] # "destroy"
    BY <1>1, <1>2, <1>4, <1>7, <2>1, <2>2 DEF Knows, In
  <2>3. ASSUME ~Stale(h)
        PROVE  /\ Stale(h)' \/ (Good(h)' /\ h \notin joinable')
               /\ pc[t] = "destroy" => ~Stale(h)' /\ st'[h[1]].state = Last
    <3>1. Good(h) /\ h \notin joinable /\ (pc[t] = "destroy" => st[h[1]].state = Last)
      BY <1>1, <1>2, <1>7, <2>1, <2>3 DEF Knows, In, Inside
    <3>2. Detaches(t, h)'
      BY <1>2, <1>7, <2>1 DEF Detaches
    <3>3. /\ h = Handle(h[1]) /\ (Pushed(h[1]) => Stale(h)') /\ (~Pushed(h[1]) => Good(h)')
      BY <1>3, <3>1, <3>2, StaysGood
    <3>4. h \notin joinable'
      BY <3>1 DEF Passed, Good
    <3>5. ASSUME pc[t] = "destroy" PROVE Goes(h[1])
      <4>1. Uses(t, h[1])
        BY <1>2, <1>7, <2>1, <3>3, <3>5 DEF Uses, In
      <4> QED BY <1>3, <3>1, <4>1 DEF Pushed, Taken, Good
    <3>6. Goes(h[1]) => (st[h[1]].state = Last => st'[h[1]].state = Last) /\ st'[h[1]].x = st[h[1]].x
      BY DEF Goes
    <3> QED BY <2>3, <3>1, <3>3, <3>4, <3>5, <3>6 DEF Stale
  <2>4. (Stale(arg[t])' <=> Stale(h)') /\ (Good(arg[t])' <=> Good(h)')
    BY <1>2, <2>1 DEF Stale, Good, Current, InUse
  <2> QED BY <1>2, <2>1, <2>2, <2>3, <2>4
<1>8. ASSUME In(t, "cancel", "pending")' PROVE InUse(arg[t][1])' /\ st'[arg'[t][1]].state # Last
  <2>1. In(t, "cancel", "pending") /\ Inside(t)
    BY <1>2, <1>8 DEF In, Inside
  <2>2. PICK s \in Structs : s = arg[t][1]
    BY <1>1, <2>1 DEF Knows, In, Handles
  <2>3. InUse(s) /\ st[s].state # Last /\ Uses(t, s) /\ ~Unlocked(s)
    BY <1>1, <2>1, <2>2 DEF Knows, Uses, Unlocked
  <2>4. Goes(s)
    BY <2>3 DEF Pushed, Taken
  <2>5. InUse(s)' /\ st'[s].state # Last
    BY <2>3, <2>4 DEF Goes
  <2> QED BY <1>2, <2>2, <2>5 DEF InUse
<1>9. ASSUME In(t, "create", "return")' PROVE arg'[t] \in Handles /\ Past(arg[t])' /\ arg'[t] \notin given'
  <2>1. In(t, "create", "return")
    BY <1>2, <1>9 DEF In
  <2>2. PICK h \in Handles : h = arg[t] /\ Past(h) /\ h \notin given
    BY <1>1, <2>1 DEF Knows
  <2>3. Past(arg[t])' <=> Past(h)'
    BY <1>2, <2>2 DEF Past, Current, InUse
  <2>4. h \notin given'
    <3>1. ASSUME NEW u \in Threads, In(u, "create", "return"), arg[u] = h, ~In(u, "create", "return")' PROVE FALSE
      BY <1>9, <2>1, <2>2, <3>1 DEF LifeInv, Separate
    <3> QED BY <2>2, <3>1 DEF Passed
  <2> QED BY <1>2, <1>4, <2>2, <2>3, <2>4
<1> QED BY <1>5, <1>6, <1>7, <1>8, <1>9 DEF Knows, In, Inside

\* Every step of the system is one of these kinds.
LEMMA Frame ==
  ASSUME LifeInv, LifeTypes', Queue', Passed,
         \A s \in Structs : Goes(s) \/ Pushed(s) \/ Taken(s), \A t \in Threads : Stays(t) \/ Moves(t)
  PROVE  LifeInv'
<1>1. ASSUME NEW s \in Structs PROVE Owned(s)' /\ Kept(s)'
  <2>1. CASE Goes(s)
    <3>1. Handle(s)' = Handle(s) /\ Handle(s) \in Handles /\ ~Stale(Handle(s))
      BY <2>1 DEF Goes, Handle, Handles, Stale, LifeInv, LifeTypes, Struct
    <3>2. ASSUME NEW t \in Threads, InUse(s)', Owns(t, s), Stays(t) PROVE Owns(t, s)'
      BY <2>1, <3>1, <3>2 DEF Goes, Owns, Stays
    <3>3. Owned(s)'
      BY <2>1, <3>2 DEF Goes, Owned, LifeInv, Moves
    <3>4. ASSUME NEW t \in Threads, InUse(s)', ~st'[s].detached, Detaches(t, Handle(s)) PROVE Detaches(t, Handle(s))'
      <4>1. Stays(t) => Detaches(t, Handle(s))'
        BY <3>1, <3>4 DEF Stays, Detaches, Inside
      <4> QED BY <3>4, <4>1 DEF Moves
    <3>5. ASSUME InUse(s)', ~st'[s].detached PROVE Handle(s)' \in joinable' \/ \E t \in Threads : Detaches(t, Handle(s))'
      <4>1. InUse(s) /\ ~st[s].detached
        BY <2>1, <3>5 DEF Goes
      <4>2. Handle(s) \in joinable \/ \E t \in Threads : Detaches(t, Handle(s))
        BY <4>1 DEF LifeInv, Kept
      <4>3. CASE Handle(s) \in joinable
        <5>1. Handle(s) \in joinable' \/ \E t \in Threads : Detaches(t, Handle(s))'
          BY <3>1, <4>3 DEF Passed, Detaches
        <5> QED BY <3>1, <5>1
      <4> QED BY <3>4, <3>5, <4>2, <4>3
    <3> QED BY <3>3, <3>5 DEF Kept
  <2>2. CASE Pushed(s)
    BY <2>2 DEF Pushed, Owned, Kept
  <2>3. CASE Taken(s)
    BY <2>3 DEF Taken
  <2> QED BY <2>1, <2>2, <2>3
<1>2. ASSUME NEW h \in joinable' PROVE Good(h)'
  <2>1. CASE h \in joinable
    <3>1. h \in Handles /\ Good(h) /\ h[1] \in Structs
      BY <2>1 DEF LifeInv, LifeTypes, Handles
    <3> QED BY <1>2, <3>1, StaysGood
  <2> QED BY <1>2, <2>1 DEF Passed
<1>3. ASSUME NEW h \in given' PROVE Past(h)'
  <2>1. h \in Handles /\ Past(h)
    <3>1. ASSUME NEW t \in Threads, In(t, "create", "return"), arg[t] = h PROVE h \in Handles /\ Past(h)
      BY <3>1 DEF LifeInv, Knows
    <3>2. h \in given => h \in Handles /\ Past(h)
      BY DEF LifeInv, LifeTypes
    <3> QED BY <1>3, <3>1, <3>2 DEF Passed
  <2>2. h[1] \in Structs
    BY <2>1 DEF Handles
  <2> QED BY <2>1, <2>2, HandlesAge
<1>4. ASSUME NEW t \in Threads PROVE Stage(t)' /\ Knows(t)'
  <2>1. CASE Stays(t)
    BY <2>1, StaysInStage, StaysInTouch
  <2> QED BY <2>1 DEF Moves
<1>5. \A t, u \in Threads : t # u => Separate(t, u)'
  BY StaysSeparate
<1> QED BY <1>1, <1>2, <1>3, <1>4, <1>5 DEF LifeInv

-----------------------------------------------------------------------------
(* Steps of one thread, inside its call *)

GoesTo(t, f, l) == pc' = [pc EXCEPT ![t] = l] /\ op' = [op EXCEPT ![t] = f]

\* Where the steps of a call lead, ...
LEMMA CallGoes ==
  ASSUME LifeTypes, NEW t \in Threads, NEW l, NEW r, NEW h
  PROVE  /\ Goto(t, l) => GoesTo(t, op[t], l)
         /\ ReturnHolding(t, r, h) => GoesTo(t, "none", "idle")
         /\ Return(t, r) => GoesTo(t, "none", "idle")
BY DEF Goto, Return, ReturnHolding, GoesTo, LifeTypes

\* ... and that no other thread moves.
LEMMA Placed ==
  ASSUME LifeTypes, NEW t \in Threads, NEW f, NEW l, GoesTo(t, f, l)
  PROVE  /\ pc' = [u \in Threads |-> pc'[u]] /\ op' = [u \in Threads |-> op'[u]]
         /\ pc'[t] = l /\ op'[t] = f
         /\ \A u \in Threads \ {t} : pc'[u] = pc[u] /\ op'[u] = op[u]
BY DEF GoesTo, LifeTypes

\* A thread has a structure of its own, or none.
LEMMA OwnStruct ==
  ASSUME LifeInv, NEW t \in Threads, self[t] # NoStruct
  PROVE  /\ self[t] \in Structs /\ InUse(self[t]) /\ st[self[t]].threadH = t /\ os[t] = "running"
         /\ Mine(t) = st[self[t]]
         /\ \A u \in Threads \ {t} : self[u] # self[t] /\ (os[u] = "started" => arg[u][1] # self[t])
BY StructsAssumption DEF LifeInv, LifeTypes, Stage, Mine

\* The fields of a structure in use that its use does not rest on change.
LEMMA StructChanges ==
  ASSUME LifeInv, NEW s \in Structs, NEW r, InUse(s), st' \in [Structs -> Struct], r = st'[s],
         \A z \in Structs \ {s} : st'[z] = st[z], UNCHANGED <<reuse, fresh>>,
         r.x = st[s].x, r.threadH = st[s].threadH, r.detached = st[s].detached, r.state # Reuse,
         st[s].state = Last => r.state = Last,
         r.state = Last => st[s].state = Last \/ (Unlocked(s) /\ os[st[s].threadH] # "started"),
         r.async => st[s].async \/ os[st[s].threadH] # "started"
  PROVE  Queue' /\ \A z \in Structs : Goes(z)
<1>1. \A z \in Structs : InUse(z)' = InUse(z)
  BY DEF InUse
<1>2. Queue'
  BY <1>1 DEF LifeInv, Queue
<1>3. \A z \in Structs : Goes(z)
  BY <1>1 DEF Goes
<1> QED BY <1>2, <1>3

\* No structure changes.
LEMMA StructsStay ==
  ASSUME LifeInv, UNCHANGED <<st, reuse, fresh>>
  PROVE  st' \in [Structs -> Struct] /\ Queue' /\ \A z \in Structs : Goes(z)
<1>1. \A z \in Structs : InUse(z)' = InUse(z)
  BY DEF InUse
<1> QED BY <1>1 DEF LifeInv, LifeTypes, Queue, Goes

\* A step of t that others take no notice of.
LEMMA PlainStep ==
  ASSUME LifeInv, NEW t \in Threads, NEW f, NEW l, GoesTo(t, f, l),
         UNCHANGED <<self, os, arg, given, joinable>>,
         st' \in [Structs -> Struct], Queue', reuse' = reuse, fresh' = fresh,
         \A s \in Structs : Goes(s), \A u \in Threads \ {t} : Stays(u),
         os[t] = "running", Inside(t) => op[t] # "detach", l # "gone", f # "create", f # "detach",
         f \in {"none", "end"} \/ (f = op[t] /\ Inside(t)),
         l \in {"throw", "destructors", "last", "cancelable"} => self[t] # NoStruct,
         self[t] # NoStruct => (st'[self[t]].state = Last <=> l = "last"),
         Async(t)' => f \notin {"join", "cancel"},
         l = "pending" => (f = "cancel" => InUse(arg[t][1]) /\ st'[arg[t][1]].state # Last)
  PROVE  LifeInv'
<1>1. /\ pc' = [u \in Threads |-> pc'[u]] /\ op' = [u \in Threads |-> op'[u]] /\ pc'[t] = l /\ op'[t] = f
      /\ \A u \in Threads \ {t} : pc'[u] = pc[u] /\ op'[u] = op[u]
  BY Placed DEF LifeInv
<1>2. LifeTypes'
  BY <1>1 DEF LifeInv, LifeTypes
<1>3. Passed
  BY <1>1 DEF Passed
<1>4. Stage(t)'
  <2>1. self[t] # NoStruct => InUse(self[t])' /\ Mine(t)'.threadH = t /\ Mine(t)' = st'[self[t]]
    BY OwnStruct DEF Goes, Mine, InUse
  <2> QED BY <1>1, <2>1 DEF Stage, LifeInv
<1>5. Knows(t)'
  <2>1. Knows(t)
    BY DEF LifeInv
  <2>2. ASSUME Inside(t)', op'[t] \in {"join", "cancel"}
        PROVE  arg'[t] \in Handles /\ arg'[t][2] <= st'[arg'[t][1]].x
    BY <1>1, <2>1, <2>2 DEF Knows, Goes, Handles
  <2>3. ASSUME Inside(t)', op'[t] = "join" PROVE arg'[t] \in joinable' \/ Stale(arg[t])'
    BY <1>1, <2>1, <2>2, <2>3 DEF Knows, Goes, Handles, Stale
  <2>4. ASSUME op'[t] = "cancel", pc'[t] = "pending" PROVE InUse(arg[t][1])' /\ st'[arg'[t][1]].state # Last
    BY <1>1, <2>4 DEF InUse
  <2> QED BY <1>1, <2>2, <2>3, <2>4 DEF Knows, In
<1>6. Moves(t)
  <2>1. \A s \in Structs : InUse(s)' /\ Owns(t, s) => Owns(t, s)'
    BY DEF Goes, Owns, Handle
  <2>2. \A h \in Handles : ~Detaches(t, h) /\ (IsAbout(t, h)' => IsAbout(t, h))
    BY <1>1 DEF Detaches, IsAbout
  <2>3. \A s \in Structs : Handle(s) \in Handles
    BY DEF LifeInv, LifeTypes, Struct, Handles, Handle
  <2> QED BY <1>1, <1>4, <1>5, <2>1, <2>2, <2>3 DEF Moves, In
<1> QED BY <1>2, <1>3, <1>6, Frame

\* A change to a structure that no other thread has is not noticed by others.
LEMMA OthersStay ==
  ASSUME LifeInv, NEW t \in Threads,
         \A u \in Threads \ {t} : /\ pc'[u] = pc[u] /\ op'[u] = op[u]
                                  /\ self'[u] = self[u] /\ os'[u] = os[u] /\ arg'[u] = arg[u],
         NEW s, \A u \in Threads \ {t} : self[u] # s, \A z \in Structs \ {s} : st'[z] = st[z]
  PROVE  \A u \in Threads \ {t} : Stays(u)
<1>1. \A u \in Threads \ {t} : self[u] # NoStruct => self[u] \in Structs \ {s} /\ Mine(u)' = Mine(u)
  BY OwnStruct DEF Mine
<1> QED BY <1>1 DEF Stays, Async

\* Thread t changes its own structure.
LEMMA OwnStep ==
  ASSUME LifeInv, NEW t \in Threads, NEW f, NEW l, NEW r, self[t] # NoStruct, GoesTo(t, f, l),
         st' \in [Structs -> Struct], r = st'[self[t]], \A z \in Structs \ {self[t]} : st'[z] = st[z],
         UNCHANGED <<reuse, fresh, self, os, arg, given, joinable>>,
         r.x = Mine(t).x, r.threadH = Mine(t).threadH, r.detached = Mine(t).detached, r.state # Reuse,
         r.state = Last <=> l = "last", l = "last" => Unlocked(self[t]), r.async /\ r.enabled => f \notin {"join", "cancel"},
         pc[t] \notin {"last", "gone"}, Inside(t) => op[t] # "detach", l \notin {"gone", "pending"},
         f \notin {"create", "detach"}, f \in {"none", "end"} \/ (f = op[t] /\ Inside(t))
  PROVE  LifeInv'
<1>1. /\ self[t] \in Structs /\ InUse(self[t]) /\ st[self[t]].threadH = t /\ os[t] = "running"
      /\ Mine(t) = st[self[t]] /\ \A u \in Threads \ {t} : self[u] # self[t]
  BY OwnStruct
<1>2. st[self[t]].state # Last
  BY <1>1 DEF LifeInv, Stage
<1>3. Queue' /\ \A z \in Structs : Goes(z)
  <2>1. \E s \in Structs : s = self[t]
    BY <1>1
  <2> QED BY <1>1, <1>2, <2>1, StructChanges
<1>4. \A u \in Threads \ {t} : Stays(u)
  <2>1. \A u \in Threads \ {t} : /\ pc'[u] = pc[u] /\ op'[u] = op[u]
                                 /\ self'[u] = self[u] /\ os'[u] = os[u] /\ arg'[u] = arg[u]
    BY Placed DEF LifeInv
  <2> QED BY <1>1, <2>1, OthersStay
<1>5. Async(t)' => f \notin {"join", "cancel"}
  BY DEF Async, Mine
<1> QED BY <1>1, <1>3, <1>4, <1>5, PlainStep

\* Thread t changes nothing but where it is.
LEMMA QuietStep ==
  ASSUME LifeInv, NEW t \in Threads, NEW f, NEW l, GoesTo(t, f, l),
         UNCHANGED <<st, reuse, fresh, self, os, arg, given, joinable>>,
         os[t] = "running", pc[t] \notin {"last", "gone"}, Inside(t) => op[t] # "detach",
         l \notin {"last", "gone"}, f \notin {"create", "detach"},
         f \in {"none", "end"} \/ (f = op[t] /\ Inside(t)),
         l \in {"throw", "destructors", "cancelable"} => self[t] # NoStruct,
         l = "pending" => InUse(arg[t][1]) /\ st[arg[t][1]].state # Last
  PROVE  LifeInv'
<1>1. st' \in [Structs -> Struct] /\ Queue' /\ \A z \in Structs : Goes(z)
  BY StructsStay
<1>2. \A u \in Threads \ {t} : Stays(u)
  <2>1. \A u \in Threads \ {t} : pc'[u] = pc[u] /\ op'[u] = op[u]
    BY Placed DEF LifeInv
  <2> QED BY <2>1 DEF Stays, Async, Mine
<1>3. self[t] # NoStruct => st'[self[t]].state # Last
  BY DEF LifeInv, Stage, Mine
<1>4. Async(t)' => f \notin {"join", "cancel"}
  BY DEF LifeInv, Stage, Async, Mine
<1> QED BY <1>1, <1>2, <1>3, <1>4, PlainStep

\* Where a thread in a call is in its life.
LEMMA CallStage ==
  ASSUME LifeInv, NEW t \in Threads, Inside(t)
  PROVE  /\ os[t] = "running" /\ (pc[t] = "throw" => op[t] # "detach")
         /\ pc[t] \in {"throw", "destructors", "last", "cancelable"} => self[t] # NoStruct
BY DEF LifeInv, Stage

\* The structure of a thread that is not at its end.
LEMMA OwnState ==
  ASSUME LifeInv, NEW t \in Threads, self[t] # NoStruct, pc[t] \notin {"last", "gone"}
  PROVE  Mine(t) \in Struct /\ Mine(t).state # Last /\ Mine(t).state # Reuse
BY OwnStruct DEF LifeInv, LifeTypes, Queue, Stage, Mine

\* A thread begins to end: its start routine returns, or it is cancelled or
\* exits.
LEMMA EndBegins ==
  ASSUME LifeInv, NEW t \in Threads, StartReturns(t) \/ ptw32_throw(t) PROVE LifeInv'
<1>1. /\ GoesTo(t, "end", "destructors") /\ st' = [st EXCEPT ![self[t]].state = Exiting]
      /\ UNCHANGED <<reuse, fresh, self, os, arg, given, joinable>>
  BY DEF StartReturns, ptw32_throw, GoesTo, others
<1>2. self[t] # NoStruct /\ pc[t] \notin {"last", "gone"} /\ (Inside(t) => op[t] # "detach")
  BY CallStage DEF StartReturns, ptw32_throw, Idle, Inside, In
<1>3. self[t] \in Structs /\ Mine(t) = st[self[t]] /\ st \in [Structs -> Struct]
  BY <1>2, OwnStruct DEF LifeInv, LifeTypes
<1> DEFINE r == st'[self[t]]
<1>4. /\ st' \in [Structs -> Struct] /\ \A z \in Structs \ {self[t]} : st'[z] = st[z]
      /\ r.x = Mine(t).x /\ r.threadH = Mine(t).threadH /\ r.detached = Mine(t).detached
      /\ r.state # Last /\ r.state # Reuse
  BY <1>1, <1>3 DEF Struct, Exiting, Last, Reuse
<1> HIDE DEF r
<1>5. r = st'[self[t]]
  BY DEF r
<1> QED BY <1>1, <1>2, <1>4, <1>5, OwnStep

\* The destructors have run.
LEMMA DetachLastStep == ASSUME LifeInv, NEW t \in Threads, DetachLast(t) PROVE LifeInv'
<1>1. /\ GoesTo(t, "end", "last") /\ st' = [st EXCEPT ![self[t]].state = Last] /\ Unlocked(self[t])
      /\ UNCHANGED <<reuse, fresh, self, os, arg, given, joinable>> /\ op[t] = "end" /\ pc[t] = "destructors"
  BY CallGoes DEF DetachLast, In, others, LifeInv
<1>2. self[t] # NoStruct /\ Inside(t)
  BY <1>1, CallStage DEF Inside
<1>3. self[t] \in Structs /\ Mine(t) = st[self[t]] /\ st \in [Structs -> Struct]
  BY <1>2, OwnStruct DEF LifeInv, LifeTypes
<1> DEFINE r == st'[self[t]]
<1>4. /\ st' \in [Structs -> Struct] /\ \A z \in Structs \ {self[t]} : st'[z] = st[z]
      /\ r.x = Mine(t).x /\ r.threadH = Mine(t).threadH /\ r.detached = Mine(t).detached
      /\ r.state = Last /\ r.state # Reuse
  BY <1>1, <1>3 DEF Struct, Last, Reuse
<1> HIDE DEF r
<1>5. r = st'[self[t]]
  BY DEF r
<1> QED BY <1>1, <1>2, <1>4, <1>5, OwnStep

\* Steps that only look.
LEMMA LookingSteps ==
  ASSUME LifeInv, NEW t \in Threads,
         JoinCheck(t) \/ JoinSelf(t) \/ pthread_kill(t) \/ CancelLook(t) \/ ptw32_push_cleanup(t) \/ ptw32_pop_cleanup(t)
  PROVE  LifeInv'
<1>1. UNCHANGED <<st, reuse, fresh, self, os, arg, given, joinable>>
  BY DEF JoinCheck, JoinSelf, pthread_kill, CancelLook, ptw32_push_cleanup, ptw32_pop_cleanup, threadVars
<1>2. /\ pc[t] \in {"enter", "self"} /\ op[t] \in {"join", "kill", "cancel", "push", "pop"}
  BY DEF JoinCheck, JoinSelf, pthread_kill, CancelLook, ptw32_push_cleanup, ptw32_pop_cleanup, In
<1>3. Inside(t) /\ os[t] = "running"
  BY <1>2, CallStage DEF Inside
<1>4. \/ GoesTo(t, "none", "idle")
      \/ GoesTo(t, op[t], "self") \/ GoesTo(t, op[t], "wait")
      \/ GoesTo(t, op[t], "cancelable") /\ self[t] # NoStruct
      \/ GoesTo(t, op[t], "pending") /\ st[arg[t][1]].state < CancelPending /\ op[t] = "cancel"
  <2>1. CASE JoinCheck(t)
    BY <2>1, CallGoes DEF JoinCheck, LifeInv
  <2>2. CASE JoinSelf(t)
    BY <2>2, CallGoes DEF JoinSelf, LifeInv
  <2>3. CASE pthread_kill(t)
    BY <2>3, CallGoes DEF pthread_kill, LifeInv
  <2>4. CASE CancelLook(t)
    BY <2>4, CallGoes DEF CancelLook, LifeInv, In
  <2>5. CASE ptw32_push_cleanup(t) \/ ptw32_pop_cleanup(t)
    BY <2>5, CallGoes DEF ptw32_push_cleanup, ptw32_pop_cleanup, LifeInv
  <2> QED BY <2>1, <2>2, <2>3, <2>4, <2>5
<1>6. ASSUME op[t] = "cancel", st[arg[t][1]].state < CancelPending
      PROVE  InUse(arg[t][1]) /\ st[arg[t][1]].state # Last
  <2>1. arg[t][1] \in Structs
    BY <1>3, <1>6 DEF LifeInv, Knows, Handles
  <2> QED BY <1>6, <2>1 DEF LifeInv, Queue, CancelPending, Last, Reuse
<1>7. op[t] # "detach" /\ op[t] # "create" /\ pc[t] \notin {"last", "gone"}
  BY <1>2
<1>8. CASE GoesTo(t, "none", "idle")
  BY <1>1, <1>3, <1>7, <1>8, QuietStep
<1>9. CASE GoesTo(t, op[t], "self") \/ GoesTo(t, op[t], "wait")
  BY <1>1, <1>3, <1>7, <1>9, QuietStep
<1>10. CASE GoesTo(t, op[t], "cancelable") /\ self[t] # NoStruct
  BY <1>1, <1>3, <1>7, <1>10, QuietStep
<1>11. CASE GoesTo(t, op[t], "pending") /\ st[arg[t][1]].state < CancelPending /\ op[t] = "cancel"
  BY <1>1, <1>3, <1>6, <1>7, <1>11, QuietStep
<1> QED BY <1>4, <1>8, <1>9, <1>10, <1>11

\* What a cancellation writes.
LEMMA CancelFields ==
  ASSUME NEW r \in Struct
  PROVE  [r EXCEPT !.state = Canceling, !.enabled = FALSE, !.event = FALSE] \in Struct
<1> DEFINE r1 == [r EXCEPT !.state = Canceling]
           r2 == [r1 EXCEPT !.enabled = FALSE]
           r3 == [r2 EXCEPT !.event = FALSE]
<1>1. \A q \in Struct : [q EXCEPT !.enabled = FALSE] \in Struct
  BY DEF Struct
<1>2. \A q \in Struct : [q EXCEPT !.event = FALSE] \in Struct
  BY DEF Struct
<1>3. r1 \in Struct
  BY DEF Struct, Canceling
<1>4. r2 \in Struct
  <2> HIDE DEF r1
  <2> QED BY <1>1, <1>3
<1>5. r3 \in Struct
  <2> HIDE DEF r2
  <2> QED BY <1>2, <1>4
<1> QED BY <1>5

\* A thread that is not at its end is cancelled, or sets how it can be.
LEMMA CancelledStep ==
  ASSUME LifeInv, NEW t \in Threads, NEW r, self[t] # NoStruct, Inside(t), pc[t] \notin {"last", "gone"},
         op[t] \notin {"create", "detach"},
         st' \in [Structs -> Struct], r = st'[self[t]], \A z \in Structs \ {self[t]} : st'[z] = st[z],
         UNCHANGED <<reuse, fresh, self, os, arg, given, joinable>>,
         r.x = Mine(t).x, r.threadH = Mine(t).threadH, r.detached = Mine(t).detached,
         r.state = Mine(t).state \/ r.state = Canceling,
         GoesTo(t, "none", "idle") \/ (GoesTo(t, op[t], "throw") /\ ~r.enabled)
  PROVE  LifeInv'
<1>1. r.state # Last /\ r.state # Reuse
  BY OwnState DEF Canceling, Last, Reuse
<1>2. CASE GoesTo(t, "none", "idle")
  BY <1>1, <1>2, OwnStep
<1>3. CASE GoesTo(t, op[t], "throw") /\ ~r.enabled
  BY <1>1, <1>3, OwnStep
<1> QED BY <1>2, <1>3

\* The calls by which a thread sets and meets its own cancellation.
LEMMA SetSteps ==
  ASSUME LifeInv, NEW t \in Threads,
         pthread_setcancelstate(t) \/ pthread_setcanceltype(t) \/ pthread_testcancel(t) \/ pthread_delay_np(t)
  PROVE  LifeInv'
<1>1. /\ self[t] # NoStruct /\ UNCHANGED <<reuse, fresh, self, os, arg, given, joinable>>
      /\ op[t] \in {"setcancelstate", "setcanceltype", "testcancel", "delay"} /\ pc[t] \in {"enter", "delay"}
  BY DEF pthread_setcancelstate, pthread_setcanceltype, pthread_testcancel, pthread_delay_np, In, others
<1>2. Inside(t)
  BY <1>1 DEF Inside
<1>3. self[t] \in Structs /\ Mine(t) = st[self[t]] /\ st \in [Structs -> Struct] /\ Mine(t) \in Struct /\ os[t] = "running"
  BY <1>1, OwnStruct DEF LifeInv, LifeTypes
<1>4. ASSUME UNCHANGED st, GoesTo(t, "none", "idle") \/ GoesTo(t, op[t], "delay") PROVE LifeInv'
  BY <1>1, <1>2, <1>3, <1>4, QuietStep
<1> DEFINE r == st'[self[t]]
           Same == /\ st' \in [Structs -> Struct] /\ \A z \in Structs \ {self[t]} : st'[z] = st[z]
                   /\ r.x = Mine(t).x /\ r.threadH = Mine(t).threadH /\ r.detached = Mine(t).detached
                   /\ r.state = Mine(t).state \/ r.state = Canceling
<1>5. ASSUME Same, GoesTo(t, "none", "idle") \/ (GoesTo(t, op[t], "throw") /\ ~r.enabled) PROVE LifeInv'
  <2> HIDE DEF r
  <2>1. r = st'[self[t]]
    BY DEF r
  <2> QED BY <1>1, <1>2, <1>5, <2>1, CancelledStep
<1>6. ASSUME NEW s, s \in Struct, Enabled(t, s), s.x = Mine(t).x, s.threadH = Mine(t).threadH,
             s.detached = Mine(t).detached, s.state = Mine(t).state
      PROVE  LifeInv'
  <2>1. CASE s.enabled /\ s.async /\ s.event
    <3>1. st' = [st EXCEPT ![self[t]] = [s EXCEPT !.state = Canceling, !.enabled = FALSE, !.event = FALSE]]
          /\ GoesTo(t, op[t], "throw")
      BY <1>6, <2>1, CallGoes DEF Enabled, LifeInv
    <3>2. [s EXCEPT !.state = Canceling, !.enabled = FALSE, !.event = FALSE] \in Struct
      BY <1>6, CancelFields
    <3>3. Same /\ ~r.enabled
      BY <1>3, <1>6, <3>1, <3>2 DEF Struct
    <3> QED BY <1>5, <3>1, <3>3
  <2>2. CASE ~(s.enabled /\ s.async /\ s.event)
    <3>1. st' = [st EXCEPT ![self[t]] = s] /\ GoesTo(t, "none", "idle")
      BY <1>6, <2>2, CallGoes DEF Enabled, LifeInv
    <3> QED BY <1>3, <1>5, <1>6, <3>1
  <2> QED BY <2>1, <2>2
<1>7. CASE pthread_setcancelstate(t)
  <2>1. PICK e \in BOOLEAN :
          IF e THEN Enabled(t, [Mine(t) EXCEPT !.enabled = e])
          ELSE st' = [st EXCEPT ![self[t]].enabled = e] /\ GoesTo(t, "none", "idle")
    BY <1>7, CallGoes DEF pthread_setcancelstate, LifeInv
  <2>2. CASE e
    BY <1>3, <1>6, <2>1, <2>2 DEF Struct
  <2>3. CASE ~e
    <3>1. Same
      BY <1>3, <2>1, <2>3 DEF Struct
    <3> QED BY <1>5, <2>1, <2>3, <3>1
  <2> QED BY <2>2, <2>3
<1>8. CASE pthread_setcanceltype(t)
  <2>1. PICK e \in BOOLEAN :
          IF e THEN Enabled(t, [Mine(t) EXCEPT !.async = e])
          ELSE st' = [st EXCEPT ![self[t]].async = e] /\ GoesTo(t, "none", "idle")
    BY <1>8, CallGoes DEF pthread_setcanceltype, LifeInv
  <2>2. CASE e
    BY <1>3, <1>6, <2>1, <2>2 DEF Struct
  <2>3. CASE ~e
    <3>1. Same
      BY <1>3, <2>1, <2>3 DEF Struct
    <3> QED BY <1>5, <2>1, <2>3, <3>1
  <2> QED BY <2>2, <2>3
<1>9. CASE pthread_testcancel(t)
  <2>1. CASE st' = [st EXCEPT ![self[t]].event = FALSE, ![self[t]].state = Canceling, ![self[t]].enabled = FALSE]
             /\ GoesTo(t, op[t], "throw")
    <3>1. [Mine(t) EXCEPT !.state = Canceling, !.enabled = FALSE, !.event = FALSE] \in Struct
      BY <1>3, CancelFields
    <3>2. st' = [st EXCEPT ![self[t]] = [Mine(t) EXCEPT !.state = Canceling, !.enabled = FALSE, !.event = FALSE]]
      BY <1>3, <2>1 DEF Struct
    <3>3. Same /\ ~r.enabled
      BY <1>3, <3>1, <3>2 DEF Struct
    <3> QED BY <1>5, <2>1, <3>3
  <2> QED BY <1>4, <1>9, <2>1, CallGoes DEF pthread_testcancel, LifeInv
<1>10. CASE pthread_delay_np(t)
  <2>1. CASE Cancelling(self[t]) /\ GoesTo(t, op[t], "throw")
    BY <1>3, <1>5, <2>1 DEF Cancelling, Struct, Canceling
  <2> QED BY <1>4, <1>10, <2>1, CallGoes DEF pthread_delay_np, LifeInv
<1> QED BY <1>7, <1>8, <1>9, <1>10

\* The structure that a call is about.
LEMMA AboutStruct ==
  ASSUME LifeInv, NEW t \in Threads, Inside(t), op[t] \in {"join", "detach", "cancel"}
  PROVE  arg[t] \in Handles /\ arg[t][1] \in Structs /\ arg[t][2] \in Nat /\ os[t] = "running" /\ st[arg[t][1]] \in Struct
BY CallStage DEF LifeInv, LifeTypes, Knows, Handles

\* A cancellation is left pending with a thread that may have got further
\* since the canceller looked, but is not in its last state.
LEMMA CancelPendStep == ASSUME LifeInv, NEW t \in Threads, CancelPend(t) PROVE LifeInv'
<1>1. /\ op[t] = "cancel" /\ pc[t] = "pending" /\ Inside(t) /\ GoesTo(t, "none", "idle")
      /\ st' = [st EXCEPT ![arg[t][1]].state = CancelPending, ![arg[t][1]].event = TRUE]
      /\ UNCHANGED <<reuse, fresh, self, os, arg, given, joinable>>
  BY CallGoes DEF CancelPend, In, Inside, others, LifeInv
<1>2. PICK s \in Structs : s = arg[t][1] /\ st[s] \in Struct
  BY <1>1, AboutStruct
<1>3. InUse(s) /\ st[s].state # Last /\ os[t] = "running" /\ st \in [Structs -> Struct]
  BY <1>1, <1>2, CallStage DEF LifeInv, LifeTypes, Knows, In
<1> DEFINE r == st'[s]
<1>4. /\ r \in Struct /\ r.x = st[s].x /\ r.threadH = st[s].threadH /\ r.detached = st[s].detached
      /\ r.async = st[s].async /\ r.enabled = st[s].enabled /\ r.state = CancelPending
      /\ \A z \in Structs \ {s} : st'[z] = st[z]
  <2>1. \A q \in Struct : [q EXCEPT !.event = TRUE] \in Struct
    BY DEF Struct
  <2>2. [st[s] EXCEPT !.state = CancelPending] \in Struct
    BY <1>2 DEF Struct, CancelPending
  <2>3. [[st[s] EXCEPT !.state = CancelPending] EXCEPT !.event = TRUE] \in Struct
    BY <2>1, <2>2
  <2>4. r = [[st[s] EXCEPT !.state = CancelPending] EXCEPT !.event = TRUE]
    BY <1>1, <1>2, <1>3 DEF Struct
  <2>5. \A z \in Structs \ {s} : st'[z] = st[z]
    BY <1>1, <1>2, <1>3
  <2> QED BY <1>2, <2>3, <2>4, <2>5 DEF Struct
<1>5. st' \in [Structs -> Struct]
  <2>1. \A z \in Structs : st'[z] \in Struct
    BY <1>3, <1>4
  <2>2. st' = [z \in Structs |-> st'[z]]
    BY <1>1, <1>3
  <2> QED BY <2>1, <2>2
<1>6. r.state # Last /\ r.state # Reuse
  BY <1>4 DEF CancelPending, Last, Reuse
<1>7. r = st'[s]
  OBVIOUS
<1> HIDE DEF r
<1>8. Queue' /\ \A z \in Structs : Goes(z)
  BY <1>1, <1>3, <1>4, <1>5, <1>6, <1>7, StructChanges
<1>9. \A u \in Threads \ {t} : Stays(u)
  <2>1. \A u \in Threads \ {t} : pc'[u] = pc[u] /\ op'[u] = op[u]
    BY <1>1, Placed DEF LifeInv
  <2>2. \A u \in Threads : self[u] # NoStruct => self[u] \in Structs /\ Mine(u)' = st'[self[u]] /\ Mine(u) = st[self[u]]
    BY <1>1, OwnStruct DEF Mine
  <2>3. \A z \in Structs : /\ st'[z].async = st[z].async /\ st'[z].enabled = st[z].enabled
                           /\ st'[z].state = Last => st[z].state = Last
    BY <1>4, <1>6, <1>7
  <2>4. \A u \in Threads : self'[u] = self[u] /\ os'[u] = os[u] /\ arg'[u] = arg[u]
    BY <1>1
  <2>5. \A u \in Threads : Async(u)' => Async(u)
    BY <2>2, <2>3, <2>4 DEF Async
  <2>6. \A u \in Threads : self[u] # NoStruct /\ Mine(u)'.state = Last => Mine(u).state = Last
    BY <2>2, <2>3
  <2> QED BY <2>1, <2>4, <2>5, <2>6 DEF Stays
<1>10. self[t] # NoStruct => st'[self[t]].state # Last
  <2>1. self[t] # NoStruct => self[t] \in Structs /\ st[self[t]].state # Last
    BY <1>1, OwnState, OwnStruct
  <2> QED BY <1>4, <1>6, <1>7, <2>1
<1> QED BY <1>1, <1>3, <1>5, <1>8, <1>9, <1>10, PlainStep

\* A join goes on to detach the thread that ended, or is cancelled.
LEMMA WaitStep == ASSUME LifeInv, NEW t \in Threads, pthreadCancelableWait(t) PROVE LifeInv'
<1>1. op[t] = "join" /\ pc[t] \in {"cancelable", "wait"} /\ Inside(t) /\ UNCHANGED <<reuse, fresh, self, os, arg, given>>
  BY DEF pthreadCancelableWait, Inside
<1>2. os[t] = "running" /\ ~Async(t) /\ Stage(t) /\ Knows(t) /\ arg[t] \in Handles /\ arg[t][1] \in Structs
  BY <1>1, AboutStruct DEF LifeInv, Stage
<1>3. CASE os[st[arg[t][1]].threadH] = "ended"
  <2>1. GoesTo(t, "detach", "enter") /\ joinable' = joinable \ {arg[t]} /\ st' = st
    BY <1>3 DEF pthreadCancelableWait, GoesTo
  <2>2. /\ pc' = [u \in Threads |-> pc'[u]] /\ op' = [u \in Threads |-> op'[u]] /\ pc'[t] = "enter" /\ op'[t] = "detach"
        /\ \A u \in Threads \ {t} : pc'[u] = pc[u] /\ op'[u] = op[u]
    BY <2>1, Placed DEF LifeInv
  <2>3. st' \in [Structs -> Struct] /\ Queue' /\ \A s \in Structs : Goes(s)
    BY <1>1, <2>1, StructsStay
  <2>4. LifeTypes'
    BY <1>1, <2>1, <2>2, <2>3 DEF LifeInv, LifeTypes
  <2>5. Passed
    BY <1>1, <2>1, <2>2 DEF Passed, Detaches, Inside
  <2>6. \A u \in Threads \ {t} : Stays(u)
    BY <1>1, <2>1, <2>2 DEF Stays, Async, Mine
  <2>7. Stage(t)'
    BY <1>1, <1>2, <2>1, <2>2 DEF Stage, Async, Mine, Inside, Current, InUse
  <2>8. Knows(t)'
    <3>1. arg[t] \in joinable => Good(arg[t])
      BY DEF LifeInv
    <3>2. Good(arg[t])' = Good(arg[t]) /\ Stale(arg[t])' = Stale(arg[t])
      BY <1>1, <2>1 DEF Good, Stale, Current, InUse
    <3> QED BY <1>1, <1>2, <2>1, <2>2, <3>1, <3>2 DEF Knows, In
  <2>9. Moves(t)
    <3>1. \A s \in Structs : Owns(t, s) => Owns(t, s)'
      BY <1>1, <2>1 DEF Owns, Handle
    <3>2. \A h \in Handles : ~Detaches(t, h) /\ (IsAbout(t, h)' => IsAbout(t, h))
      BY <1>1, <2>2 DEF Detaches, IsAbout
    <3>3. \A s \in Structs : Handle(s) \in Handles
      BY DEF LifeInv, LifeTypes, Struct, Handles, Handle
    <3> QED BY <2>2, <2>7, <2>8, <3>1, <3>2, <3>3 DEF Moves, In
  <2> QED BY <2>3, <2>4, <2>5, <2>6, <2>9, Frame
<1>4. CASE os[st[arg[t][1]].threadH] # "ended"
  <2>1. pc[t] = "cancelable" /\ joinable' = joinable /\ self[t] # NoStruct
    BY <1>1, <1>2, <1>4 DEF pthreadCancelableWait, Stage
  <2>2. self[t] \in Structs /\ Mine(t) = st[self[t]] /\ st \in [Structs -> Struct] /\ Mine(t) \in Struct
    BY <2>1, OwnStruct DEF LifeInv, LifeTypes
  <2> DEFINE r == st'[self[t]]
             Same == /\ st' \in [Structs -> Struct] /\ \A z \in Structs \ {self[t]} : st'[z] = st[z]
                     /\ r.x = Mine(t).x /\ r.threadH = Mine(t).threadH /\ r.detached = Mine(t).detached
                     /\ r.state = Mine(t).state \/ r.state = Canceling
  <2>3. ASSUME Same, GoesTo(t, "none", "idle") \/ (GoesTo(t, op[t], "throw") /\ ~r.enabled) PROVE LifeInv'
    <3> HIDE DEF r
    <3>1. r = st'[self[t]]
      BY DEF r
    <3> QED BY <1>1, <2>1, <2>3, <3>1, CancelledStep
  <2>4. CASE Mine(t).state < Canceling
    <3>1. GoesTo(t, op[t], "throw") /\ st' = [st EXCEPT ![self[t]].event = FALSE, ![self[t]].enabled = FALSE,
                                                       ![self[t]].state = Canceling]
      BY <1>4, <2>4, CallGoes DEF pthreadCancelableWait, LifeInv
    <3>2. [Mine(t) EXCEPT !.state = Canceling, !.enabled = FALSE, !.event = FALSE] \in Struct
      BY <2>2, CancelFields
    <3>3. st' = [st EXCEPT ![self[t]] = [Mine(t) EXCEPT !.state = Canceling, !.enabled = FALSE, !.event = FALSE]]
      BY <2>2, <3>1 DEF Struct
    <3>4. Same /\ ~r.enabled
      BY <2>2, <3>2, <3>3 DEF Struct
    <3> QED BY <2>3, <3>1, <3>4
  <2>5. CASE ~(Mine(t).state < Canceling)
    <3>1. GoesTo(t, "none", "idle") /\ st' = [st EXCEPT ![self[t]].event = FALSE]
      BY <1>4, <2>5, CallGoes DEF pthreadCancelableWait, LifeInv
    <3>2. Same
      BY <2>2, <3>1 DEF Struct
    <3> QED BY <2>3, <3>1, <3>2
  <2> QED BY <2>4, <2>5
<1> QED BY <1>3, <1>4

\* Whose a structure is that can be cancelled at any point.
LEMMA AsyncOwner ==
  ASSUME LifeInv, NEW s \in Structs, st[s].async, st[s].enabled, st[s].state < Canceling
  PROVE  InUse(s) /\ \E u \in Threads : self[u] = s /\ st[s].threadH = u /\ Async(u)
<1>1. InUse(s) /\ st[s].state # Last
  BY DEF LifeInv, LifeTypes, Struct, Queue, Canceling, Last, Reuse
<1>2. PICK u \in Threads : Owns(u, s)
  BY <1>1 DEF LifeInv, Owned
<1>3. ~(os[u] = "started" /\ arg[u] = Handle(s))
  BY DEF LifeInv, Stage, Handle
<1>4. self[u] = s /\ st[s].threadH = u
  BY <1>1, <1>2, <1>3 DEF Owns
<1> QED BY <1>1, <1>4, StructsAssumption DEF Async, Mine

\* Such a thread is sent to its end, wherever it is.
LEMMA CancelAsyncStep == ASSUME LifeInv, NEW t \in Threads, CancelAsync(t) PROVE LifeInv'
<1>1. /\ op[t] = "cancel" /\ pc[t] = "self" /\ Inside(t) /\ UNCHANGED <<reuse, fresh, self, os, arg, given, joinable>>
      /\ Cancelling(arg[t][1]) /\ self[t] # NoStruct
  BY DEF CancelAsync, In, Inside, others
<1>2. PICK s \in Structs : s = arg[t][1] /\ st[s] \in Struct
  BY <1>1, AboutStruct
<1>3. st[s].async /\ st[s].enabled /\ st[s].state < Canceling
  BY <1>2 DEF CancelAsync
<1>4. InUse(s) /\ \E u \in Threads : self[u] = s /\ st[s].threadH = u /\ Async(u)
  BY <1>3, AsyncOwner
<1>5. PICK u \in Threads : self[u] = s /\ st[s].threadH = u /\ Async(u)
  BY <1>4
<1>6. u # t /\ op[u] \notin {"join", "detach", "cancel", "create"} /\ os[u] = "running" /\ self[u] # NoStruct /\ self[t] # s
  <2>1. Stage(u) /\ self[u] # NoStruct
    BY <1>5, StructsAssumption DEF LifeInv
  <2>2. u # t
    BY <1>1, <1>5, <2>1 DEF Stage
  <2> QED BY <1>1, <1>5, <2>1, <2>2, OwnStruct DEF Stage
<1>7. /\ pc' = [pc EXCEPT ![t] = "idle", ![u] = "throw"] /\ op' = [op EXCEPT ![t] = "none"]
      /\ st' = [st EXCEPT ![s].state = Canceling, ![s].enabled = FALSE]
  BY <1>1, <1>2, <1>5, <1>6 DEF CancelAsync, Cancelling
<1>8. /\ pc' = [v \in Threads |-> pc'[v]] /\ op' = [v \in Threads |-> op'[v]]
      /\ pc'[t] = "idle" /\ op'[t] = "none" /\ pc'[u] = "throw" /\ op'[u] = op[u]
      /\ \A v \in Threads \ {t, u} : pc'[v] = pc[v] /\ op'[v] = op[v]
  BY <1>6, <1>7 DEF LifeInv, LifeTypes
<1>9. st \in [Structs -> Struct] /\ os[t] = "running"
  BY <1>1, CallStage DEF LifeInv, LifeTypes
<1> DEFINE r == st'[s]
<1>10. /\ st' \in [Structs -> Struct] /\ \A z \in Structs \ {s} : st'[z] = st[z]
       /\ r.x = st[s].x /\ r.threadH = st[s].threadH /\ r.detached = st[s].detached /\ r.async = st[s].async
       /\ ~r.enabled /\ r.state # Last /\ r.state # Reuse /\ st[s].state # Last
  <2>1. \A q \in Struct : [q EXCEPT !.enabled = FALSE] \in Struct
    BY DEF Struct
  <2>2. [st[s] EXCEPT !.state = Canceling] \in Struct
    BY <1>2 DEF Struct, Canceling
  <2>3. [[st[s] EXCEPT !.state = Canceling] EXCEPT !.enabled = FALSE] \in Struct
    BY <2>1, <2>2
  <2>4. r = [[st[s] EXCEPT !.state = Canceling] EXCEPT !.enabled = FALSE]
    BY <1>2, <1>7, <1>9 DEF Struct
  <2>5. st' = [z \in Structs |-> IF z = s THEN r ELSE st[z]]
    BY <1>7, <1>9
  <2>6. st[s].state # Last /\ Canceling # Last /\ Canceling # Reuse
    BY <1>2, <1>3 DEF Struct, Canceling, Last, Reuse
  <2>7. /\ r.x = st[s].x /\ r.threadH = st[s].threadH /\ r.detached = st[s].detached /\ r.async = st[s].async
        /\ ~r.enabled /\ r.state = Canceling
    BY <1>2, <2>4 DEF Struct
  <2> HIDE DEF r
  <2> QED BY <1>9, <2>3, <2>4, <2>5, <2>6, <2>7
<1>11. r = st'[s]
  OBVIOUS
<1> HIDE DEF r
<1>12. Queue' /\ \A z \in Structs : Goes(z)
  BY <1>1, <1>4, <1>10, <1>11, StructChanges
<1>13. LifeTypes' /\ Passed
  BY <1>1, <1>8, <1>10 DEF LifeInv, LifeTypes, Passed
<1>14. ASSUME NEW v \in Threads \ {t, u} PROVE Stays(v)
  <2>1. self[v] # NoStruct => self[v] \in Structs \ {s} /\ Mine(v)' = Mine(v)
    BY <1>1, <1>5, <1>10, OwnStruct DEF Mine
  <2> QED BY <1>1, <1>8, <2>1 DEF Stays, Async
<1>15. ASSUME NEW v \in {t, u} PROVE Moves(v)
  <2>1. ~Inside(v)' \/ op'[v] \notin {"join", "detach", "cancel", "create"}
    BY <1>6, <1>8 DEF Inside
  <2>2. op[v] # "detach"
    BY <1>1, <1>6
  <2>3. Stage(v)'
    <3>1. /\ self[v] \in Structs /\ InUse(self[v]) /\ st[self[v]].threadH = v /\ self[v] # NoStruct /\ os[v] = "running"
      BY <1>1, <1>6, OwnStruct
    <3>2. InUse(self[v])' /\ Mine(v)'.threadH = v /\ Mine(v)' = st'[self[v]]
      BY <1>1, <1>12, <3>1 DEF Goes, Mine, InUse
    <3>3. st'[self[v]].state # Last
      BY <1>1, <1>6, <1>5, <1>10, <1>11, OwnState, OwnStruct
    <3> QED BY <1>1, <1>8, <1>6, <2>1, <3>1, <3>2, <3>3 DEF Stage, Inside, Async
  <2>4. Knows(v)'
    BY <2>1, <1>8 DEF Knows, In, Inside
  <2>5. \A z \in Structs : Owns(v, z) => Owns(v, z)'
    BY <1>1, <1>12 DEF Goes, Owns, Handle
  <2>6. \A h \in Handles : ~Detaches(v, h) /\ ~IsAbout(v, h)'
    BY <2>1, <2>2 DEF Detaches, IsAbout
  <2>7. \A z \in Structs : Handle(z) \in Handles
    BY DEF LifeInv, LifeTypes, Struct, Handles, Handle
  <2> QED BY <1>8, <2>1, <2>3, <2>4, <2>5, <2>6, <2>7 DEF Moves, In, Inside
<1> QED BY <1>12, <1>13, <1>14, <1>15, Frame

\* A thread is detached, by a call or at the end of a join.
LEMMA DetachStep == ASSUME LifeInv, NEW t \in Threads, pthread_detach(t) PROVE LifeInv'
<1>1. /\ op[t] = "detach" /\ pc[t] = "enter" /\ Inside(t)
      /\ UNCHANGED <<reuse, fresh, self, os, arg, given, joinable>>
  BY DEF pthread_detach, In, Inside, others
<1>2. PICK h \in Handles : h = arg[t]
  BY <1>1, AboutStruct
<1>3. h[1] \in Structs /\ h[2] \in Nat /\ os[t] = "running" /\ st[h[1]] \in Struct /\ st \in [Structs -> Struct] /\ ~Async(t)
  BY <1>1, <1>2, AboutStruct DEF LifeInv, LifeTypes, Stage
<1>4. Stale(h) \/ (Good(h) /\ h \notin joinable)
  BY <1>1, <1>2 DEF LifeInv, Knows
<1>5. Handle(h[1]) = h <=> Current(h)
  BY <1>2 DEF Handle, Current, Handles
<1>6. \E l \in {"idle", "destroy"} : /\ pc' = [pc EXCEPT ![t] = l]
                                     /\ op' = [op EXCEPT ![t] = IF l = "idle" THEN "none" ELSE "detach"]
                                     /\ l = "destroy" => Good(h) /\ st[h[1]].state = Last /\ st' = st
                                     /\ l = "idle" /\ Good(h) => st' = [st EXCEPT ![h[1]].detached = TRUE] /\ st[h[1]].state # Last
                                     /\ Stale(h) => st' = st
  <2>1. CASE Stale(h)
    <3>1. ~Current(h) /\ ~Good(h)
      BY <1>3, <2>1 DEF Stale, Current, Struct, Good
    <3>2. Return(t, "ESRCH") /\ st' = st
      BY <1>2, <3>1 DEF pthread_detach
    <3> QED BY <3>1, <3>2 DEF Return, ReturnHolding
  <2>2. CASE Good(h)
    <3>1. Current(h) /\ ~st[h[1]].detached /\ ~Stale(h)
      BY <2>2 DEF Good
    <3>2. CASE st[h[1]].state # Last
      <4>1. st' = [st EXCEPT ![h[1]].detached = TRUE] /\ Return(t, "0")
        BY <1>2, <3>1, <3>2 DEF pthread_detach
      <4> QED BY <3>1, <3>2, <4>1 DEF Return, ReturnHolding
    <3>3. CASE st[h[1]].state = Last
      <4>1. Goto(t, "destroy") /\ st' = st
        BY <1>2, <3>1, <3>3 DEF pthread_detach
      <4>2. op' = [op EXCEPT ![t] = "detach"]
        BY <1>1, <4>1 DEF Goto, LifeInv, LifeTypes
      <4> QED BY <2>2, <3>1, <3>3, <4>1, <4>2 DEF Goto
    <3> QED BY <3>2, <3>3
  <2> QED BY <1>4, <2>1, <2>2
<1>7. PICK l \in {"idle", "destroy"} : /\ GoesTo(t, IF l = "idle" THEN "none" ELSE "detach", l)
                                       /\ l = "destroy" => Good(h) /\ st[h[1]].state = Last /\ st' = st
                                       /\ l = "idle" /\ Good(h) => st' = [st EXCEPT ![h[1]].detached = TRUE] /\ st[h[1]].state # Last
                                       /\ Stale(h) => st' = st
  BY <1>6 DEF GoesTo
<1>8. /\ pc' = [u \in Threads |-> pc'[u]] /\ op' = [u \in Threads |-> op'[u]]
      /\ pc'[t] = l /\ op'[t] = (IF l = "idle" THEN "none" ELSE "detach")
      /\ \A u \in Threads \ {t} : pc'[u] = pc[u] /\ op'[u] = op[u]
  BY <1>7, Placed DEF LifeInv
<1>9. /\ st' \in [Structs -> Struct]
      /\ \A z \in Structs : /\ st'[z].x = st[z].x /\ st'[z].state = st[z].state /\ st'[z].threadH = st[z].threadH
                            /\ st'[z].async = st[z].async /\ st'[z].enabled = st[z].enabled
                            /\ st'[z].detached = st[z].detached
                               \/ (z = h[1] /\ st'[z].detached /\ Good(h) /\ l = "idle" /\ st[z].state # Last)
  <2>1. CASE st' = st
    BY <1>3, <2>1
  <2>2. CASE st' = [st EXCEPT ![h[1]].detached = TRUE] /\ Good(h) /\ l = "idle"
    BY <1>3, <1>7, <2>2 DEF Struct
  <2> QED BY <1>4, <1>7, <2>1, <2>2
<1>10. \A z \in Structs : InUse(z)' = InUse(z)
  BY <1>1 DEF InUse
<1>11. Queue' /\ LifeTypes' /\ Passed
  BY <1>1, <1>8, <1>9, <1>10 DEF LifeInv, LifeTypes, Queue, Passed
<1>12. ASSUME NEW u \in Threads, Good(h), l = "idle" PROVE ~Detaches(u, h)'
  <2>1. u # t => ~IsAbout(u, h)
    BY <1>1, <1>2, <1>12 DEF LifeInv, Separate, IsAbout, Good
  <2> QED BY <1>1, <1>8, <1>12, <2>1 DEF Detaches, IsAbout, Inside
<1>13. ASSUME NEW z \in Structs PROVE Goes(z)
  <2>1. z = h[1] /\ Good(h) /\ l = "idle" => Handle(z) \notin joinable' /\ \A u \in Threads : ~Detaches(u, Handle(z))'
    <3>1. z = h[1] /\ Good(h) => Handle(z)' = h /\ Handle(z) = h
      BY <1>2, <1>5, <1>9 DEF Good, Handle
    <3>2. z = h[1] /\ Good(h) /\ l = "idle" => \A u \in Threads : ~Detaches(u, Handle(z))'
      BY <1>12, <3>1 DEF Detaches
    <3>3. Good(h) => h \notin joinable'
      BY <1>1, <1>4 DEF Good
    <3> QED BY <3>1, <3>2, <3>3
  <2> QED BY <1>9, <1>10, <2>1 DEF Goes
<1>14. \A u \in Threads : self[u] # NoStruct => self[u] \in Structs /\ Mine(u)' = st'[self[u]] /\ Mine(u) = st[self[u]]
  BY <1>1, OwnStruct DEF Mine
<1>15. \A u \in Threads : (Async(u)' <=> Async(u)) /\ (self[u] # NoStruct => Mine(u)'.state = Mine(u).state)
  BY <1>1, <1>9, <1>14 DEF Async
<1>16. ASSUME NEW u \in Threads \ {t} PROVE Stays(u)
  BY <1>1, <1>8, <1>15 DEF Stays
<1>17. Stage(t)'
  <2>1. self[t] # NoStruct => /\ InUse(self[t]) /\ Mine(t)'.threadH = t /\ Mine(t)'.state # Last /\ self[t] \in Structs
    <3>1. self[t] # NoStruct => Mine(t).state # Last
      BY <1>1, OwnState
    <3> QED BY <1>9, <1>14, <1>15, <3>1, OwnStruct
  <2>2. InUse(self[t])' = InUse(self[t])
    BY <1>1 DEF InUse
  <2> QED BY <1>1, <1>3, <1>8, <1>15, <2>1, <2>2 DEF Stage
<1>18. Knows(t)'
  <2>1. Stale(h)' = Stale(h) /\ (l = "destroy" => Good(h)' = Good(h))
    BY <1>1, <1>3, <1>7, <1>9 DEF Good, Stale, Current, InUse
  <2>2. Stale(arg[t])' = Stale(h)' /\ Good(arg[t])' = Good(h)'
    BY <1>1, <1>2 DEF Good, Stale, Current, InUse
  <2>3. l = "idle" => ~Inside(t)'
    BY <1>8 DEF Inside
  <2>4. CASE l = "idle"
    BY <1>8, <2>3, <2>4 DEF Knows, In
  <2>5. CASE l = "destroy"
    <3>1. Good(h) /\ ~Stale(h) /\ h \notin joinable'
      BY <1>1, <1>4, <1>7, <2>5 DEF Good
    <3>2. h[2] <= st'[h[1]].x
      BY <1>3, <1>9, <3>1 DEF Good, Current, Struct
    <3> QED BY <1>1, <1>2, <1>7, <1>8, <1>9, <2>1, <2>2, <2>5, <3>1, <3>2 DEF Knows, In
  <2> QED BY <2>4, <2>5
<1>19. Moves(t)
  <2>1. \A z \in Structs : InUse(z)' /\ Owns(t, z) => Owns(t, z)'
    BY <1>1, <1>3, <1>9 DEF Owns, Handle
  <2>2. \A z \in Structs : Handle(z) \in Handles
    BY DEF LifeInv, LifeTypes, Struct, Handles, Handle
  <2>3. ASSUME NEW z \in Structs, Detaches(t, Handle(z)) PROVE Detaches(t, Handle(z))' \/ st'[z].detached
    <3>1. Handle(z) = h /\ z = h[1] /\ Handle(z)' = h
      BY <1>2, <1>9, <2>3 DEF Detaches, Handle
    <3>2. Good(h)
      BY <1>4, <1>3, <1>5, <3>1 DEF Stale, Current, Struct
    <3>3. CASE l = "destroy"
      BY <1>1, <1>2, <1>8, <3>1, <3>3 DEF Detaches, Inside
    <3>4. CASE l = "idle"
      BY <1>3, <1>7, <3>1, <3>2, <3>4 DEF Struct
    <3> QED BY <3>3, <3>4
  <2>4. \A g \in Handles : IsAbout(t, g)' => IsAbout(t, g)
    BY <1>1, <1>8 DEF IsAbout, Inside
  <2> QED BY <1>8, <1>17, <1>18, <2>1, <2>2, <2>3, <2>4 DEF Moves, In
<1> QED BY <1>11, <1>13, <1>16, <1>19, Frame

-----------------------------------------------------------------------------
(* Steps that put a structure into the queue or take one from it *)

\* Structure s comes onto the end of a queue q of the others.
LEMMA PushChanges ==
  ASSUME LifeInv, NEW s \in Structs, NEW q \in Seq(Structs),
         \A i, j \in DOMAIN q : i # j => q[i] # q[j],
         \A i \in DOMAIN q : q[i] # s /\ q[i] \notin fresh,
         \A z \in Structs \ {s} : (\E i \in DOMAIN q : q[i] = z) <=> \E i \in DOMAIN reuse : reuse[i] = z,
         ptw32_threadReusePush(s, q), fresh' = fresh \ {s}
  PROVE  /\ st' \in [Structs -> Struct] /\ reuse' \in Seq(Structs) /\ fresh' \subseteq Structs /\ Queue'
         /\ ~InUse(s)' /\ st'[s].x = st[s].x + 1
         /\ \A z \in Structs \ {s} : Goes(z) /\ st'[z] = st[z]
<1>1. st \in [Structs -> Struct] /\ fresh \subseteq Structs /\ Queue
  BY DEF LifeInv, LifeTypes
<1>2. st' = [st EXCEPT ![s] = Cleared(st[s].x + 1)] /\ reuse' = Append(q, s)
  BY DEF ptw32_threadReusePush
<1> DEFINE r == Cleared(st[s].x + 1)
<1>3. r \in Struct /\ r.x = st[s].x + 1 /\ r.state = Reuse
  <2>1. st[s].x \in Nat
    BY <1>1 DEF Struct
  <2> QED BY <2>1 DEF Cleared, Struct, Reuse
<1> HIDE DEF r
<1>4. st' \in [Structs -> Struct] /\ st'[s] = r /\ \A z \in Structs \ {s} : st'[z] = st[z]
  <2>1. st' = [st EXCEPT ![s] = r]
    BY <1>2 DEF r
  <2> QED BY <1>1, <1>3, <2>1
<1>5. /\ reuse' \in Seq(Structs) /\ Len(reuse') = Len(q) + 1 /\ Len(q) \in Nat
      /\ \A i \in 1..Len(q) : reuse'[i] = q[i]
      /\ reuse'[Len(q) + 1] = s
  BY <1>2, AppendProperties, LenProperties
<1>6. DOMAIN q = 1..Len(q) /\ DOMAIN reuse' = 1..(Len(q) + 1)
  BY <1>5, LenProperties
<1>7. \A z : (\E i \in DOMAIN reuse' : reuse'[i] = z) <=> (z = s \/ \E i \in DOMAIN q : q[i] = z)
  BY <1>5, <1>6
<1>8. ~InUse(s)' /\ \A z \in Structs \ {s} : InUse(z)' = InUse(z)
  <2>1. \A z : InUse(z)' <=> z \notin fresh' /\ ~\E i \in DOMAIN reuse' : reuse'[i] = z
    BY DEF InUse
  <2>2. \A z : InUse(z) <=> z \notin fresh /\ ~\E i \in DOMAIN reuse : reuse[i] = z
    BY DEF InUse
  <2> QED BY <1>7, <2>1, <2>2
<1>9. Queue'
  <2>1. \A i, j \in DOMAIN reuse' : i # j => reuse'[i] # reuse'[j]
    BY <1>5, <1>6
  <2>2. \A i \in DOMAIN reuse' : reuse'[i] \notin fresh'
    BY <1>5, <1>6
  <2>3. \A z \in Structs : InUse(z)' <=> st'[z].state # Reuse
    BY <1>1, <1>3, <1>4, <1>8 DEF Queue
  <2> QED BY <2>1, <2>2, <2>3 DEF Queue
<1>10. \A z \in Structs \ {s} : Goes(z) /\ st'[z] = st[z]
  BY <1>4, <1>8 DEF Goes
<1> QED BY <1>1, <1>3, <1>4, <1>5, <1>8, <1>9, <1>10

\* ptw32_threadDestroy.
LEMMA DestroyChanges ==
  ASSUME LifeInv, NEW s \in Structs, InUse(s), ptw32_threadDestroy(s), fresh' = fresh
  PROVE  /\ st' \in [Structs -> Struct] /\ reuse' \in Seq(Structs) /\ fresh' \subseteq Structs /\ Queue'
         /\ ~InUse(s)' /\ st'[s].x = st[s].x + 1
         /\ \A z \in Structs \ {s} : Goes(z) /\ st'[z] = st[z]
<1>1. reuse \in Seq(Structs) /\ ptw32_threadReusePush(s, reuse) /\ fresh' = fresh \ {s}
  BY DEF LifeInv, LifeTypes, ptw32_threadDestroy, InUse
<1>2. /\ \A i, j \in DOMAIN reuse : i # j => reuse[i] # reuse[j]
      /\ \A i \in DOMAIN reuse : reuse[i] # s /\ reuse[i] \notin fresh
  BY DEF LifeInv, Queue, InUse
<1> QED BY <1>1, <1>2, PushChanges

\* The steps at the end of a thread that put its structure into the queue, or
\* leave that to whoever joins it.
LEMMA DetachDestroyStep == ASSUME LifeInv, NEW t \in Threads, DetachDestroy(t) PROVE LifeInv'
<1>1. /\ op[t] = "end" /\ pc[t] = "last" /\ Inside(t) /\ GoesTo(t, op[t], "gone")
      /\ UNCHANGED <<fresh, os, arg, given, joinable>>
  BY CallGoes DEF DetachDestroy, In, Inside, others, LifeInv
<1>2. self[t] # NoStruct /\ os[t] = "running"
  BY <1>1, CallStage
<1>3. PICK s \in Structs : s = self[t]
  BY <1>2, OwnStruct
<1>4. InUse(s) /\ st[s].threadH = t /\ Mine(t) = st[s] /\ st[s].state = Last
  BY <1>1, <1>2, <1>3, OwnStruct DEF LifeInv, Stage
<1>5. /\ pc' = [u \in Threads |-> pc'[u]] /\ op' = [u \in Threads |-> op'[u]]
      /\ pc'[t] = "gone" /\ op'[t] = "end"
      /\ \A u \in Threads \ {t} : pc'[u] = pc[u] /\ op'[u] = op[u]
  BY <1>1, Placed DEF LifeInv
<1>6. Passed
  BY <1>1, <1>5 DEF Passed, In
<1>7. /\ \A h \in Handles : ~Detaches(t, h) /\ ~IsAbout(t, h)' /\ ~In(t, "create", "return")' /\ Knows(t)'
      /\ \A z \in Structs : Handle(z) \in Handles
  BY <1>1, <1>5 DEF Detaches, IsAbout, In, Knows, LifeInv, LifeTypes, Struct, Handles, Handle
<1>8. CASE ~st[s].detached
  <2>1. UNCHANGED <<st, reuse, self>>
    BY <1>4, <1>8 DEF DetachDestroy
  <2>2. st' \in [Structs -> Struct] /\ Queue' /\ \A z \in Structs : Goes(z)
    BY <1>1, <2>1, StructsStay
  <2>3. LifeTypes'
    BY <1>1, <1>5, <2>1, <2>2 DEF LifeInv, LifeTypes
  <2>4. \A u \in Threads \ {t} : Stays(u)
    BY <1>1, <1>5, <2>1 DEF Stays, Async, Mine
  <2>5. Stage(t)'
    <3>1. Mine(t)' = Mine(t) /\ InUse(self[t])' = InUse(self[t])
      BY <1>1, <2>1 DEF Mine, InUse
    <3> QED BY <1>1, <1>2, <1>3, <1>4, <1>5, <1>8, <2>1, <3>1 DEF Stage, Inside
  <2>6. \A z \in Structs : Owns(t, z) => Owns(t, z)'
    BY <1>1, <2>1 DEF Owns, Handle
  <2>7. Moves(t)
    BY <1>7, <2>5, <2>6 DEF Moves
  <2> QED BY <1>6, <2>2, <2>3, <2>4, <2>7, Frame
<1>9. CASE st[s].detached
  <2>1. ptw32_threadDestroy(s) /\ self' = [self EXCEPT ![t] = NoStruct]
    BY <1>3, <1>4, <1>9 DEF DetachDestroy
  <2>2. /\ st' \in [Structs -> Struct] /\ reuse' \in Seq(Structs) /\ fresh' \subseteq Structs /\ Queue'
        /\ ~InUse(s)' /\ st'[s].x = st[s].x + 1
        /\ \A z \in Structs \ {s} : Goes(z) /\ st'[z] = st[z]
    BY <1>1, <1>4, <2>1, DestroyChanges
  <2>3. /\ self' \in [Threads -> Structs \cup {NoStruct}] /\ self'[t] = NoStruct
        /\ \A u \in Threads \ {t} : self'[u] = self[u] /\ self[u] # s /\ (os[u] = "started" => arg[u][1] # s)
    BY <1>2, <1>3, <2>1, OwnStruct DEF LifeInv, LifeTypes
  <2>4. LifeTypes'
    BY <1>1, <1>5, <2>2, <2>3 DEF LifeInv, LifeTypes
  <2>5. \A u \in Threads \ {t} : Stays(u)
    BY <1>1, <1>5, <2>2, <2>3, OthersStay
  <2>6. ~Good(Handle(s)) /\ Handle(s)[1] = s /\ ~Stale(Handle(s)) /\ Handle(s) \in Handles
    BY <1>7, <1>9 DEF Good, Handle, Stale, LifeInv, LifeTypes, Struct
  <2>7. Pushed(s)
    <3>1. Handle(s) \notin joinable'
      BY <1>1, <2>6 DEF LifeInv
    <3>2. ASSUME NEW u \in Threads, Stays(u) PROVE ~Uses(u, s)
      <4>1. u # t
        BY <1>1, <1>5, <3>2 DEF Stays
      <4>2. ~(In(u, "cancel", "pending") /\ arg[u][1] = s)
        BY <1>4 DEF LifeInv, Knows
      <4>3. ~(In(u, "detach", "destroy") /\ arg[u] = Handle(s))
        BY <2>6 DEF LifeInv, Knows, In, Inside
      <4> QED BY <2>3, <4>1, <4>2, <4>3 DEF Uses
    <3> QED BY <2>2, <3>1, <3>2 DEF Pushed
  <2>8. Stage(t)'
    BY <1>1, <1>2, <1>5, <2>3 DEF Stage, Inside, Async
  <2>9. \A z \in Structs : InUse(z)' => ~Owns(t, z)
    BY <1>2, <1>3, <2>2 DEF Owns
  <2>10. Moves(t)
    BY <1>7, <2>8, <2>9 DEF Moves
  <2> QED BY <1>6, <2>2, <2>4, <2>5, <2>7, <2>10, Frame
<1> QED BY <1>8, <1>9

\* Whoever detaches a thread in its last state waits for its end and puts the
\* structure into the queue.
LEMMA DetachWaitStep == ASSUME LifeInv, NEW t \in Threads, DetachWait(t) PROVE LifeInv'
<1>1. /\ op[t] = "detach" /\ pc[t] = "destroy" /\ Inside(t) /\ GoesTo(t, "none", "idle")
      /\ UNCHANGED <<fresh, self, os, arg, given, joinable>> /\ ptw32_threadDestroy(arg[t][1])
      /\ os[st[arg[t][1]].threadH] = "ended"
  BY CallGoes DEF DetachWait, In, Inside, others, LifeInv
<1>2. PICK h \in Handles : h = arg[t]
  BY <1>1, AboutStruct
<1>3. PICK s \in Structs : s = h[1]
  BY <1>2 DEF Handles
<1>4. os[t] = "running" /\ ~Stale(h) /\ Good(h) /\ h \notin joinable /\ st[s].state = Last /\ InUse(s)
  BY <1>1, <1>2, <1>3, CallStage DEF LifeInv, Knows, In, Good
<1>5. Handle(s) = h
  BY <1>3, <1>4 DEF Good, Current, Handles, Handle
<1>6. /\ pc' = [u \in Threads |-> pc'[u]] /\ op' = [u \in Threads |-> op'[u]]
      /\ pc'[t] = "idle" /\ op'[t] = "none"
      /\ \A u \in Threads \ {t} : pc'[u] = pc[u] /\ op'[u] = op[u]
  BY <1>1, Placed DEF LifeInv
<1>7. /\ st' \in [Structs -> Struct] /\ reuse' \in Seq(Structs) /\ fresh' \subseteq Structs /\ Queue'
      /\ ~InUse(s)' /\ st'[s].x = st[s].x + 1
      /\ \A z \in Structs \ {s} : Goes(z) /\ st'[z] = st[z]
  BY <1>1, <1>2, <1>3, <1>4, DestroyChanges
<1>8. LifeTypes' /\ Passed
  BY <1>1, <1>6, <1>7 DEF LifeInv, LifeTypes, Passed, In
<1>9. \A u \in Threads : self[u] # s /\ ~(os[u] = "started" /\ arg[u][1] = s)
  <2>1. \A u \in Threads : self[u] = s => st[s].threadH = u /\ os[u] = "running"
    BY OwnStruct, StructsAssumption
  <2>2. \A u \in Threads : os[u] = "started" /\ arg[u][1] = s => st[s].threadH = u
    BY DEF LifeInv, Stage
  <2> QED BY <1>1, <1>2, <1>3, <2>1, <2>2
<1>10. \A u \in Threads \ {t} : Stays(u)
  BY <1>1, <1>6, <1>7, <1>9, OthersStay
<1>11. Pushed(s)
  <2>1. ASSUME NEW u \in Threads, Stays(u) PROVE ~Uses(u, s)
    <3>1. u # t
      BY <1>1, <1>6, <2>1 DEF Stays
    <3>2. ~(In(u, "cancel", "pending") /\ arg[u][1] = s)
      BY <1>4 DEF LifeInv, Knows
    <3>3. ~(In(u, "detach", "destroy") /\ arg[u] = Handle(s))
      BY <1>1, <1>2, <1>4, <1>5, <3>1 DEF LifeInv, Separate, IsAbout, In, Inside
    <3> QED BY <1>9, <3>1, <3>2, <3>3 DEF Uses
  <2> QED BY <1>1, <1>4, <1>5, <1>7, <2>1 DEF Pushed
<1>12. Stage(t)'
  <2>1. self[t] # NoStruct =>
          /\ InUse(self[t])' /\ Mine(t)' = st[self[t]] /\ Mine(t)'.threadH = t /\ Mine(t)'.state # Last
    <3>1. self[t] # NoStruct => /\ self[t] \in Structs \ {s} /\ InUse(self[t]) /\ st[self[t]].threadH = t
                                /\ Mine(t) = st[self[t]] /\ Mine(t).state # Last
      BY <1>1, <1>9, OwnStruct, OwnState
    <3>2. self[t] # NoStruct => InUse(self[t])' /\ Mine(t)' = st[self[t]]
      BY <1>1, <1>7, <3>1 DEF Goes, Mine, InUse
    <3> QED BY <3>1, <3>2
  <2> QED BY <1>1, <1>4, <1>6, <2>1 DEF Stage
<1>13. Moves(t)
  <2>1. \A z \in Structs : InUse(z)' /\ Owns(t, z) => Owns(t, z)'
    BY <1>1, <1>7 DEF Owns, Handle
  <2>2. \A z \in Structs : InUse(z)' => ~Detaches(t, Handle(z))
    BY <1>2, <1>3, <1>7 DEF Detaches, Handle
  <2>3. \A g \in Handles : ~IsAbout(t, g)'
    BY <1>6 DEF IsAbout, Inside
  <2>4. Knows(t)' /\ ~In(t, "create", "return")'
    BY <1>6 DEF Knows, In, Inside
  <2> QED BY <1>12, <2>1, <2>2, <2>3, <2>4 DEF Moves
<1> QED BY <1>7, <1>8, <1>10, <1>11, <1>13, Frame

-----------------------------------------------------------------------------
(* Steps between the stages of a thread's life *)

\* The program gets the handle of the thread it created.
LEMMA CreateReturnStep == ASSUME LifeInv, NEW t \in Threads, CreateReturn(t) PROVE LifeInv'
<1>1. /\ In(t, "create", "return") /\ Inside(t) /\ GoesTo(t, "none", "idle") /\ given' = given \cup {arg[t]}
      /\ UNCHANGED <<st, reuse, fresh, self, os, arg, joinable>>
  BY CallGoes DEF CreateReturn, In, Inside, LifeInv
<1>2. /\ pc' = [u \in Threads |-> pc'[u]] /\ op' = [u \in Threads |-> op'[u]]
      /\ pc'[t] = "idle" /\ op'[t] = "none"
      /\ \A u \in Threads \ {t} : pc'[u] = pc[u] /\ op'[u] = op[u]
  BY <1>1, Placed DEF LifeInv
<1>3. arg[t] \in Handles /\ os[t] = "running" /\ ~Inside(t)' /\ ~In(t, "create", "return")' /\ op[t] # "detach" /\ pc[t] = "return"
  BY <1>1, <1>2, CallStage DEF LifeInv, Knows, Inside, In
<1>4. st' \in [Structs -> Struct] /\ Queue' /\ \A z \in Structs : Goes(z)
  BY <1>1, StructsStay
<1>5. LifeTypes' /\ Passed
  BY <1>1, <1>2, <1>3, <1>4 DEF LifeInv, LifeTypes, Passed
<1>6. \A u \in Threads \ {t} : Stays(u)
  BY <1>1, <1>2 DEF Stays, Async, Mine
<1>7. Stage(t)'
  <2>1. Mine(t)' = Mine(t) /\ InUse(self[t])' = InUse(self[t])
    BY <1>1 DEF Mine, InUse
  <2>2. self[t] # NoStruct => InUse(self[t]) /\ Mine(t).threadH = t /\ Mine(t).state # Last
    BY <1>3, OwnStruct, OwnState
  <2> QED BY <1>1, <1>2, <1>3, <2>1, <2>2 DEF Stage
<1>8. Moves(t)
  <2>1. \A z \in Structs : Owns(t, z) => Owns(t, z)'
    BY <1>1 DEF Owns, Handle
  <2>2. \A h \in Handles : ~Detaches(t, h) /\ ~IsAbout(t, h)'
    BY <1>3 DEF Detaches, IsAbout
  <2>3. \A z \in Structs : Handle(z) \in Handles
    BY DEF LifeInv, LifeTypes, Struct, Handles, Handle
  <2>4. Knows(t)'
    BY <1>2, <1>3 DEF Knows, In
  <2> QED BY <1>3, <1>7, <2>1, <2>2, <2>3, <2>4 DEF Moves
<1> QED BY <1>4, <1>5, <1>6, <1>8, Frame

\* A thread that is in no call comes into being.
LEMMA ThreadStartStep == ASSUME LifeInv, NEW t \in Threads, ptw32_threadStart(t) PROVE LifeInv'
<1>1. /\ os[t] = "started" /\ GoesTo(t, "none", "idle") /\ os' = [os EXCEPT ![t] = "running"]
      /\ self' = [self EXCEPT ![t] = arg[t][1]] /\ st' = [st EXCEPT ![arg[t][1]].state = Running]
      /\ UNCHANGED <<reuse, fresh, arg, given, joinable>>
  BY DEF ptw32_threadStart, GoesTo, others
<1>2. /\ ~Inside(t) /\ self[t] = NoStruct /\ arg[t][1] \in Structs /\ Current(arg[t]) /\ InUse(arg[t][1])
      /\ st[arg[t][1]].threadH = t /\ ~st[arg[t][1]].async /\ st[arg[t][1]].state # Last
  BY <1>1 DEF LifeInv, Stage
<1>3. PICK s \in Structs : s = arg[t][1]
  BY <1>2
<1>4. /\ pc' = [u \in Threads |-> pc'[u]] /\ op' = [u \in Threads |-> op'[u]]
      /\ pc'[t] = "idle" /\ op'[t] = "none" /\ ~Inside(t)'
      /\ \A u \in Threads \ {t} : pc'[u] = pc[u] /\ op'[u] = op[u]
  BY <1>1, Placed DEF LifeInv, Inside
<1>5. /\ self' \in [Threads -> Structs \cup {NoStruct}] /\ os' \in [Threads -> {"none", "started", "running", "ended"}]
      /\ self'[t] = s /\ os'[t] = "running"
      /\ \A u \in Threads \ {t} : self'[u] = self[u] /\ os'[u] = os[u] /\ arg'[u] = arg[u]
  BY <1>1, <1>3 DEF LifeInv, LifeTypes
<1> DEFINE r == st'[s]
<1>6. /\ st' \in [Structs -> Struct] /\ \A z \in Structs \ {s} : st'[z] = st[z]
      /\ r.x = st[s].x /\ r.threadH = st[s].threadH /\ r.detached = st[s].detached /\ r.async = st[s].async
      /\ r.state # Last /\ r.state # Reuse
  <2>1. st \in [Structs -> Struct] /\ st' = [st EXCEPT ![s].state = Running]
    BY <1>1, <1>3 DEF LifeInv, LifeTypes
  <2> QED BY <2>1 DEF Struct, Running, Last, Reuse
<1>7. r = st'[s]
  OBVIOUS
<1> HIDE DEF r
<1>8. Queue' /\ \A z \in Structs : Goes(z)
  BY <1>1, <1>2, <1>3, <1>6, <1>7, StructChanges
<1>9. LifeTypes' /\ Passed
  BY <1>1, <1>2, <1>4, <1>5, <1>6 DEF LifeInv, LifeTypes, Passed, In, Inside
<1>10. \A u \in Threads \ {t} : Stays(u)
  <2>1. \A u \in Threads \ {t} : self[u] # s
    BY <1>2, <1>3, OwnStruct, StructsAssumption
  <2> QED BY <1>4, <1>5, <1>6, <2>1, OthersStay
<1>11. Stage(t)'
  <2>1. InUse(self[t])' /\ Mine(t)' = st'[s]
    BY <1>2, <1>3, <1>5, <1>8 DEF Goes, Mine, InUse
  <2> QED BY <1>2, <1>3, <1>4, <1>5, <1>6, <1>7, <2>1 DEF Stage
<1>12. Moves(t)
  <2>1. \A z \in Structs : Owns(t, z) => Owns(t, z)'
    BY <1>1, <1>2, <1>3, <1>5, <1>6, <1>7, StructsAssumption DEF Owns, Handle
  <2>2. \A h : ~Detaches(t, h) /\ ~IsAbout(t, h)'
    BY <1>2, <1>4 DEF Detaches, IsAbout
  <2>3. Knows(t)' /\ ~In(t, "create", "return")'
    BY <1>4 DEF Knows, In
  <2> QED BY <1>11, <2>1, <2>2, <2>3 DEF Moves
<1> QED BY <1>8, <1>9, <1>10, <1>12, Frame

\* A thread ends.
LEMMA EndSteps == ASSUME LifeInv, NEW t \in Threads, pthread_exit(t) \/ ThreadEnds(t) PROVE LifeInv'
<1>1. /\ Inside(t) /\ op[t] \in {"exit", "end"} /\ GoesTo(t, op[t], "exited") /\ os' = [os EXCEPT ![t] = "ended"]
      /\ UNCHANGED <<st, reuse, fresh, arg, given, joinable>>
  BY CallGoes DEF pthread_exit, ThreadEnds, In, Inside, others, LifeInv
<1>2. os[t] = "running" /\ self' = [self EXCEPT ![t] = NoStruct]
  <2>1. CASE pthread_exit(t)
    <3>1. self[t] = NoStruct /\ self' = self
      BY <2>1 DEF pthread_exit
    <3> QED BY <1>1, <3>1, CallStage DEF LifeInv, LifeTypes
  <2>2. CASE ThreadEnds(t)
    BY <1>1, <2>2, CallStage DEF ThreadEnds
  <2> QED BY <2>1, <2>2
<1>3. /\ pc' = [u \in Threads |-> pc'[u]] /\ op' = [u \in Threads |-> op'[u]]
      /\ pc'[t] = "exited" /\ op'[t] = op[t] /\ ~Inside(t)'
      /\ \A u \in Threads \ {t} : pc'[u] = pc[u] /\ op'[u] = op[u]
  BY <1>1, Placed DEF LifeInv, Inside
<1>4. /\ self' \in [Threads -> Structs \cup {NoStruct}] /\ os' \in [Threads -> {"none", "started", "running", "ended"}]
      /\ self'[t] = NoStruct /\ os'[t] = "ended"
      /\ \A u \in Threads \ {t} : self'[u] = self[u] /\ os'[u] = os[u] /\ arg'[u] = arg[u]
  BY <1>1, <1>2 DEF LifeInv, LifeTypes
<1>5. st' \in [Structs -> Struct] /\ Queue' /\ \A z \in Structs : Goes(z)
  BY <1>1, StructsStay
<1>6. LifeTypes' /\ Passed
  BY <1>1, <1>3, <1>4, <1>5 DEF LifeInv, LifeTypes, Passed, In
<1>7. \A u \in Threads \ {t} : Stays(u)
  BY <1>1, <1>3, <1>4 DEF Stays, Async, Mine
<1>8. Stage(t)'
  BY <1>1, <1>3, <1>4 DEF Stage, Async, In
<1>9. Moves(t)
  <2>1. ASSUME NEW z \in Structs, Owns(t, z) PROVE Owns(t, z)'
    <3>1. self[t] = z /\ self[t] # NoStruct /\ st[z].threadH = t
      BY <1>2, <2>1, StructsAssumption DEF Owns
    <3>2. pc[t] = "gone"
      BY <3>1 DEF pthread_exit, ThreadEnds, In
    <3>3. st[z].state = Last /\ ~st[z].detached
      BY <3>1, <3>2 DEF LifeInv, Stage, Mine
    <3> QED BY <1>1, <1>4, <3>1, <3>3 DEF Owns
  <2>2. \A h : ~Detaches(t, h) /\ ~IsAbout(t, h)'
    BY <1>1, <1>3 DEF Detaches, IsAbout
  <2>3. Knows(t)' /\ ~In(t, "create", "return")'
    BY <1>1, <1>3 DEF Knows, In
  <2> QED BY <1>8, <2>1, <2>2, <2>3 DEF Moves
<1> QED BY <1>5, <1>6, <1>7, <1>9, Frame

-----------------------------------------------------------------------------
(* The program's calls *)

\* Thread t calls f, about the handle h if f takes one.
LEMMA CallStep ==
  ASSUME LifeInv, NEW t \in Threads, NEW f, NEW h \in (Structs \cup {NoStruct}) \X Nat,
         GoesTo(t, f, "enter"), Idle(t), os[t] = "running", UNCHANGED <<st, reuse, fresh, self, os, given>>,
         arg' = [arg EXCEPT ![t] = h],
         f \in {"join", "detach", "cancel", "create"} => ~Async(t),
         f \in {"join", "detach", "cancel"} =>
           h \in Handles /\ h[2] <= st[h[1]].x /\ (Stale(h) \/ About(h) = {}),
         joinable' = joinable \/ (f = "detach" /\ joinable' = joinable \ {h}),
         f = "join" => h \in joinable \/ Stale(h),
         f = "detach" => Stale(h) \/ (h \in joinable /\ h \notin joinable')
  PROVE  LifeInv'
<1>1. /\ pc' = [u \in Threads |-> pc'[u]] /\ op' = [u \in Threads |-> op'[u]]
      /\ pc'[t] = "enter" /\ op'[t] = f /\ Inside(t)' /\ ~Inside(t)
      /\ \A u \in Threads \ {t} : pc'[u] = pc[u] /\ op'[u] = op[u]
  BY Placed DEF LifeInv, Inside, Idle
<1>2. /\ arg' \in [Threads -> (Structs \cup {NoStruct}) \X Nat] /\ arg'[t] = h
      /\ \A u \in Threads \ {t} : arg'[u] = arg[u]
  BY DEF LifeInv, LifeTypes
<1>3. st' \in [Structs -> Struct] /\ Queue' /\ \A z \in Structs : Goes(z)
  BY StructsStay
<1>4. LifeTypes'
  BY <1>1, <1>2, <1>3 DEF LifeInv, LifeTypes
<1>5. Passed
  BY <1>1, <1>2 DEF Passed, Detaches
<1>6. \A u \in Threads \ {t} : Stays(u)
  BY <1>1, <1>2 DEF Stays, Async, Mine
<1>7. Stage(t)'
  <2>1. Mine(t)' = Mine(t) /\ InUse(self[t])' = InUse(self[t]) /\ (Async(t)' <=> Async(t))
    BY DEF Mine, InUse, Async
  <2>2. self[t] # NoStruct => InUse(self[t]) /\ Mine(t).threadH = t /\ Mine(t).state # Last
    BY OwnStruct, OwnState DEF Idle
  <2> QED BY <1>1, <2>1, <2>2 DEF Stage
<1>8. Knows(t)'
  <2>1. (Stale(arg[t])' <=> Stale(h)) /\ (Good(arg[t])' <=> Good(h))
    BY <1>2 DEF Stale, Good, Current, InUse
  <2>2. h \in joinable => Good(h)
    BY DEF LifeInv
  <2>3. f = "join" => joinable' = joinable
    OBVIOUS
  <2> QED BY <1>1, <1>2, <2>1, <2>2, <2>3 DEF Knows, In
<1>9. Moves(t)
  <2>1. \A z \in Structs : Owns(t, z) => Owns(t, z)'
    BY DEF Owns
  <2>2. \A g : ~Detaches(t, g)
    BY <1>1 DEF Detaches
  <2>3. ASSUME NEW g \in Handles, IsAbout(t, g)' PROVE Stale(g) \/ \A u \in Threads \ {t} : ~IsAbout(u, g)'
    <3>1. g = h /\ f \in {"join", "detach", "cancel"}
      BY <1>1, <1>2, <2>3 DEF IsAbout
    <3>2. About(h) = {} => \A u \in Threads \ {t} : ~IsAbout(u, h)'
      BY <1>1, <1>2 DEF About, IsAbout, Inside
    <3> QED BY <3>1, <3>2
  <2>4. \A z \in Structs : Handle(z) \in Handles
    BY DEF LifeInv, LifeTypes, Struct, Handles, Handle
  <2> QED BY <1>1, <1>7, <1>8, <2>1, <2>2, <2>3, <2>4 DEF Moves, In
<1> QED BY <1>3, <1>4, <1>5, <1>6, <1>9, Frame

\* What the program may call keeps the invariant.
LEMMA CallsStep == ASSUME LifeInv, NEW t \in Threads, PopCall(t) \/ ThreadsCalls(t) PROVE LifeInv'
<1>1. UNCHANGED <<st, reuse, fresh, self, os, given>> /\ os[t] = "running"
  BY DEF PopCall, ThreadsCalls, threadVars
<1>2. \A f : Call(t, "threads", f) \/ Again(t, "threads", f) => GoesTo(t, f, "enter") /\ Idle(t)
  BY DEF Call, Again, GoesTo
<1>3. ASSUME NEW f, f \notin {"join", "detach", "cancel"}, f = "create" => ~Async(t), UNCHANGED <<arg, joinable>>,
             GoesTo(t, f, "enter"), Idle(t)
      PROVE  LifeInv'
  <2>1. arg[t] \in (Structs \cup {NoStruct}) \X Nat /\ arg' = [arg EXCEPT ![t] = arg[t]] /\ joinable' = joinable
    BY <1>3 DEF LifeInv, LifeTypes
  <2> QED BY <1>1, <1>3, <2>1, CallStep
<1>4. ASSUME NEW f, NEW h \in Handles, ~Async(t), arg' = [arg EXCEPT ![t] = h], GoesTo(t, f, "enter"), Idle(t),
             h[2] <= st[h[1]].x, Stale(h) \/ About(h) = {},
             joinable' = joinable \/ (f = "detach" /\ joinable' = joinable \ {h}),
             f = "join" => h \in joinable \/ Stale(h),
             f = "detach" => Stale(h) \/ (h \in joinable /\ h \notin joinable')
      PROVE  LifeInv'
  <2>1. h \in (Structs \cup {NoStruct}) \X Nat
    BY DEF Handles
  <2> QED BY <1>1, <1>4, <2>1, CallStep
<1>5. CASE PopCall(t)
  BY <1>2, <1>3, <1>5 DEF PopCall, threadVars
<1>6. CASE /\ \/ \E f \in {"setcancelstate", "setcanceltype", "testcancel"} : Call(t, "threads", f)
              \/ Call(t, "threads", "exit")
           /\ UNCHANGED <<arg, joinable>>
  BY <1>2, <1>3, <1>6
<1>7. CASE /\ ~Async(t)
           /\ \/ \E f \in {"create", "delay", "push"} : Call(t, "threads", f)
              \/ Call(t, "threads", "process_detach")
           /\ UNCHANGED <<arg, joinable>>
  BY <1>2, <1>3, <1>7
<1>8. ASSUME NEW h \in given, ~Async(t), arg' = [arg EXCEPT ![t] = h], h \in joinable, About(h) = {},
             \/ Call(t, "threads", "join") /\ UNCHANGED joinable
             \/ Call(t, "threads", "detach") /\ joinable' = joinable \ {h}
             \/ Call(t, "threads", "cancel") /\ UNCHANGED joinable
      PROVE  LifeInv'
  <2>1. h \in Handles /\ h[2] <= st[h[1]].x
    BY DEF LifeInv, LifeTypes, Past
  <2> QED BY <1>2, <1>4, <1>8, <2>1
<1>9. ASSUME NEW h \in given, ~Async(t), arg' = [arg EXCEPT ![t] = h], UNCHANGED joinable,
             ~Current(h) \/ st[h[1]].state = Reuse, NEW f, Call(t, "threads", f)
      PROVE  LifeInv'
  <2>1. h \in Handles /\ Past(h) /\ h[1] \in Structs
    BY DEF LifeInv, LifeTypes, Handles
  <2>2. ~Current(h)
    BY <1>9, <2>1 DEF LifeInv, Queue, Past
  <2>3. h[2] <= st[h[1]].x /\ Stale(h)
    BY <2>1, <2>2 DEF Past, Stale, Current, Handles, LifeInv, LifeTypes, Struct
  <2> QED BY <1>2, <1>4, <1>9, <2>1, <2>3
<1>10. ASSUME ~Async(t), self[Main] # NoStruct, About(Handle(self[Main])) = {},
              arg' = [arg EXCEPT ![t] = Handle(self[Main])], Call(t, "threads", "cancel"), UNCHANGED joinable
       PROVE  LifeInv'
  <2>1. PICK h \in Handles : h = Handle(self[Main]) /\ h[2] <= st[h[1]].x
    BY <1>10, StructsAssumption DEF LifeInv, LifeTypes, Struct, Handles, Handle
  <2> QED BY <1>2, <1>4, <1>10, <2>1
<1>11. CASE ThreadsCalls(t)
  BY <1>6, <1>7, <1>8, <1>9, <1>10, <1>11 DEF ThreadsCalls
<1> QED BY <1>5, <1>11

-----------------------------------------------------------------------------
(* Steps that take a structure for a thread *)

\* The structure, and the thread, that is taken is one of those there are.
LEMMA ChooseOne == ASSUME NEW S, S # {} PROVE (CHOOSE x \in S : TRUE) \in S
OBVIOUS

\* What ptw32_threadReusePop takes is in no use, and what is left of the queue
\* is the others.
LEMMA PoppedFree ==
  ASSUME LifeInv, NEW s \in Popped
  PROVE  /\ s \in Structs /\ ~InUse(s) /\ Rest \in Seq(Structs)
         /\ \A i, j \in DOMAIN Rest : i # j => Rest[i] # Rest[j]
         /\ \A i \in DOMAIN Rest : Rest[i] # s /\ Rest[i] \notin fresh
         /\ \A z \in Structs \ {s} : (\E i \in DOMAIN Rest : Rest[i] = z) <=> \E i \in DOMAIN reuse : reuse[i] = z
<1>1. reuse \in Seq(Structs) /\ fresh \subseteq Structs /\ Queue
  BY DEF LifeInv, LifeTypes
<1>2. CASE reuse # <<>>
  <2>1. s = Head(reuse) /\ Rest = Tail(reuse)
    BY <1>2 DEF Popped, Rest
  <2>2. /\ Head(reuse) \in Structs /\ Tail(reuse) \in Seq(Structs)
        /\ Len(Tail(reuse)) = Len(reuse) - 1 /\ Head(reuse) = reuse[1]
        /\ \A i \in 1..Len(Tail(reuse)) : Tail(reuse)[i] = reuse[i + 1]
    BY <1>1, <1>2, HeadTailProperties
  <2>3. /\ DOMAIN reuse = 1..Len(reuse) /\ DOMAIN Rest = 1..(Len(reuse) - 1) /\ Len(reuse) \in Nat /\ Len(reuse) >= 1
    <3>1. DOMAIN reuse = 1..Len(reuse) /\ Len(reuse) \in Nat
      BY <1>1, LenProperties
    <3>2. DOMAIN Rest = 1..Len(Rest) /\ Len(Rest) \in Nat
      BY <2>1, <2>2, LenProperties
    <3> QED BY <2>1, <2>2, <3>1, <3>2
  <2>4. \A i \in DOMAIN Rest : i + 1 \in DOMAIN reuse /\ Rest[i] = reuse[i + 1] /\ i + 1 # 1 /\ i \in Int
    BY <2>1, <2>2, <2>3
  <2>5. 1 \in DOMAIN reuse /\ s = reuse[1] /\ s \in Structs
    BY <2>1, <2>2, <2>3
  <2>6. ~InUse(s)
    BY <2>5 DEF InUse
  <2>7. \A i \in DOMAIN Rest : Rest[i] # s /\ Rest[i] \notin fresh
    BY <1>1, <2>4, <2>5 DEF Queue
  <2>8. \A i, j \in DOMAIN Rest : i # j => Rest[i] # Rest[j]
    <3> SUFFICES ASSUME NEW i \in DOMAIN Rest, NEW j \in DOMAIN Rest, i # j PROVE Rest[i] # Rest[j]
      OBVIOUS
    <3>1. i + 1 # j + 1
      BY <2>4
    <3> QED BY <1>1, <2>4, <3>1 DEF Queue
  <2>9. ASSUME NEW z \in Structs \ {s}, NEW i \in DOMAIN reuse, reuse[i] = z PROVE \E j \in DOMAIN Rest : Rest[j] = z
    <3>1. i # 1
      BY <2>5, <2>9
    <3>2. i - 1 \in DOMAIN Rest /\ (i - 1) + 1 = i
      BY <2>3, <3>1
    <3> QED BY <2>4, <2>9, <3>2
  <2> QED BY <2>1, <2>2, <2>4, <2>5, <2>6, <2>7, <2>8, <2>9
<1>3. CASE reuse = <<>>
  <2>1. fresh # {} /\ s = CHOOSE x \in fresh : TRUE
    BY <1>3 DEF Popped
  <2>2. s \in fresh
    BY <2>1, ChooseOne
  <2>3. Rest = <<>> /\ DOMAIN Rest = {} /\ DOMAIN reuse = {} /\ Rest \in Seq(Structs)
    BY <1>1, <1>3 DEF Rest
  <2> QED BY <1>1, <2>2, <2>3 DEF InUse
<1> QED BY <1>2, <1>3

\* ptw32_new.
LEMMA NewChanges ==
  ASSUME LifeInv, NEW s \in Popped, NEW t \in Threads, NEW d \in BOOLEAN, NEW i \in BOOLEAN, ptw32_new(s, t, d, i)
  PROVE  /\ s \in Structs /\ st' \in [Structs -> Struct] /\ reuse' \in Seq(Structs) /\ fresh' \subseteq Structs /\ Queue'
         /\ ~InUse(s) /\ InUse(s)' /\ st'[s].x = st[s].x /\ st'[s].threadH = t /\ st'[s].state = Initial
         /\ st'[s].detached = d /\ ~st'[s].async
         /\ \A z \in Structs \ {s} : Goes(z) /\ st'[z] = st[z]
<1>1. /\ s \in Structs /\ ~InUse(s) /\ Rest \in Seq(Structs)
      /\ \A k, j \in DOMAIN Rest : k # j => Rest[k] # Rest[j]
      /\ \A k \in DOMAIN Rest : Rest[k] # s /\ Rest[k] \notin fresh
      /\ \A z \in Structs \ {s} : (\E k \in DOMAIN Rest : Rest[k] = z) <=> \E k \in DOMAIN reuse : reuse[k] = z
  BY PoppedFree
<1>2. st \in [Structs -> Struct] /\ fresh \subseteq Structs /\ Queue /\ fresh' = fresh \ {s} /\ reuse' = Rest
  BY DEF LifeInv, LifeTypes, ptw32_new
<1> DEFINE c == Cleared(st[s].x)
           r == [c EXCEPT !.state = Initial, !.threadH = t, !.detached = d, !.implicit = i]
<1>3. st' = [st EXCEPT ![s] = r]
  BY DEF ptw32_new
<1>4. r \in Struct /\ r.x = st[s].x /\ r.threadH = t /\ r.state = Initial /\ r.detached = d /\ ~r.async /\ r.state # Reuse
  <2>1. st[s].x \in Nat
    BY <1>1, <1>2 DEF Struct
  <2>2. c \in Struct /\ c.x = st[s].x /\ ~c.async
    BY <2>1 DEF Cleared, Struct, Reuse
  <2> DEFINE r1 == [c EXCEPT !.state = Initial]
             r2 == [r1 EXCEPT !.threadH = t]
             r3 == [r2 EXCEPT !.detached = d]
             r4 == [r3 EXCEPT !.implicit = i]
  <2> HIDE DEF c
  <2>3. r1 \in Struct /\ r1.x = st[s].x /\ r1.state = Initial /\ ~r1.async
    BY <2>2 DEF Struct, Initial
  <2> HIDE DEF r1
  <2>4. r2 \in Struct /\ r2.x = st[s].x /\ r2.state = Initial /\ ~r2.async /\ r2.threadH = t
    BY <2>3 DEF Struct
  <2> HIDE DEF r2
  <2>5. r3 \in Struct /\ r3.x = st[s].x /\ r3.state = Initial /\ ~r3.async /\ r3.threadH = t /\ r3.detached = d
    BY <2>4 DEF Struct
  <2> HIDE DEF r3
  <2>6. r4 \in Struct /\ r4.x = st[s].x /\ r4.state = Initial /\ ~r4.async /\ r4.threadH = t /\ r4.detached = d
    BY <2>5 DEF Struct
  <2>7. r = r4
    BY DEF r1, r2, r3
  <2> HIDE DEF r, r4
  <2> QED BY <2>6, <2>7 DEF Initial, Reuse
<1> HIDE DEF r
<1>5. st' \in [Structs -> Struct] /\ st'[s] = r /\ \A z \in Structs \ {s} : st'[z] = st[z]
  BY <1>1, <1>2, <1>3, <1>4
<1>6. InUse(s)' /\ \A z \in Structs \ {s} : InUse(z)' = InUse(z)
  <2>1. \A z : InUse(z)' <=> z \notin fresh' /\ ~\E k \in DOMAIN Rest : Rest[k] = z
    BY <1>2 DEF InUse
  <2>2. \A z : InUse(z) <=> z \notin fresh /\ ~\E k \in DOMAIN reuse : reuse[k] = z
    BY DEF InUse
  <2> QED BY <1>1, <1>2, <2>1, <2>2
<1>7. Queue'
  <2>1. \A z \in Structs : InUse(z)' <=> st'[z].state # Reuse
    BY <1>2, <1>4, <1>5, <1>6 DEF Queue
  <2> QED BY <1>1, <1>2, <2>1 DEF Queue
<1>8. \A z \in Structs \ {s} : Goes(z) /\ st'[z] = st[z]
  BY <1>5, <1>6 DEF Goes
<1> QED BY <1>1, <1>2, <1>4, <1>5, <1>6, <1>7, <1>8

\* Nothing is known of a structure that is in no use.
LEMMA FreeStruct ==
  ASSUME LifeInv, NEW s \in Structs, ~InUse(s)
  PROVE  /\ \A u \in Threads : self[u] # s /\ ~Uses(u, s) /\ ~(In(u, "create", "return") /\ arg[u] = Handle(s))
         /\ Handle(s) \in Handles /\ Handle(s) \notin joinable /\ Handle(s) \notin given
<1>1. Handle(s) \in Handles /\ Handle(s)[1] = s /\ Current(Handle(s)) /\ ~Good(Handle(s)) /\ ~Past(Handle(s)) /\ ~Stale(Handle(s))
  BY DEF LifeInv, LifeTypes, Struct, Handles, Handle, Current, Good, Past, Stale
<1>2. ASSUME NEW u \in Threads PROVE ~Uses(u, s) /\ self[u] # s /\ ~(In(u, "create", "return") /\ arg[u] = Handle(s))
  <2>1. Stage(u) /\ Knows(u)
    BY DEF LifeInv
  <2>2. self[u] # s
    BY OwnStruct, StructsAssumption
  <2>3. ~(os[u] = "started" /\ arg[u][1] = s) /\ ~(In(u, "cancel", "pending") /\ arg[u][1] = s)
    BY <2>1 DEF Stage, Knows
  <2>4. ~(In(u, "detach", "destroy") /\ arg[u] = Handle(s)) /\ ~(In(u, "create", "return") /\ arg[u] = Handle(s))
    BY <1>1, <2>1 DEF Knows, In, Inside
  <2> QED BY <2>2, <2>3, <2>4 DEF Uses
<1> QED BY <1>1, <1>2 DEF LifeInv

\* ptw32_new fails, and so does the call.
LEMMA FailStep ==
  ASSUME LifeInv, NEW t \in Threads, NEW s \in Popped, NewFails(s), GoesTo(t, "none", "idle"),
         UNCHANGED <<self, os, arg, given, joinable>>,
         Inside(t), op[t] # "detach", pc[t] \notin {"last", "gone", "return"}
  PROVE  LifeInv'
<1>1. /\ s \in Structs /\ ~InUse(s) /\ Rest \in Seq(Structs)
      /\ \A k, j \in DOMAIN Rest : k # j => Rest[k] # Rest[j]
      /\ \A k \in DOMAIN Rest : Rest[k] # s /\ Rest[k] \notin fresh
      /\ \A z \in Structs \ {s} : (\E k \in DOMAIN Rest : Rest[k] = z) <=> \E k \in DOMAIN reuse : reuse[k] = z
  BY PoppedFree
<1>2. fresh' = fresh \ {s} /\ ptw32_threadReusePush(s, Rest)
  BY DEF NewFails
<1>3. /\ st' \in [Structs -> Struct] /\ reuse' \in Seq(Structs) /\ fresh' \subseteq Structs /\ Queue'
      /\ ~InUse(s)' /\ st'[s].x = st[s].x + 1
      /\ \A z \in Structs \ {s} : Goes(z) /\ st'[z] = st[z]
  BY <1>1, <1>2, PushChanges
<1>4. /\ \A u \in Threads : self[u] # s /\ ~Uses(u, s)
      /\ Handle(s) \notin joinable
  BY <1>1, FreeStruct
<1>5. /\ pc' = [u \in Threads |-> pc'[u]] /\ op' = [u \in Threads |-> op'[u]]
      /\ pc'[t] = "idle" /\ op'[t] = "none" /\ ~Inside(t)'
      /\ \A u \in Threads \ {t} : pc'[u] = pc[u] /\ op'[u] = op[u]
  BY Placed DEF LifeInv, Inside
<1>6. LifeTypes' /\ Passed
  BY <1>3, <1>5 DEF LifeInv, LifeTypes, Passed, In
<1>7. \A u \in Threads \ {t} : Stays(u)
  BY <1>3, <1>4, <1>5, OthersStay
<1>8. Pushed(s)
  BY <1>3, <1>4 DEF Pushed
<1>9. Stage(t)'
  <2>1. self[t] # NoStruct =>
          /\ InUse(self[t])' /\ Mine(t)' = st[self[t]] /\ Mine(t)'.threadH = t /\ Mine(t)'.state # Last
    <3>1. self[t] # NoStruct => /\ self[t] \in Structs \ {s} /\ InUse(self[t]) /\ st[self[t]].threadH = t
                                /\ Mine(t) = st[self[t]] /\ Mine(t).state # Last
      BY <1>4, OwnStruct, OwnState
    <3>2. self[t] # NoStruct => InUse(self[t])' /\ Mine(t)' = st[self[t]]
      BY <1>3, <3>1 DEF Goes, Mine, InUse
    <3> QED BY <3>1, <3>2
  <2> QED BY <1>5, <2>1, CallStage DEF Stage
<1>10. Moves(t)
  <2>1. \A z \in Structs : InUse(z)' /\ Owns(t, z) => Owns(t, z)'
    BY <1>3 DEF Owns, Handle
  <2>2. \A h : ~Detaches(t, h) /\ ~IsAbout(t, h)'
    BY <1>5 DEF Detaches, IsAbout
  <2>3. Knows(t)' /\ ~In(t, "create", "return")'
    BY <1>5 DEF Knows, In
  <2> QED BY <1>9, <2>1, <2>2, <2>3 DEF Moves
<1> QED BY <1>3, <1>6, <1>7, <1>8, <1>10, Frame

\* A thread that pthread_create did not make gets a structure, detached.
LEMMA SelfStep == ASSUME LifeInv, NEW t \in Threads, pthread_self(t) PROVE LifeInv'
<1>1. /\ self[t] = NoStruct /\ op[t] \in Needing /\ pc[t] \in {"self", "enter"} /\ Inside(t)
      /\ UNCHANGED <<os, arg, given, joinable>>
  BY DEF pthread_self, Inside, others
<1>2. os[t] = "running" /\ op[t] # "detach" /\ op[t] # "create"
  BY <1>1, CallStage DEF Needing
<1>3. ASSUME NEW s \in Popped, ptw32_new(s, t, TRUE, TRUE), self' = [self EXCEPT ![t] = s], UNCHANGED callVars
      PROVE  LifeInv'
  <2>1. /\ s \in Structs /\ st' \in [Structs -> Struct] /\ reuse' \in Seq(Structs) /\ fresh' \subseteq Structs /\ Queue'
        /\ ~InUse(s) /\ InUse(s)' /\ st'[s].x = st[s].x /\ st'[s].threadH = t /\ st'[s].state = Initial
        /\ st'[s].detached = TRUE /\ ~st'[s].async
        /\ \A z \in Structs \ {s} : Goes(z) /\ st'[z] = st[z]
    BY <1>3, NewChanges
  <2>2. /\ \A u \in Threads : self[u] # s /\ ~Uses(u, s)
        /\ Handle(s) \notin joinable
    BY <2>1, FreeStruct
  <2>3. /\ self' \in [Threads -> Structs \cup {NoStruct}] /\ self'[t] = s
        /\ \A u \in Threads \ {t} : self'[u] = self[u]
        /\ pc' = pc /\ op' = op
    BY <1>3, <2>1 DEF LifeInv, LifeTypes, callVars
  <2>4. LifeTypes' /\ Passed
    BY <1>1, <2>1, <2>3 DEF LifeInv, LifeTypes, Passed, In
  <2>5. \A u \in Threads \ {t} : Stays(u)
    <3>1. \A u \in Threads \ {t} : /\ pc'[u] = pc[u] /\ op'[u] = op[u]
                                   /\ self'[u] = self[u] /\ os'[u] = os[u] /\ arg'[u] = arg[u]
      BY <1>1, <2>3
    <3>2. (\A u \in Threads \ {t} : self[u] # s) /\ \A z \in Structs \ {s} : st'[z] = st[z]
      BY <2>1, <2>2
    <3> QED BY <3>1, <3>2, OthersStay
  <2>6. Taken(s)
    <3>1. Owns(t, s)'
      BY <2>1, <2>3 DEF Owns
    <3> QED BY <2>1, <3>1 DEF Taken, Owned, Kept
  <2>7. Stage(t)'
    <3>1. InUse(self[t])' /\ Mine(t)' = st'[s]
      BY <2>1, <2>3 DEF Mine, InUse
    <3> QED BY <1>1, <1>2, <2>1, <2>3, <3>1 DEF Stage, Async, Initial, Last
  <2>8. Knows(t)'
    <3>1. Knows(t) /\ \A z \in Structs : st'[z].x = st[z].x
      BY <2>1 DEF LifeInv, Goes
    <3> QED BY <1>1, <1>2, <2>3, <3>1 DEF Knows, In, Inside, Handles, Stale
  <2>9. Moves(t)
    <3>1. \A z \in Structs : InUse(z)' /\ Owns(t, z) => Owns(t, z)'
      BY <1>1, <1>2, StructsAssumption DEF Owns
    <3>2. \A h : ~Detaches(t, h) /\ (IsAbout(t, h)' => IsAbout(t, h)) /\ ~In(t, "create", "return")'
      BY <1>1, <1>2, <2>3 DEF Detaches, IsAbout, Inside, In
    <3> QED BY <2>7, <2>8, <3>1, <3>2 DEF Moves
  <2> QED BY <2>1, <2>4, <2>5, <2>6, <2>9, Frame
<1>4. ASSUME NEW s \in Popped, NewFails(s), Return(t, "ENOENT"), UNCHANGED self PROVE LifeInv'
  <2>1. GoesTo(t, "none", "idle")
    BY <1>4, CallGoes DEF LifeInv
  <2> QED BY <1>1, <1>2, <1>4, <2>1, FailStep
<1>5. ASSUME Return(t, "ENOMEM"), UNCHANGED <<st, reuse, fresh, self>> PROVE LifeInv'
  <2>1. GoesTo(t, "none", "idle")
    BY <1>5, CallGoes DEF LifeInv
  <2> QED BY <1>1, <1>2, <1>5, <2>1, QuietStep
<1> QED BY <1>3, <1>4, <1>5 DEF pthread_self

\* A thread that is created is not there yet.
LEMMA FreeThreads ==
  ASSUME LifeInv, NEW u \in FreeThread
  PROVE  u \in Threads /\ os[u] \in {"none", "ended"} /\ \A s \in Structs : st[s].threadH # u
<1> DEFINE free == {v \in AtOnce : os[v] \in {"none", "ended"} /\ \A s \in Structs : st[s].threadH # v}
<1>1. free # {} /\ u = CHOOSE v \in free : TRUE
  BY DEF FreeThread
<1>2. u \in free
  <2> HIDE DEF free
  <2> QED BY <1>1, ChooseOne
<1> QED BY <1>2, StructsAssumption

\* A thread is created, and begins to be: it may run before the call returns.
LEMMA CreateStep == ASSUME LifeInv, NEW t \in Threads, pthread_create(t) PROVE LifeInv'
<1>1. op[t] = "create" /\ pc[t] = "enter" /\ Inside(t) /\ UNCHANGED <<self, given>>
  BY DEF pthread_create, In, Inside
<1>2. os[t] = "running" /\ ~Async(t)
  BY <1>1, CallStage DEF LifeInv, Stage
<1>3. ASSUME NEW s \in Popped, NEW u \in FreeThread, NEW d \in BOOLEAN, ptw32_new(s, u, d, FALSE),
             os' = [os EXCEPT ![u] = "started"], arg' = [arg EXCEPT ![t] = Handle(s), ![u] = Handle(s)],
             Goto(t, "return"), joinable' = IF d THEN joinable ELSE joinable \cup {Handle(s)}
      PROVE  LifeInv'
  <2>1. u \in Threads /\ os[u] \in {"none", "ended"} /\ \A z \in Structs : st[z].threadH # u
    BY FreeThreads
  <2>2. u # t /\ ~Inside(u) /\ self[u] = NoStruct
    BY <1>2, <2>1 DEF LifeInv, Stage
  <2>3. /\ s \in Structs /\ st' \in [Structs -> Struct] /\ reuse' \in Seq(Structs) /\ fresh' \subseteq Structs /\ Queue'
        /\ ~InUse(s) /\ InUse(s)' /\ st'[s].x = st[s].x /\ st'[s].threadH = u /\ st'[s].state = Initial
        /\ st'[s].detached = d /\ ~st'[s].async
        /\ \A z \in Structs \ {s} : Goes(z) /\ st'[z] = st[z]
    BY <1>3, <2>1, NewChanges
  <2>4. /\ \A v \in Threads : self[v] # s /\ ~(In(v, "create", "return") /\ arg[v] = Handle(s))
        /\ Handle(s) \in Handles /\ Handle(s) \notin given
    BY <2>3, FreeStruct
  <2>5. PICK h \in Handles : h = Handle(s) /\ h[1] = s /\ h[2] = st[s].x /\ Handle(s)' = h
    BY <2>3, <2>4 DEF Handle
  <2>6. /\ arg' = [arg EXCEPT ![t] = h, ![u] = h]
        /\ joinable' = IF d THEN joinable ELSE joinable \cup {h}
        /\ \A v \in Threads : ~(In(v, "create", "return") /\ arg[v] = h)
        /\ h \notin given
    BY <1>3, <2>4, <2>5
  <2>7. /\ arg' \in [Threads -> (Structs \cup {NoStruct}) \X Nat] /\ arg'[t] = h /\ arg'[u] = h
        /\ os' \in [Threads -> {"none", "started", "running", "ended"}] /\ os'[u] = "started"
        /\ \A v \in Threads \ {t, u} : arg'[v] = arg[v]
        /\ \A v \in Threads \ {u} : os'[v] = os[v]
    <3>1. h \in (Structs \cup {NoStruct}) \X Nat
      BY DEF Handles
    <3>2. arg \in [Threads -> (Structs \cup {NoStruct}) \X Nat] /\ os \in [Threads -> {"none", "started", "running", "ended"}]
      BY DEF LifeInv, LifeTypes
    <3>3. arg' \in [Threads -> (Structs \cup {NoStruct}) \X Nat] /\ arg'[t] = h /\ arg'[u] = h
          /\ \A v \in Threads \ {t, u} : arg'[v] = arg[v]
      BY <2>1, <2>6, <3>1, <3>2
    <3>4. /\ os' \in [Threads -> {"none", "started", "running", "ended"}] /\ os'[u] = "started"
          /\ \A v \in Threads \ {u} : os'[v] = os[v]
      BY <1>3, <2>1, <3>2
    <3> QED BY <3>3, <3>4
  <2>8. /\ pc' = [v \in Threads |-> pc'[v]] /\ op' = [v \in Threads |-> op'[v]]
        /\ pc'[t] = "return" /\ op'[t] = "create"
        /\ \A v \in Threads \ {t} : pc'[v] = pc[v] /\ op'[v] = op[v]
    BY <1>1, <1>3, CallGoes, Placed DEF LifeInv
  <2>9. LifeTypes'
    BY <1>1, <2>3, <2>5, <2>6, <2>7, <2>8 DEF LifeInv, LifeTypes
  <2>10. /\ Current(h)' /\ ~Stale(h)' /\ InUse(h[1])' /\ (~d => Good(h)') /\ Past(h)'
    <3>1. st'[h[1]].x = h[2] /\ h[2] \in Nat
      BY <2>3, <2>5 DEF Handles
    <3>2. InUse(h[1])'
      BY <2>3, <2>5 DEF InUse
    <3> QED BY <2>3, <2>5, <3>1, <3>2 DEF Current, Stale, Good, Past
  <2>11. Passed
    <3>1. \A g \in joinable' : g \in joinable \/ (Good(g)' /\ ~InUse(g[1]))
      BY <2>3, <2>5, <2>6, <2>10
    <3> QED BY <1>1, <2>6, <3>1 DEF Passed
  <2>12. ASSUME NEW v \in Threads \ {t, u} PROVE Stays(v)
    <3>1. self[v] # NoStruct => self[v] \in Structs \ {s} /\ Mine(v)' = Mine(v)
      BY <1>1, <2>3, <2>4, OwnStruct DEF Mine
    <3> QED BY <1>1, <2>7, <2>8, <3>1 DEF Stays, Async
  <2>13. Taken(s)
    <3>1. Owns(u, s)'
      BY <2>3, <2>5, <2>7 DEF Owns
    <3>2. ~d => Handle(s)' \in joinable'
      BY <2>5, <2>6
    <3> QED BY <2>1, <2>3, <3>1, <3>2 DEF Taken, Owned, Kept
  <2>14. Moves(t)
    <3>1. Stage(t)'
      <4>1. self[t] # NoStruct => /\ self[t] \in Structs \ {s} /\ InUse(self[t]) /\ st[self[t]].threadH = t
                                  /\ Mine(t) = st[self[t]] /\ Mine(t).state # Last
        BY <1>1, <2>4, OwnStruct, OwnState
      <4>2. self[t] # NoStruct => InUse(self[t])' /\ Mine(t)' = Mine(t)
        BY <1>1, <2>3, <4>1 DEF Goes, Mine, InUse
      <4>3. ~Async(t)'
        BY <1>1, <1>2, <4>2 DEF Async
      <4> QED BY <1>1, <1>2, <2>2, <2>7, <2>8, <4>1, <4>2, <4>3 DEF Stage
    <3>2. Knows(t)'
      <4>1. Past(arg[t])' <=> Past(h)'
        BY <2>7 DEF Past, Current, InUse
      <4> QED BY <1>1, <2>5, <2>6, <2>7, <2>8, <2>10, <4>1 DEF Knows, In
    <3>3. \A z \in Structs : InUse(z)' /\ Owns(t, z) => Owns(t, z)'
      <4>1. \A z \in Structs : Owns(t, z) => self[t] = z /\ z # s /\ st[z].threadH = t
        BY <1>2, <2>4 DEF Owns
      <4> QED BY <1>1, <2>3, <4>1 DEF Owns
    <3>4. \A g : ~Detaches(t, g) /\ ~IsAbout(t, g)'
      BY <1>1, <2>8 DEF Detaches, IsAbout
    <3>5. ASSUME NEW v \in Threads \ {t}, In(v, "create", "return")' PROVE arg'[v] # arg'[t]
      <4>1. In(v, "create", "return")
        BY <2>8, <3>5 DEF In
      <4>2. v # u
        BY <2>2, <4>1 DEF In, Inside
      <4> QED BY <2>6, <2>7, <4>1, <4>2
    <3> QED BY <3>1, <3>2, <3>3, <3>4, <3>5 DEF Moves
  <2>15. Moves(u)
    <3>1. ~Inside(u)' /\ self'[u] = NoStruct
      BY <1>1, <2>1, <2>2, <2>8 DEF Inside
    <3>2. Stage(u)'
      <4>1. (Current(arg[u])' <=> Current(h)') /\ InUse(arg[u][1])' = InUse(h[1])'
        BY <2>7 DEF Current, InUse
      <4> QED BY <2>3, <2>5, <2>7, <2>10, <3>1, <4>1 DEF Stage, Inside, Async, Initial, Last
    <3>3. \A z \in Structs : ~Owns(u, z)
      BY <2>1 DEF Owns
    <3>4. \A g : ~Detaches(u, g) /\ ~IsAbout(u, g)'
      BY <2>2, <3>1 DEF Detaches, IsAbout
    <3>5. Knows(u)' /\ ~In(u, "create", "return")'
      BY <3>1 DEF Knows, In, Inside
    <3> QED BY <3>2, <3>3, <3>4, <3>5 DEF Moves
  <2> QED BY <2>3, <2>9, <2>11, <2>12, <2>13, <2>14, <2>15, Frame
<1>4. ASSUME NEW s \in Popped, NewFails(s), Return(t, "EAGAIN"), UNCHANGED <<os, arg, joinable>> PROVE LifeInv'
  <2>1. GoesTo(t, "none", "idle")
    BY <1>4, CallGoes DEF LifeInv
  <2> QED BY <1>1, <1>2, <1>4, <2>1, FailStep
<1>5. ASSUME Return(t, "EAGAIN"), UNCHANGED <<st, reuse, fresh, os, arg, joinable>> PROVE LifeInv'
  <2>1. GoesTo(t, "none", "idle")
    BY <1>5, CallGoes DEF LifeInv
  <2> QED BY <1>1, <1>2, <1>5, <2>1, QuietStep
<1> QED BY <1>3, <1>4, <1>5 DEF pthread_create

-----------------------------------------------------------------------------
(* The invariant holds *)

\* Before the first call only the main thread is there.
LEMMA LifeInit == ASSUME CallsInit({"threads"}), ThreadsInit PROVE object = "threads" /\ LifeInv
<1>1. /\ st = [s \in Structs |-> Cleared(0)] /\ reuse = <<>> /\ fresh = Structs
      /\ self = [t \in Threads |-> NoStruct] /\ arg = [t \in Threads |-> <<NoStruct, 0>>]
      /\ os = [t \in Threads |-> IF t = Main THEN "running" ELSE "none"]
      /\ given = {} /\ joinable = {} /\ object = "threads"
      /\ pc = [t \in Threads |-> "idle"] /\ op = [t \in Threads |-> "none"]
  BY DEF CallsInit, ThreadsInit
<1>2. Cleared(0) \in Struct /\ Cleared(0).state = Reuse
  BY DEF Cleared, Struct, Reuse
<1>3. st \in [Structs -> Struct] /\ \A s \in Structs : st[s].state = Reuse
  BY <1>1, <1>2
<1>4. reuse \in Seq(Structs) /\ DOMAIN reuse = {}
  BY <1>1
<1>5. LifeTypes
  BY <1>1, <1>3, <1>4 DEF LifeTypes, Handles
<1>6. \A s \in Structs : ~InUse(s)
  BY <1>1 DEF InUse
<1>7. Queue /\ \A s \in Structs : Owned(s) /\ Kept(s)
  BY <1>3, <1>4, <1>6 DEF Queue, Owned, Kept
<1>8. \A t \in Threads : ~Inside(t) /\ self[t] = NoStruct /\ os[t] # "started" /\ pc[t] = "idle" /\ op[t] = "none"
  BY <1>1 DEF Inside
<1>9. \A t \in Threads : Stage(t) /\ Knows(t)
  BY <1>8 DEF Stage, Knows, Async, In
<1>10. \A t, u \in Threads : Separate(t, u)
  BY <1>8 DEF Separate, IsAbout, In
<1> QED BY <1>1, <1>5, <1>7, <1>9, <1>10 DEF LifeInv

\* Every step of the library, while it is up, keeps the invariant.
LEMMA LibraryStep ==
  ASSUME LifeInv, NEW t \in Threads, ThreadsNext(t), process' = "up" PROVE LifeInv'
<1>1. CASE pthread_self(t) \/ pthread_create(t) \/ CreateReturn(t) \/ ptw32_threadStart(t)
  BY <1>1, SelfStep, CreateStep, CreateReturnStep, ThreadStartStep
<1>2. CASE ptw32_throw(t) \/ pthread_exit(t) \/ pthread_win32_thread_detach_np(t) \/ ThreadEnds(t)
  BY <1>2, EndBegins, EndSteps, DetachLastStep, DetachDestroyStep DEF pthread_win32_thread_detach_np
<1>3. CASE pthread_join(t) \/ pthread_detach(t) \/ DetachWait(t) \/ pthread_kill(t)
  BY <1>3, LookingSteps, WaitStep, DetachStep, DetachWaitStep DEF pthread_join
<1>4. CASE pthread_cancel(t) \/ ptw32_push_cleanup(t) \/ ptw32_pop_cleanup(t)
  BY <1>4, LookingSteps, CancelAsyncStep, CancelPendStep DEF pthread_cancel
<1>5. CASE pthread_setcancelstate(t) \/ pthread_setcanceltype(t) \/ pthread_testcancel(t) \/ pthread_delay_np(t)
  BY <1>5, SetSteps
<1>6. CASE pthread_win32_process_detach_np(t)
  BY <1>6 DEF pthread_win32_process_detach_np
<1> QED BY <1>1, <1>2, <1>3, <1>4, <1>5, <1>6 DEF ThreadsNext

\* The library is not brought up again, and the program uses no other objects.
LEMMA DownForGood ==
  ASSUME NEW t \in Threads, ThreadsNext(t) \/ PopCall(t) \/ ThreadsCalls(t) \/ StartReturns(t)
  PROVE  object' = object /\ (process' = "up" => process = "up")
<1>1. \A l, r, h, f : /\ Goto(t, l) => object' = object
                      /\ Return(t, r) => object' = object
                      /\ ReturnHolding(t, r, h) => object' = object
                      /\ Call(t, "threads", f) => object' = object
                      /\ Again(t, "threads", f) => object' = object
  BY DEF Goto, Return, ReturnHolding, Call, Again
<1>2. UNCHANGED callVars => object' = object
  BY DEF callVars
<1>3. CASE pthread_self(t) \/ pthread_create(t) \/ CreateReturn(t) \/ ptw32_threadStart(t)
  BY <1>1, <1>2, <1>3 DEF pthread_self, pthread_create, CreateReturn, ptw32_threadStart, others
<1>4. CASE ptw32_throw(t) \/ pthread_exit(t) \/ pthread_win32_thread_detach_np(t) \/ ThreadEnds(t)
  BY <1>1, <1>4 DEF ptw32_throw, pthread_exit, pthread_win32_thread_detach_np, DetachLast, DetachDestroy, ThreadEnds, others
<1>5. CASE pthread_join(t) \/ pthread_detach(t) \/ DetachWait(t) \/ pthread_kill(t)
  BY <1>1, <1>5 DEF pthread_join, JoinCheck, JoinSelf, pthreadCancelableWait, pthread_detach, DetachWait, pthread_kill,
                    others, threadVars
<1>6. CASE pthread_cancel(t) \/ ptw32_push_cleanup(t) \/ ptw32_pop_cleanup(t)
  BY <1>1, <1>6 DEF pthread_cancel, CancelAsync, CancelLook, CancelPend, ptw32_push_cleanup, ptw32_pop_cleanup,
                    others, threadVars
<1>7. CASE pthread_setcancelstate(t) \/ pthread_setcanceltype(t) \/ pthread_testcancel(t) \/ pthread_delay_np(t)
  BY <1>1, <1>7 DEF pthread_setcancelstate, pthread_setcanceltype, Enabled, pthread_testcancel, pthread_delay_np, others
<1>8. CASE pthread_win32_process_detach_np(t)
  BY <1>1, <1>8 DEF pthread_win32_process_detach_np
<1>9. CASE PopCall(t) \/ ThreadsCalls(t) \/ StartReturns(t)
  BY <1>1, <1>9 DEF PopCall, ThreadsCalls, StartReturns, others, threadVars
<1> QED BY <1>3, <1>4, <1>5, <1>6, <1>7, <1>8, <1>9 DEF ThreadsNext

\* So does every step of the specification.
LEMMA LifeStep ==
  ASSUME UpInv, [ThreadsStep]_<<callVars, threadVars>> PROVE UpInv'
<1>1. CASE ThreadsStep
  <2>1. PICK t \in Threads : ThreadsNext(t) \/ PopCall(t) \/ ThreadsCalls(t) \/ StartReturns(t)
    BY <1>1 DEF ThreadsStep
  <2>2. object' = object /\ (process' = "up" => process = "up")
    BY <2>1, DownForGood
  <2>3. ASSUME process' = "up" PROVE LifeInv'
    BY <2>1, <2>2, <2>3, LibraryStep, CallsStep, EndBegins DEF UpInv
  <2> QED BY <2>2, <2>3 DEF UpInv
<1>2. CASE UNCHANGED <<callVars, threadVars>>
  <2> SUFFICES ASSUME LifeInv, UNCHANGED <<callVars, threadVars>> PROVE LifeInv'
    BY <1>2 DEF UpInv, callVars, threadVars
  <2>1. UNCHANGED <<pc, op, st, reuse, fresh, self, os, arg, given, joinable>>
    BY DEF callVars, threadVars
  <2>2. \A s \in Structs : Goes(s)
    BY <2>1, StructsStay
  <2>3. \A t \in Threads : Stays(t)
    BY <2>1 DEF Stays, Async, Mine
  <2>4. LifeTypes' /\ Queue' /\ Passed
    BY <2>1, StructsStay DEF LifeInv, LifeTypes, Passed
  <2> QED BY <2>2, <2>3, <2>4, Frame
<1> QED BY <1>1, <1>2

\* What a reader wants to know follows.
LEMMA LifeInStep == ASSUME UpInv PROVE StructsInStep
<1> SUFFICES ASSUME process = "up", LifeInv
             PROVE  /\ \A i, j \in DOMAIN reuse : i # j => reuse[i] # reuse[j]
                    /\ \A h \in joinable : Current(h) /\ InUse(h[1])
                    /\ \A t \in Threads : In(t, "create", "return") => arg[t] \notin given
                    /\ \A t \in Threads : self[t] # NoStruct => InUse(self[t]) /\ Mine(t).threadH = t
                    /\ \A s \in Structs : InUse(s) =>
                         \/ Handle(s) \in joinable
                         \/ \E t \in Threads : self[t] = s
                         \/ \E t \in Threads : os[t] = "started" /\ arg[t] = Handle(s)
                         \/ \E t \in Threads : Inside(t) /\ arg[t] = Handle(s)
  BY DEF UpInv, StructsInStep
<1>1. ASSUME NEW s \in Structs, InUse(s)
      PROVE  \/ Handle(s) \in joinable
             \/ \E t \in Threads : self[t] = s
             \/ \E t \in Threads : os[t] = "started" /\ arg[t] = Handle(s)
             \/ \E t \in Threads : Inside(t) /\ arg[t] = Handle(s)
  <2>1. PICK t \in Threads : Owns(t, s)
    BY <1>1 DEF LifeInv, Owned
  <2>2. st[s].detached \/ Handle(s) \in joinable \/ \E u \in Threads : Detaches(u, Handle(s))
    BY <1>1 DEF LifeInv, Kept
  <2> QED BY <2>1, <2>2 DEF Owns, Detaches
<1> QED BY <1>1 DEF LifeInv, Queue, Good, Knows, Stage

\* A structure is in the queue once or in use by one thread, a handle stays
\* good until its thread is joined or detached and never comes to name another
\* thread, and no structure is lost, however many threads are created, joined,
\* detached and cancelled at once.
THEOREM StructsStayInStep == ThreadsSpec => []StructsInStep
<1>1. CallsInit({"threads"}) /\ ThreadsInit => UpInv
  BY LifeInit DEF UpInv
<1>2. UpInv /\ [ThreadsStep]_<<callVars, threadVars>> => UpInv'
  BY LifeStep
<1>3. UpInv => StructsInStep
  BY LifeInStep
<1> QED BY <1>1, <1>2, <1>3, PTL DEF ThreadsSpec

=============================================================================
