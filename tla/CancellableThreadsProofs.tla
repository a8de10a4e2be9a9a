------------------------ MODULE CancellableThreadsProofs ------------------------
(***************************************************************************)
(* Lemmas about CancellableThreads, for any number of objects, threads and *)
(* cancellers: what its steps preserve.  DiscoveryProofs draws the         *)
(* theorems from them.                                                     *)
(***************************************************************************)
EXTENDS CancellableThreads, FiniteSetTheorems, TLAPS

(* t alone runs its object, which has a ThreadInfo from registerThread to  *)
(* unregisterThread, and an HTTP task only in between.                     *)
PoolOK(t) ==
    /\ pool[t].at = "idle" <=> pool[t].runs = NoTask
    /\ pool[t].runs # NoTask => phase[pool[t].runs] = "running"
    /\ \A u \in PoolThreads : pool[u].runs = pool[t].runs => u = t \/ pool[t].runs = NoTask
    /\ infoMap[t] \in {NoTask, pool[t].runs}
    /\ pool[t].at \in {"idle", "taken"} => infoMap[t] = NoTask
    /\ pool[t].at = "registering" => infoMap[t] = NoTask \/ call[t] = Out
    /\ pool[t].at = "registering" /\ call[t] = Out => infoMap[t] = pool[t].runs
    /\ pool[t].at \in {"task", "ending"} => infoMap[t] = pool[t].runs
    /\ taskMap[t] # 0 => pool[t].at \in {"task", "ending"}

(* A pool thread calls the methods of AsyncTaskManage for itself.          *)
ThreadCallOK(t) ==
    /\ call[t].op \in {"none", "register", "http", "unregister"}
    /\ call[t].at # "asking"
    /\ call[t] # Out => call[t].id = t /\ call[t].of = pool[t].runs
    /\ call[t].op = "register" => pool[t].at = "registering"
    /\ call[t].op = "http" => pool[t].at = "task"
    /\ call[t].op = "unregister" <=> pool[t].at = "ending"
    /\ call[t].at = "inside" => call[t].op = "http"

(* o has been run by no thread but t, which had registered it.             *)
Ran(o, t) ==
    /\ o \in Terminables
    /\ phase[o] \in {"running", "ended"}
    /\ \A u \in PoolThreads : pool[u].runs = o => u = t /\ infoMap[u] = o

(* cancel() goes to the thread that has run the object; what it has read   *)
(* there is of a task of that thread, and of its own while that runs.      *)
CancelCallOK(c) ==
    /\ call[c].op \in {"none", "cancel"}
    /\ call[c] # Out => call[c].of \in Terminables
    /\ call[c].at \in {"calling", "waiting", "inside"}
       => call[c].id \in PoolThreads /\ Ran(call[c].of, call[c].id)
    /\ call[c].at = "inside"
       => /\ call[c].info = NoTask \/ Ran(call[c].info, call[c].id)
          /\ call[c].k # 0 => call[c].info # NoTask
          /\ \A u \in PoolThreads : pool[u].runs = call[c].of => call[c].info = call[c].of

(* A call holds a lock object only between lock() and unlock().            *)
CallOK(a) ==
    /\ call[a].at = "out" <=> call[a] = Out
    /\ call[a].op = "none" <=> call[a] = Out
    /\ call[a].at \in {"out", "asking", "calling"} => call[a].lock = 0

(* A lock object in the map is held by a call for that id.                 *)
LockOK(id) ==
    lockMap[id] # 0 => \E a \in Actors : call[a].lock = lockMap[id] /\ call[a].id = id

(* A cancel that is not lost has stopped the ThreadInfo, or keeps the task *)
(* from being run.                                                         *)
ObjectOK(o) ==
    /\ mThread[o] # NoThread => pool[mThread[o]].runs = o /\ pool[mThread[o]].at = "task"
    /\ phase[o] \in {"new", "queued"}
       => o \notin stopped /\ \A k \in 1..MaxRequests : onCancels[o][k] = 0
    /\ phase[o] = "running" => \E t \in PoolThreads : pool[t].runs = o
    /\ o \in cancelled \ lost
       => \/ o \in stopped
          \/ phase[o] = "ended"
          \/ /\ isCancel[o] /\ phase[o] \in {"queued", "running"}
             /\ \A t \in PoolThreads : pool[t].runs = o => pool[t].at = "taken"

(* As long as no two have been inside for the id of t: a canceller that is *)
(* inside knows what is there, and an HTTP task is registered before the   *)
(* ThreadInfo is stopped, or not at all.                                   *)
AloneInside(t) ==
    \A a, b \in Actors : Inside(a) /\ Inside(b) /\ call[a].id = t /\ call[b].id = t => a = b

KnowsTask(t) ==
    \A c \in Cancellers : Inside(c) /\ call[c].id = t
        => /\ call[c].info = infoMap[t]
           /\ call[c].k = IF infoMap[t] = NoTask THEN 0 ELSE TaskToTell(infoMap[t], t)

TellsOnce(t) ==
    LET o == pool[t].runs
    IN  o # NoTask =>
        /\ o \notin told => \A k \in 1..MaxRequests : onCancels[o][k] = 0
        /\ o \in told => taskMap[t] # 0 /\ onCancels[o][taskMap[t]] = 1
        /\ o \in stopped /\ o \notin told => taskMap[t] = 0
        /\ Inside(t) => o \notin stopped

NotOverlapped(t) == t \notin overlapped => AloneInside(t) /\ KnowsTask(t) /\ TellsOnce(t)

CallsInv ==
    /\ \A a \in Actors : CallOK(a)
    /\ \A t \in PoolThreads : PoolOK(t) /\ ThreadCallOK(t) /\ LockOK(t)
    /\ \A c \in Cancellers : CancelCallOK(c)
    /\ \A o \in Terminables : ObjectOK(o)

ThreadsInv ==
    /\ ThreadsTypeOK
    /\ CallsInv
    /\ \A t \in PoolThreads : NotOverlapped(t)

-------------------------------------------------------------------------------
(***************************************************************************)
(* Types.                                                                  *)
(***************************************************************************)
CallRecords == [op : {"none", "register", "http", "unregister", "cancel"},
                at : {"out", "asking", "calling", "waiting", "inside"},
                of : Terminables \cup {NoTask}, id : PoolThreads \cup {NoThread},
                lock : Locks \cup {0}, info : Terminables \cup {NoTask}, k : 0..MaxRequests]

PoolRecords == [runs : Terminables \cup {NoTask},
                at : {"idle", "taken", "registering", "task", "ending"}]

LEMMA OutType ==
    /\ Out \in CallRecords
    /\ Out.op = "none" /\ Out.at = "out" /\ Out.of = NoTask /\ Out.id = NoThread
    /\ Out.lock = 0 /\ Out.info = NoTask /\ Out.k = 0
BY ThreadsAssumption DEF Out, CallRecords

LEMMA IdleType == Idle \in PoolRecords /\ Idle.runs = NoTask /\ Idle.at = "idle"
BY DEF Idle, PoolRecords

LEMMA TypeSplit ==
    /\ ThreadsTypeOK => pool \in [PoolThreads -> PoolRecords] /\ call \in [Actors -> CallRecords]
    /\ ThreadsTypeOK' => pool' \in [PoolThreads -> PoolRecords] /\ call' \in [Actors -> CallRecords]
BY DEF ThreadsTypeOK, PoolRecords, CallRecords

LEMMA CallsType ==
    ASSUME ThreadsTypeOK, NEW a \in Actors, NEW o \in Terminables, NEW id \in PoolThreads,
           NEW op \in {"register", "http", "unregister", "cancel"}, Calls(a, op, o, id)
    PROVE  /\ call' \in [Actors -> CallRecords]
           /\ call'[a].op = op /\ call'[a].at = "calling" /\ call'[a].of = o
           /\ call'[a].id = id /\ call'[a].lock = 0
           /\ \A b \in Actors : b # a => call'[b] = call[b]
<1> DEFINE r == [Out EXCEPT !.op = op, !.at = "calling", !.of = o, !.id = id]
<1>1. /\ r \in CallRecords /\ r.op = op /\ r.at = "calling" /\ r.of = o /\ r.id = id /\ r.lock = 0
  BY OutType DEF CallRecords
<1>2. call' = [call EXCEPT ![a] = r]
  BY DEF Calls
<1> HIDE DEF r
<1> QED BY <1>1, <1>2, TypeSplit

LEMMA ReturnsType ==
    ASSUME ThreadsTypeOK, NEW a \in Actors, Returns(a)
    PROVE  /\ call' \in [Actors -> CallRecords]
           /\ call'[a] = Out
           /\ \A b \in Actors : b # a => call'[b] = call[b]
BY TypeSplit, OutType DEF Returns

(* What lock() finds or makes is a lock object.                            *)
LEMMA FreshType ==
    ASSUME ThreadsInv, NEW a \in Actors, call[a].at = "calling"
    PROVE  Fresh \in Locks
<1> DEFINE held == {call[b].lock : b \in Actors \ {a}}
           f == [b \in Actors \ {a} |-> call[b].lock]
<1>1. IsFiniteSet(Actors \ {a}) /\ Cardinality(Actors \ {a}) <= Cardinality(Actors)
  BY ThreadsAssumption, FS_Subset DEF Actors
<1>2. IsFiniteSet(held) /\ Cardinality(held) <= Cardinality(Actors \ {a})
  <2>1. f \in Surjection(Actors \ {a}, held)
    BY DEF Surjection
  <2> QED BY <1>1, <2>1, FS_Surjection
<1>3. PICK l \in Locks : l \notin held
  <2> SUFFICES ASSUME Locks \subseteq held PROVE FALSE
    OBVIOUS
  <2>1. Cardinality(Locks) <= Cardinality(held)
    BY <1>2, FS_Subset
  <2>2. /\ Cardinality(Locks) \in Nat /\ Cardinality(held) \in Nat
        /\ Cardinality(Actors) \in Nat /\ Cardinality(Actors \ {a}) \in Nat
    BY <1>1, <1>2, ThreadsAssumption, FS_CardinalityType DEF Actors
  <2>3. Cardinality(Locks) > Cardinality(Actors)
    BY ThreadsAssumption DEF Actors
  <2> HIDE DEF held
  <2> QED BY <1>1, <1>2, <2>1, <2>2, <2>3
<1>4. l # 0 /\ call[a].lock = 0
  BY ThreadsAssumption DEF ThreadsInv, CallsInv, CallOK
<1>5. \A b \in Actors : call[b].lock # l
  BY <1>3, <1>4
<1>6. \A t \in PoolThreads : lockMap[t] # l
  BY <1>4, <1>5 DEF ThreadsInv, CallsInv, LockOK
<1> QED BY <1>5, <1>6 DEF Fresh

-------------------------------------------------------------------------------
(***************************************************************************)
(* The steps of a pool thread.                                             *)
(***************************************************************************)
LEMMA StartInv ==
    ASSUME ThreadsInv, NEW o \in Terminables, Start(o)
    PROVE  ThreadsInv'
<1>0. ThreadsTypeOK /\ CallsInv /\ \A t \in PoolThreads : NotOverlapped(t)
  BY DEF ThreadsInv
<1>1. /\ phase[o] = "new" /\ phase' = [phase EXCEPT ![o] = "queued"]
      /\ isCancel' = [isCancel EXCEPT ![o] = FALSE]
      /\ UNCHANGED <<mThread, pool, call, infoMap, stopped, told, taskMap, lockMap>>
      /\ UNCHANGED <<onCancels, requested, cancelled, lost, overlapped>>
  BY DEF Start, manager, history
<1>2. ThreadsTypeOK'
  BY <1>0, <1>1 DEF ThreadsTypeOK
<1>3. CallsInv'
  <2>1. ASSUME NEW t \in PoolThreads PROVE PoolOK(t)' /\ ThreadCallOK(t)' /\ LockOK(t)'
    BY <1>0, <1>1, TypeSplit DEF CallsInv, PoolOK, ThreadCallOK, LockOK, ThreadsTypeOK, PoolRecords
  <2>2. ASSUME NEW c \in Cancellers PROVE CancelCallOK(c)'
    BY <1>0, <1>1 DEF CallsInv, CancelCallOK, Ran, ThreadsTypeOK
  <2>3. ASSUME NEW p \in Terminables PROVE ObjectOK(p)'
    BY <1>0, <1>1 DEF CallsInv, ObjectOK, ThreadsTypeOK
  <2>4. ASSUME NEW a \in Actors PROVE CallOK(a)'
    BY <1>0, <1>1 DEF CallsInv, CallOK
  <2> QED BY <2>1, <2>2, <2>3, <2>4 DEF CallsInv
<1>4. ASSUME NEW t \in PoolThreads PROVE NotOverlapped(t)'
  BY <1>0, <1>1 DEF NotOverlapped, AloneInside, KnowsTask, TaskToTell, TellsOnce, Inside
<1> QED BY <1>2, <1>3, <1>4 DEF ThreadsInv

LEMMA TakeInv ==
    ASSUME ThreadsInv, NEW t \in PoolThreads, NEW o \in Terminables, Take(t, o)
    PROVE  ThreadsInv'
<1>0. ThreadsTypeOK /\ CallsInv /\ \A u \in PoolThreads : NotOverlapped(u)
  BY DEF ThreadsInv
<1>1. /\ pool[t] = Idle /\ phase[o] = "queued"
      /\ pool' = [pool EXCEPT ![t] = [runs |-> o, at |-> "taken"]]
      /\ phase' = [phase EXCEPT ![o] = "running"]
      /\ UNCHANGED <<isCancel, mThread, call, infoMap, stopped, told, taskMap, lockMap>>
      /\ UNCHANGED <<onCancels, requested, cancelled, lost, overlapped>>
  BY DEF Take, manager, history
<1>2. /\ pool[t].at = "idle" /\ pool[t].runs = NoTask
      /\ pool' \in [PoolThreads -> PoolRecords] /\ pool'[t].runs = o /\ pool'[t].at = "taken"
      /\ \A u \in PoolThreads : u # t => pool'[u] = pool[u]
  BY <1>0, <1>1, TypeSplit, IdleType DEF PoolRecords
<1>3. /\ call[t] = Out /\ infoMap[t] = NoTask /\ taskMap[t] = 0
      /\ \A u \in PoolThreads : pool[u].runs # o
      /\ o # NoTask
  <2>1. PoolOK(t) /\ ThreadCallOK(t) /\ CallOK(t)
    BY <1>0 DEF CallsInv, Actors
  <2>2. call[t] = Out
    BY <1>2, <2>1 DEF ThreadCallOK, CallOK
  <2>3. infoMap[t] = NoTask /\ taskMap[t] = 0
    BY <1>2, <2>1 DEF PoolOK
  <2>4. ASSUME NEW u \in PoolThreads PROVE pool[u].runs # o
    BY <1>0, <1>1, ThreadsAssumption DEF CallsInv, PoolOK
  <2> QED BY <2>2, <2>3, <2>4, ThreadsAssumption
<1>4. ThreadsTypeOK'
  BY <1>0, <1>1, <1>2 DEF ThreadsTypeOK, PoolRecords
<1>5. CallsInv'
  <2>1. ASSUME NEW u \in PoolThreads PROVE PoolOK(u)'
    BY <1>0, <1>1, <1>2, <1>3 DEF CallsInv, PoolOK, ThreadsTypeOK
  <2>2. ASSUME NEW u \in PoolThreads PROVE ThreadCallOK(u)' /\ LockOK(u)'
    BY <1>0, <1>1, <1>2, <1>3, OutType DEF CallsInv, ThreadCallOK, LockOK
  <2>3. ASSUME NEW c \in Cancellers PROVE CancelCallOK(c)'
    BY <1>0, <1>1, <1>2, <1>3 DEF CallsInv, CancelCallOK, Ran, ThreadsTypeOK
  <2>4. ASSUME NEW p \in Terminables PROVE ObjectOK(p)'
    <3>1. CASE p = o
      BY <1>0, <1>1, <1>2, <1>3, <3>1 DEF CallsInv, ObjectOK, ThreadsTypeOK
    <3>2. CASE p # o
      <4>1. \A u \in PoolThreads : pool[u].runs = p => pool'[u].runs = p
        BY <1>2, <3>2, ThreadsAssumption
      <4>2. phase'[p] = phase[p] /\ ObjectOK(p)
        BY <1>0, <1>1, <3>2 DEF CallsInv, ThreadsTypeOK
      <4> QED BY <1>1, <1>2, <3>2, <4>1, <4>2 DEF ObjectOK
    <3> QED BY <3>1, <3>2
  <2>5. ASSUME NEW a \in Actors PROVE CallOK(a)'
    BY <1>0, <1>1 DEF CallsInv, CallOK
  <2> QED BY <2>1, <2>2, <2>3, <2>4, <2>5 DEF CallsInv
<1>6. ASSUME NEW u \in PoolThreads PROVE NotOverlapped(u)'
  <2>1. o \notin stopped /\ o \notin told /\ \A k \in 1..MaxRequests : onCancels[o][k] = 0
    BY <1>0, <1>1 DEF CallsInv, ObjectOK, ThreadsTypeOK
  <2>2. ~Inside(t)
    BY <1>3, OutType DEF Inside
  <2> QED BY <1>0, <1>1, <1>2, <2>1, <2>2 DEF NotOverlapped, AloneInside, KnowsTask, TaskToTell, TellsOnce, Inside
<1> QED BY <1>4, <1>5, <1>6 DEF ThreadsInv

LEMMA RunInv ==
    ASSUME ThreadsInv, NEW t \in PoolThreads, Run(t)
    PROVE  ThreadsInv'
<1>0. ThreadsTypeOK /\ CallsInv /\ \A u \in PoolThreads : NotOverlapped(u)
  BY DEF ThreadsInv
<1> DEFINE o == pool[t].runs
<1>1. /\ pool[t].at = "taken"
      /\ UNCHANGED <<isCancel, mThread, infoMap, stopped, told, taskMap, lockMap>>
      /\ UNCHANGED <<onCancels, requested, cancelled, lost, overlapped>>
  BY DEF Run, manager, history
<1>2. /\ o \in Terminables /\ phase[o] = "running" /\ infoMap[t] = NoTask /\ taskMap[t] = 0
      /\ call[t] = Out
      /\ \A u \in PoolThreads : u # t => pool[u].runs # o
  <2>1. PoolOK(t) /\ ThreadCallOK(t) /\ CallOK(t)
    BY <1>0 DEF CallsInv, Actors
  <2>2. pool[t] \in PoolRecords
    BY <1>0, TypeSplit
  <2>3. o \in Terminables
    BY <1>1, <2>1, <2>2 DEF PoolOK, PoolRecords
  <2> QED BY <1>1, <2>1, <2>3, ThreadsAssumption DEF PoolOK, ThreadCallOK, CallOK
<1>3. CASE /\ isCancel[o]
           /\ pool' = [pool EXCEPT ![t] = Idle]
           /\ phase' = [phase EXCEPT ![o] = "ended"]
           /\ UNCHANGED call
  <2>1. /\ pool' \in [PoolThreads -> PoolRecords] /\ pool'[t].runs = NoTask /\ pool'[t].at = "idle"
        /\ \A u \in PoolThreads : u # t => pool'[u] = pool[u]
    BY <1>0, <1>3, TypeSplit, IdleType
  <2>2. ThreadsTypeOK'
    BY <1>0, <1>1, <1>2, <1>3, <2>1, ThreadsAssumption DEF ThreadsTypeOK, PoolRecords
  <2>3. CallsInv'
    <3>1. ASSUME NEW u \in PoolThreads PROVE PoolOK(u)'
      BY <1>0, <1>1, <1>2, <1>3, <2>1 DEF CallsInv, PoolOK, ThreadsTypeOK
    <3>2. ASSUME NEW u \in PoolThreads PROVE ThreadCallOK(u)' /\ LockOK(u)'
      BY <1>0, <1>1, <1>2, <1>3, <2>1, OutType DEF CallsInv, ThreadCallOK, LockOK
    <3>3. ASSUME NEW c \in Cancellers PROVE CancelCallOK(c)'
      BY <1>0, <1>1, <1>2, <1>3, <2>1, ThreadsAssumption DEF CallsInv, CancelCallOK, Ran, ThreadsTypeOK
    <3>4. ASSUME NEW p \in Terminables PROVE ObjectOK(p)'
      BY <1>0, <1>1, <1>2, <1>3, <2>1, ThreadsAssumption DEF CallsInv, ObjectOK, ThreadsTypeOK
    <3>5. ASSUME NEW a \in Actors PROVE CallOK(a)'
      BY <1>0, <1>3 DEF CallsInv, CallOK
    <3> QED BY <3>1, <3>2, <3>3, <3>4, <3>5 DEF CallsInv
  <2>4. ASSUME NEW u \in PoolThreads PROVE NotOverlapped(u)'
    BY <1>0, <1>1, <1>3, <2>1 DEF NotOverlapped, AloneInside, KnowsTask, TaskToTell, TellsOnce, Inside
  <2> QED BY <2>2, <2>3, <2>4 DEF ThreadsInv
<1>4. CASE /\ ~isCancel[o]
           /\ pool' = [pool EXCEPT ![t].at = "registering"]
           /\ Calls(t, "register", o, t)
           /\ UNCHANGED phase
  <2>1. /\ pool' \in [PoolThreads -> PoolRecords] /\ pool'[t].runs = o /\ pool'[t].at = "registering"
        /\ \A u \in PoolThreads : u # t => pool'[u] = pool[u]
    BY <1>0, <1>4, TypeSplit DEF PoolRecords
  <2>2. /\ call' \in [Actors -> CallRecords]
        /\ call'[t].op = "register" /\ call'[t].at = "calling" /\ call'[t].of = o
        /\ call'[t].id = t /\ call'[t].lock = 0
        /\ \A b \in Actors : b # t => call'[b] = call[b]
    BY <1>0, <1>2, <1>4, CallsType DEF Actors
  <2>3. call'[t] # Out
    BY <2>2, OutType
  <2>4. ThreadsTypeOK'
    BY <1>0, <1>1, <1>4, <2>1, <2>2 DEF ThreadsTypeOK, PoolRecords, CallRecords
  <2>5. CallsInv'
    <3>1. ASSUME NEW u \in PoolThreads PROVE PoolOK(u)'
      BY <1>0, <1>1, <1>2, <1>4, <2>1, <2>2, <2>3 DEF CallsInv, PoolOK, Actors
    <3>2. ASSUME NEW u \in PoolThreads PROVE ThreadCallOK(u)'
      BY <1>0, <2>1, <2>2, <2>3 DEF CallsInv, ThreadCallOK, Actors
    <3>3. ASSUME NEW u \in PoolThreads PROVE LockOK(u)'
      BY <1>0, <1>1, <1>2, <2>2, OutType DEF CallsInv, LockOK
    <3>4. ASSUME NEW c \in Cancellers PROVE CancelCallOK(c)'
      BY <1>0, <1>1, <1>4, <2>1, <2>2, ThreadsAssumption DEF CallsInv, CancelCallOK, Ran, Actors
    <3>5. ASSUME NEW p \in Terminables PROVE ObjectOK(p)'
      BY <1>0, <1>1, <1>2, <1>4, <2>1, ThreadsAssumption DEF CallsInv, ObjectOK
    <3>6. ASSUME NEW a \in Actors PROVE CallOK(a)'
      BY <1>0, <2>2, <2>3 DEF CallsInv, CallOK
    <3> QED BY <3>1, <3>2, <3>3, <3>4, <3>5, <3>6 DEF CallsInv
  <2>6. ~Inside(t)' /\ \A b \in Actors : b # t => (Inside(b)' <=> Inside(b)) /\ call'[b] = call[b]
    BY <2>2 DEF Inside
  <2>7. ASSUME NEW u \in PoolThreads PROVE NotOverlapped(u)'
    BY <1>0, <1>1, <2>1, <2>6, ThreadsAssumption
       DEF NotOverlapped, AloneInside, KnowsTask, TaskToTell, TellsOnce, Actors
  <2> QED BY <2>4, <2>5, <2>7 DEF ThreadsInv
<1> QED BY <1>3, <1>4 DEF Run

(* Entering a monitor: an id that does not become overlapped has no other  *)
(* inside.                                                                 *)
LEMMA EntersAlone ==
    ASSUME NEW a \in Actors, NEW op, Enters(a, op)
    PROVE  /\ call[a].at = "waiting" /\ call[a].op = op
           /\ overlapped \subseteq overlapped' /\ overlapped' \subseteq overlapped \cup {call[a].id}
           /\ \A b \in Actors \ {a} : Inside(b) /\ call[b].id = call[a].id => call[a].id \in overlapped'
BY DEF Enters

(* unlock() drops the object of the caller's id, and no other.             *)
LEMMA LeavesLocks ==
    ASSUME ThreadsTypeOK, CallsInv, NEW a \in Actors, call[a].id \in PoolThreads, Leaves(a),
           \A b \in Actors : b # a => call'[b] = call[b]
    PROVE  /\ lockMap' \in [PoolThreads -> Locks \cup {0}]
           /\ \A u \in PoolThreads : LockOK(u)'
<1>1. /\ lockMap \in [PoolThreads -> Locks \cup {0}]
      /\ lockMap' = [lockMap EXCEPT ![call[a].id] = 0]
  BY DEF ThreadsTypeOK, Leaves
<1>2. ASSUME NEW u \in PoolThreads PROVE LockOK(u)'
  BY <1>1 DEF CallsInv, LockOK
<1> QED BY <1>1, <1>2

LEMMA RegisterThreadInv ==
    ASSUME ThreadsInv, NEW t \in PoolThreads, RegisterThread(t)
    PROVE  ThreadsInv'
<1>0. ThreadsTypeOK /\ CallsInv /\ \A u \in PoolThreads : NotOverlapped(u)
  BY DEF ThreadsInv
<1> DEFINE o == pool[t].runs
<1>1. /\ Enters(t, "register") /\ Leaves(t) /\ Returns(t)
      /\ infoMap' = [infoMap EXCEPT ![t] = IF @ = NoTask THEN call[t].of ELSE @]
      /\ UNCHANGED <<phase, isCancel, mThread, pool, stopped, told, taskMap>>
      /\ UNCHANGED <<onCancels, requested, cancelled, lost>>
  BY DEF RegisterThread
<1>2. /\ call[t].at = "waiting" /\ call[t].op = "register" /\ call[t] # Out
      /\ overlapped \subseteq overlapped' /\ overlapped' \subseteq overlapped \cup {call[t].id}
      /\ \A b \in Actors \ {t} : Inside(b) /\ call[b].id = call[t].id => call[t].id \in overlapped'
  BY <1>1, EntersAlone, OutType DEF Actors
<1>3. /\ o \in Terminables /\ pool[t].at = "registering" /\ infoMap[t] = NoTask
      /\ call[t].id = t /\ call[t].of = o
  <2>1. PoolOK(t) /\ ThreadCallOK(t)
    BY <1>0 DEF CallsInv
  <2>2. pool[t] \in PoolRecords
    BY <1>0, TypeSplit
  <2> QED BY <1>2, <2>1, <2>2 DEF PoolOK, ThreadCallOK, PoolRecords
<1>4. /\ call' \in [Actors -> CallRecords] /\ call'[t] = Out
      /\ \A b \in Actors : b # t => call'[b] = call[b]
  BY <1>0, <1>1, ReturnsType DEF Actors
<1>5. /\ infoMap' \in [PoolThreads -> Terminables \cup {NoTask}] /\ infoMap'[t] = o
      /\ \A u \in PoolThreads : u # t => infoMap'[u] = infoMap[u]
  BY <1>0, <1>1, <1>3 DEF ThreadsTypeOK
<1>6. /\ lockMap' \in [PoolThreads -> Locks \cup {0}]
      /\ \A u \in PoolThreads : LockOK(u)'
  BY <1>0, <1>1, <1>3, <1>4, LeavesLocks DEF Actors
<1>7. ThreadsTypeOK'
  BY <1>0, <1>1, <1>2, <1>3, <1>4, <1>5, <1>6 DEF ThreadsTypeOK, CallRecords
<1>8. CallsInv'
  <2>1. ASSUME NEW u \in PoolThreads PROVE PoolOK(u)'
    BY <1>0, <1>1, <1>2, <1>3, <1>4, <1>5 DEF CallsInv, PoolOK, Actors
  <2>2. ASSUME NEW u \in PoolThreads PROVE ThreadCallOK(u)'
    BY <1>0, <1>1, <1>3, <1>4, OutType DEF CallsInv, ThreadCallOK, Actors
  <2>3. ASSUME NEW c \in Cancellers PROVE CancelCallOK(c)'
    BY <1>0, <1>1, <1>3, <1>4, <1>5, ThreadsAssumption DEF CallsInv, CancelCallOK, Ran, Actors
  <2>4. ASSUME NEW p \in Terminables PROVE ObjectOK(p)'
    BY <1>0, <1>1 DEF CallsInv, ObjectOK
  <2>5. ASSUME NEW a \in Actors PROVE CallOK(a)'
    BY <1>0, <1>4, OutType DEF CallsInv, CallOK
  <2> QED BY <1>6, <2>1, <2>2, <2>3, <2>4, <2>5 DEF CallsInv
<1>9. ASSUME NEW u \in PoolThreads, u \notin overlapped'
      PROVE  AloneInside(u)' /\ KnowsTask(u)' /\ TellsOnce(u)'
  <2>1. AloneInside(u) /\ KnowsTask(u) /\ TellsOnce(u)
    BY <1>0, <1>2, <1>9 DEF NotOverlapped
  <2>2. ~Inside(t)' /\ \A b \in Actors : b # t => (Inside(b)' <=> Inside(b)) /\ call'[b] = call[b]
    BY <1>4, OutType DEF Inside
  <2>3. AloneInside(u)'
    BY <2>1, <2>2 DEF AloneInside
  <2>4. KnowsTask(u)'
    BY <1>1, <1>2, <1>3, <1>5, <1>9, <2>1, <2>2, ThreadsAssumption DEF KnowsTask, TaskToTell, Actors
  <2>5. TellsOnce(u)'
    BY <1>1, <2>1, <2>2 DEF TellsOnce, Actors
  <2> QED BY <2>3, <2>4, <2>5
<1> QED BY <1>7, <1>8, <1>9 DEF ThreadsInv, NotOverlapped

LEMMA BeginInv ==
    ASSUME ThreadsInv, NEW t \in PoolThreads, Begin(t)
    PROVE  ThreadsInv'
<1>0. ThreadsTypeOK /\ CallsInv /\ \A u \in PoolThreads : NotOverlapped(u)
  BY DEF ThreadsInv
<1> DEFINE o == pool[t].runs
<1>1. /\ pool[t].at = "registering" /\ call[t] = Out
      /\ mThread' = [mThread EXCEPT ![o] = t]
      /\ pool' = [pool EXCEPT ![t].at = "task"]
      /\ UNCHANGED <<phase, isCancel, call, infoMap, stopped, told, taskMap, lockMap>>
      /\ UNCHANGED <<onCancels, requested, cancelled, lost, overlapped>>
  BY DEF Begin, manager, history
<1>2. /\ o \in Terminables /\ phase[o] = "running" /\ infoMap[t] = o
      /\ \A u \in PoolThreads : u # t => pool[u].runs # o
  <2>1. PoolOK(t)
    BY <1>0 DEF CallsInv
  <2>2. pool[t] \in PoolRecords
    BY <1>0, TypeSplit
  <2> QED BY <1>1, <2>1, <2>2 DEF PoolOK, PoolRecords
<1>3. /\ pool' \in [PoolThreads -> PoolRecords] /\ pool'[t].runs = o /\ pool'[t].at = "task"
      /\ \A u \in PoolThreads : u # t => pool'[u] = pool[u]
  BY <1>0, <1>1, TypeSplit DEF PoolRecords
<1>4. ThreadsTypeOK'
  BY <1>0, <1>1, <1>2, <1>3 DEF ThreadsTypeOK, PoolRecords
<1>5. CallsInv'
  <2>1. ASSUME NEW u \in PoolThreads PROVE PoolOK(u)'
    BY <1>0, <1>1, <1>2, <1>3 DEF CallsInv, PoolOK
  <2>2. ASSUME NEW u \in PoolThreads PROVE ThreadCallOK(u)' /\ LockOK(u)'
    BY <1>0, <1>1, <1>3, OutType DEF CallsInv, ThreadCallOK, LockOK
  <2>3. ASSUME NEW c \in Cancellers PROVE CancelCallOK(c)'
    BY <1>0, <1>1, <1>3 DEF CallsInv, CancelCallOK, Ran
  <2>4. ASSUME NEW p \in Terminables PROVE ObjectOK(p)'
    BY <1>0, <1>1, <1>2, <1>3 DEF CallsInv, ObjectOK, ThreadsTypeOK
  <2>5. ASSUME NEW a \in Actors PROVE CallOK(a)'
    BY <1>0, <1>1 DEF CallsInv, CallOK
  <2> QED BY <2>1, <2>2, <2>3, <2>4, <2>5 DEF CallsInv
<1>6. ASSUME NEW u \in PoolThreads PROVE NotOverlapped(u)'
  BY <1>0, <1>1, <1>3 DEF NotOverlapped, AloneInside, KnowsTask, TaskToTell, TellsOnce, Inside
<1> QED BY <1>4, <1>5, <1>6 DEF ThreadsInv

LEMMA IdOfCall ==
    ASSUME CallsInv, NEW a \in Actors, call[a].at \in {"calling", "waiting", "inside"}
    PROVE  call[a].id \in PoolThreads
BY OutType DEF CallsInv, ThreadCallOK, CancelCallOK, Actors

LEMMA ObtainLockInv ==
    ASSUME ThreadsInv, NEW a \in Actors, ObtainLock(a)
    PROVE  ThreadsInv'
<1>0. ThreadsTypeOK /\ CallsInv /\ \A u \in PoolThreads : NotOverlapped(u)
  BY DEF ThreadsInv
<1> DEFINE id == call[a].id
<1>1. /\ call[a].at = "calling"
      /\ UNCHANGED <<phase, isCancel, mThread, pool, infoMap, stopped, told, taskMap>>
      /\ UNCHANGED <<onCancels, requested, cancelled, lost, overlapped>>
  BY DEF ObtainLock, history
<1>2. PICK lock \in Locks :
        /\ lockMap' = [lockMap EXCEPT ![id] = lock]
        /\ call' = [call EXCEPT ![a].at = "waiting", ![a].lock = lock]
  <2> DEFINE lock == IF lockMap[id] = 0 THEN Fresh ELSE lockMap[id]
  <2>1. lock \in Locks
    BY <1>0, <1>1, IdOfCall, FreshType DEF ThreadsTypeOK
  <2>2. /\ lockMap' = [lockMap EXCEPT ![id] = lock]
        /\ call' = [call EXCEPT ![a].at = "waiting", ![a].lock = lock]
    BY DEF ObtainLock
  <2> QED BY <2>1, <2>2
<1>3. /\ id \in PoolThreads /\ call[a] \in CallRecords /\ call[a] # Out /\ call[a].lock = 0
      /\ lock # 0
  BY <1>0, <1>1, IdOfCall, TypeSplit, OutType, ThreadsAssumption DEF CallsInv, CallOK
<1>4. /\ call' \in [Actors -> CallRecords]
      /\ call'[a].at = "waiting" /\ call'[a].lock = lock /\ call'[a].op = call[a].op
      /\ call'[a].of = call[a].of /\ call'[a].id = id
      /\ \A b \in Actors : b # a => call'[b] = call[b]
  <2> DEFINE r == [call[a] EXCEPT !.at = "waiting", !.lock = lock]
  <2>1. /\ r \in CallRecords /\ r.at = "waiting" /\ r.lock = lock /\ r.op = call[a].op
        /\ r.of = call[a].of /\ r.id = id
    BY <1>3 DEF CallRecords
  <2>2. call' = [call EXCEPT ![a] = r]
    BY <1>2
  <2> HIDE DEF r
  <2> QED BY <1>0, <2>1, <2>2, TypeSplit
<1>5. call'[a] # Out
  BY <1>4, OutType
<1>6. /\ lockMap' \in [PoolThreads -> Locks \cup {0}] /\ lockMap'[id] = lock
      /\ \A u \in PoolThreads : u # id => lockMap'[u] = lockMap[u]
  BY <1>0, <1>2, <1>3 DEF ThreadsTypeOK
<1>7. ThreadsTypeOK'
  BY <1>0, <1>1, <1>4, <1>6 DEF ThreadsTypeOK, CallRecords
<1>8. CallsInv'
  <2>1. ASSUME NEW u \in PoolThreads PROVE PoolOK(u)'
    BY <1>0, <1>1, <1>3, <1>4, <1>5 DEF CallsInv, PoolOK, Actors
  <2>2. ASSUME NEW u \in PoolThreads PROVE ThreadCallOK(u)'
    BY <1>0, <1>1, <1>3, <1>4, <1>5 DEF CallsInv, ThreadCallOK, Actors
  <2>3. ASSUME NEW u \in PoolThreads PROVE LockOK(u)'
    BY <1>0, <1>3, <1>4, <1>6 DEF CallsInv, LockOK
  <2>4. ASSUME NEW c \in Cancellers PROVE CancelCallOK(c)'
    BY <1>0, <1>1, <1>3, <1>4 DEF CallsInv, CancelCallOK, Ran, Actors
  <2>5. ASSUME NEW p \in Terminables PROVE ObjectOK(p)'
    BY <1>0, <1>1 DEF CallsInv, ObjectOK
  <2>6. ASSUME NEW b \in Actors PROVE CallOK(b)'
    BY <1>0, <1>3, <1>4, <1>5 DEF CallsInv, CallOK
  <2> QED BY <2>1, <2>2, <2>3, <2>4, <2>5, <2>6 DEF CallsInv
<1>9. ~Inside(a)' /\ \A b \in Actors : b # a => (Inside(b)' <=> Inside(b)) /\ call'[b] = call[b]
  BY <1>4 DEF Inside
<1>10. ASSUME NEW u \in PoolThreads PROVE NotOverlapped(u)'
  BY <1>0, <1>1, <1>9 DEF NotOverlapped, AloneInside, KnowsTask, TaskToTell, TellsOnce, Actors
<1> QED BY <1>7, <1>8, <1>10 DEF ThreadsInv

LEMMA CallHttpInv ==
    ASSUME ThreadsInv, NEW t \in PoolThreads, CallHttp(t)
    PROVE  ThreadsInv'
<1>0. ThreadsTypeOK /\ CallsInv /\ \A u \in PoolThreads : NotOverlapped(u)
  BY DEF ThreadsInv
<1> DEFINE o == pool[t].runs
<1>1. /\ o \in Terminables /\ pool[t].at = "task" /\ call[t] = Out
      /\ requested[o] < MaxRequests /\ requested' = [requested EXCEPT ![o] = @ + 1]
      /\ Calls(t, "http", o, t)
      /\ UNCHANGED <<phase, isCancel, mThread, pool, infoMap, stopped, told, taskMap, lockMap>>
      /\ UNCHANGED <<onCancels, cancelled, lost, overlapped>>
  BY ThreadsAssumption DEF CallHttp, InTask, manager
<1>2. /\ call' \in [Actors -> CallRecords]
      /\ call'[t].op = "http" /\ call'[t].at = "calling" /\ call'[t].of = o
      /\ call'[t].id = t /\ call'[t].lock = 0
      /\ \A b \in Actors : b # t => call'[b] = call[b]
  BY <1>0, <1>1, CallsType DEF Actors
<1>3. call'[t] # Out
  BY <1>2, OutType
<1>4. ThreadsTypeOK'
  <2>1. requested' \in [Terminables -> 0..MaxRequests]
    BY <1>0, <1>1, ThreadsAssumption DEF ThreadsTypeOK
  <2> QED BY <1>0, <1>1, <1>2, <2>1 DEF ThreadsTypeOK, CallRecords
<1>5. CallsInv'
  <2>1. ASSUME NEW u \in PoolThreads PROVE PoolOK(u)'
    BY <1>0, <1>1, <1>2 DEF CallsInv, PoolOK, Actors
  <2>2. ASSUME NEW u \in PoolThreads PROVE ThreadCallOK(u)'
    BY <1>0, <1>1, <1>2 DEF CallsInv, ThreadCallOK, Actors
  <2>3. ASSUME NEW u \in PoolThreads PROVE LockOK(u)'
    BY <1>0, <1>1, <1>2, OutType DEF CallsInv, LockOK
  <2>4. ASSUME NEW c \in Cancellers PROVE CancelCallOK(c)'
    BY <1>0, <1>1, <1>2, ThreadsAssumption DEF CallsInv, CancelCallOK, Ran, Actors
  <2>5. ASSUME NEW p \in Terminables PROVE ObjectOK(p)'
    BY <1>0, <1>1 DEF CallsInv, ObjectOK
  <2>6. ASSUME NEW b \in Actors PROVE CallOK(b)'
    BY <1>0, <1>2, <1>3 DEF CallsInv, CallOK
  <2> QED BY <2>1, <2>2, <2>3, <2>4, <2>5, <2>6 DEF CallsInv
<1>6. ~Inside(t)' /\ \A b \in Actors : b # t => (Inside(b)' <=> Inside(b)) /\ call'[b] = call[b]
  BY <1>2 DEF Inside
<1>7. ASSUME NEW u \in PoolThreads PROVE NotOverlapped(u)'
  BY <1>0, <1>1, <1>6 DEF NotOverlapped, AloneInside, KnowsTask, TaskToTell, TellsOnce, Actors
<1> QED BY <1>4, <1>5, <1>7 DEF ThreadsInv

(* What is known of a thread in registerHttpTask.                          *)
LEMMA HttpCall ==
    ASSUME ThreadsInv, NEW t \in PoolThreads, call[t].op = "http"
    PROVE  /\ pool[t].at = "task" /\ pool[t].runs \in Terminables
           /\ infoMap[t] = pool[t].runs /\ call[t] # Out
           /\ call[t].id = t /\ call[t].of = pool[t].runs
<1>1. PoolOK(t) /\ ThreadCallOK(t) /\ pool[t] \in PoolRecords
  BY TypeSplit DEF ThreadsInv, CallsInv
<1> QED BY <1>1, OutType DEF PoolOK, ThreadCallOK, PoolRecords

LEMMA LookHttpInv ==
    ASSUME ThreadsInv, NEW t \in PoolThreads, LookHttp(t)
    PROVE  ThreadsInv'
<1>0. ThreadsTypeOK /\ CallsInv /\ \A u \in PoolThreads : NotOverlapped(u)
  BY DEF ThreadsInv
<1> DEFINE o == pool[t].runs
<1>1. /\ Enters(t, "http")
      /\ UNCHANGED <<phase, isCancel, mThread, pool, infoMap, stopped, told, taskMap>>
      /\ UNCHANGED <<onCancels, requested, cancelled, lost>>
  BY DEF LookHttp
<1>2. /\ call[t].at = "waiting" /\ call[t].op = "http"
      /\ overlapped \subseteq overlapped' /\ overlapped' \subseteq overlapped \cup {call[t].id}
      /\ \A b \in Actors \ {t} : Inside(b) /\ call[b].id = call[t].id => call[t].id \in overlapped'
  BY <1>1, EntersAlone DEF Actors
<1>3. /\ o \in Terminables /\ pool[t].at = "task" /\ infoMap[t] = o
      /\ call[t].id = t /\ call[t].of = o /\ call[t] # Out
  BY <1>2, HttpCall
<1>4. CASE /\ o \notin stopped
           /\ call' = [call EXCEPT ![t].at = "inside"] /\ UNCHANGED lockMap
  <2>1. /\ call' \in [Actors -> CallRecords]
        /\ call'[t].at = "inside" /\ call'[t].lock = call[t].lock /\ call'[t].op = "http"
        /\ call'[t].of = o /\ call'[t].id = t
        /\ \A b \in Actors : b # t => call'[b] = call[b]
    <3> DEFINE r == [call[t] EXCEPT !.at = "inside"]
    <3>1. call[t] \in CallRecords
      BY <1>0, TypeSplit DEF Actors
    <3>2. /\ r \in CallRecords /\ r.at = "inside" /\ r.lock = call[t].lock /\ r.op = "http"
          /\ r.of = o /\ r.id = t
      BY <1>2, <1>3, <3>1 DEF CallRecords
    <3>3. call' = [call EXCEPT ![t] = r]
      BY <1>4
    <3> HIDE DEF r
    <3> QED BY <1>0, <3>2, <3>3, TypeSplit DEF Actors
  <2>2. call'[t] # Out
    BY <2>1, OutType
  <2>3. ThreadsTypeOK'
    BY <1>0, <1>1, <1>2, <1>3, <1>4, <2>1 DEF ThreadsTypeOK, CallRecords
  <2>4. CallsInv'
    <3>1. ASSUME NEW u \in PoolThreads PROVE PoolOK(u)'
      BY <1>0, <1>1, <1>3, <2>1, <2>2 DEF CallsInv, PoolOK, Actors
    <3>2. ASSUME NEW u \in PoolThreads PROVE ThreadCallOK(u)'
      BY <1>0, <1>1, <1>3, <2>1, <2>2 DEF CallsInv, ThreadCallOK, Actors
    <3>3. ASSUME NEW u \in PoolThreads PROVE LockOK(u)'
      BY <1>0, <1>3, <1>4, <2>1 DEF CallsInv, LockOK
    <3>4. ASSUME NEW c \in Cancellers PROVE CancelCallOK(c)'
      BY <1>0, <1>1, <2>1, ThreadsAssumption DEF CallsInv, CancelCallOK, Ran, Actors
    <3>5. ASSUME NEW p \in Terminables PROVE ObjectOK(p)'
      BY <1>0, <1>1 DEF CallsInv, ObjectOK
    <3>6. ASSUME NEW b \in Actors PROVE CallOK(b)'
      BY <1>0, <1>2, <1>3, <2>1, <2>2 DEF CallsInv, CallOK
    <3> QED BY <3>1, <3>2, <3>3, <3>4, <3>5, <3>6 DEF CallsInv
  <2>5. \A b \in Actors : b # t => (Inside(b)' <=> Inside(b)) /\ call'[b] = call[b]
    BY <2>1 DEF Inside
  <2>6. ASSUME NEW u \in PoolThreads, u \notin overlapped'
        PROVE  AloneInside(u)' /\ KnowsTask(u)' /\ TellsOnce(u)'
    <3>1. AloneInside(u) /\ KnowsTask(u) /\ TellsOnce(u)
      BY <1>0, <1>2, <2>6 DEF NotOverlapped
    <3>2. AloneInside(u)'
      BY <1>2, <1>3, <2>1, <2>5, <2>6, <3>1 DEF AloneInside
    <3>3. KnowsTask(u)'
      BY <1>1, <2>5, <3>1, ThreadsAssumption DEF KnowsTask, TaskToTell, Actors
    <3>4. TellsOnce(u)'
      BY <1>1, <1>4, <2>5, <3>1 DEF TellsOnce, Actors
    <3> QED BY <3>2, <3>3, <3>4
  <2> QED BY <2>3, <2>4, <2>6 DEF ThreadsInv, NotOverlapped
<1>5. CASE Leaves(t) /\ Returns(t)
  <2>1. /\ call' \in [Actors -> CallRecords] /\ call'[t] = Out
        /\ \A b \in Actors : b # t => call'[b] = call[b]
    BY <1>0, <1>5, ReturnsType DEF Actors
  <2>2. /\ lockMap' \in [PoolThreads -> Locks \cup {0}]
        /\ \A u \in PoolThreads : LockOK(u)'
    BY <1>0, <1>3, <1>5, <2>1, LeavesLocks DEF Actors
  <2>3. ThreadsTypeOK'
    BY <1>0, <1>1, <1>2, <1>3, <2>1, <2>2 DEF ThreadsTypeOK, CallRecords
  <2>4. CallsInv'
    <3>1. ASSUME NEW u \in PoolThreads PROVE PoolOK(u)'
      BY <1>0, <1>1, <1>3, <2>1 DEF CallsInv, PoolOK, Actors
    <3>2. ASSUME NEW u \in PoolThreads PROVE ThreadCallOK(u)'
      BY <1>0, <1>1, <1>3, <2>1, OutType DEF CallsInv, ThreadCallOK, Actors
    <3>3. ASSUME NEW c \in Cancellers PROVE CancelCallOK(c)'
      BY <1>0, <1>1, <2>1, ThreadsAssumption DEF CallsInv, CancelCallOK, Ran, Actors
    <3>4. ASSUME NEW p \in Terminables PROVE ObjectOK(p)'
      BY <1>0, <1>1 DEF CallsInv, ObjectOK
    <3>5. ASSUME NEW b \in Actors PROVE CallOK(b)'
      BY <1>0, <2>1, OutType DEF CallsInv, CallOK
    <3> QED BY <2>2, <3>1, <3>2, <3>3, <3>4, <3>5 DEF CallsInv
  <2>5. ~Inside(t)' /\ \A b \in Actors : b # t => (Inside(b)' <=> Inside(b)) /\ call'[b] = call[b]
    BY <2>1, OutType DEF Inside
  <2>6. ASSUME NEW u \in PoolThreads PROVE NotOverlapped(u)'
    BY <1>0, <1>1, <1>2, <2>5 DEF NotOverlapped, AloneInside, KnowsTask, TaskToTell, TellsOnce, Actors
  <2> QED BY <2>3, <2>4, <2>6 DEF ThreadsInv
<1> QED BY <1>3, <1>4, <1>5 DEF LookHttp, MayRegister

LEMMA PutHttpInv ==
    ASSUME ThreadsInv, NEW t \in PoolThreads, PutHttp(t)
    PROVE  ThreadsInv'
<1>0. ThreadsTypeOK /\ CallsInv /\ \A u \in PoolThreads : NotOverlapped(u)
  BY DEF ThreadsInv
<1> DEFINE o == pool[t].runs
<1>1. /\ Inside(t) /\ call[t].at = "inside" /\ Leaves(t) /\ Returns(t)
      /\ taskMap' = [taskMap EXCEPT ![t] = requested[call[t].of]]
      /\ UNCHANGED <<phase, isCancel, mThread, pool, infoMap, stopped, told>>
      /\ UNCHANGED <<onCancels, requested, cancelled, lost, overlapped>>
  BY DEF PutHttp, Inside, history
<1>2. /\ o \in Terminables /\ pool[t].at = "task" /\ infoMap[t] = o
      /\ call[t].id = t /\ call[t].of = o /\ call[t] # Out
  <2>1. call[t].op = "http"
    BY <1>0, <1>1 DEF CallsInv, ThreadCallOK
  <2> QED BY <2>1, HttpCall
<1>3. /\ call' \in [Actors -> CallRecords] /\ call'[t] = Out
      /\ \A b \in Actors : b # t => call'[b] = call[b]
  BY <1>0, <1>1, ReturnsType DEF Actors
<1>4. /\ lockMap' \in [PoolThreads -> Locks \cup {0}]
      /\ \A u \in PoolThreads : LockOK(u)'
  BY <1>0, <1>1, <1>2, <1>3, LeavesLocks DEF Actors
<1>5. /\ taskMap' \in [PoolThreads -> 0..MaxRequests]
      /\ \A u \in PoolThreads : u # t => taskMap'[u] = taskMap[u]
  BY <1>0, <1>1, <1>2 DEF ThreadsTypeOK
<1>6. ThreadsTypeOK'
  BY <1>0, <1>1, <1>2, <1>3, <1>4, <1>5 DEF ThreadsTypeOK, CallRecords
<1>7. CallsInv'
  <2>1. ASSUME NEW u \in PoolThreads PROVE PoolOK(u)'
    BY <1>0, <1>1, <1>2, <1>3, <1>5 DEF CallsInv, PoolOK, Actors
  <2>2. ASSUME NEW u \in PoolThreads PROVE ThreadCallOK(u)'
    BY <1>0, <1>1, <1>2, <1>3, OutType DEF CallsInv, ThreadCallOK, Actors
  <2>3. ASSUME NEW c \in Cancellers PROVE CancelCallOK(c)'
    BY <1>0, <1>1, <1>3, ThreadsAssumption DEF CallsInv, CancelCallOK, Ran, Actors
  <2>4. ASSUME NEW p \in Terminables PROVE ObjectOK(p)'
    BY <1>0, <1>1 DEF CallsInv, ObjectOK
  <2>5. ASSUME NEW b \in Actors PROVE CallOK(b)'
    BY <1>0, <1>3, OutType DEF CallsInv, CallOK
  <2> QED BY <1>4, <2>1, <2>2, <2>3, <2>4, <2>5 DEF CallsInv
<1>8. ~Inside(t)' /\ \A b \in Actors : b # t => (Inside(b)' <=> Inside(b)) /\ call'[b] = call[b]
  BY <1>3, OutType DEF Inside
<1>9. ASSUME NEW u \in PoolThreads, u \notin overlapped'
      PROVE  AloneInside(u)' /\ KnowsTask(u)' /\ TellsOnce(u)'
  <2>1. AloneInside(u) /\ KnowsTask(u) /\ TellsOnce(u)
    BY <1>0, <1>1, <1>9 DEF NotOverlapped
  <2>2. AloneInside(u)'
    BY <1>8, <2>1 DEF AloneInside
  <2>3. ASSUME NEW c \in Cancellers, Inside(c), call[c].id = t, u = t
        PROVE  FALSE
    BY <1>1, <1>2, <2>1, <2>3, ThreadsAssumption DEF AloneInside, Actors
  <2>4. KnowsTask(u)'
    BY <1>1, <1>5, <1>8, <2>1, <2>3, ThreadsAssumption DEF KnowsTask, TaskToTell, Actors
  <2>5. u = t => o \notin stopped /\ o \notin told
    BY <1>0, <1>1, <1>2, <2>1, ThreadsAssumption DEF TellsOnce, ThreadsTypeOK
  <2>6. TellsOnce(u)'
    BY <1>1, <1>5, <1>8, <2>1, <2>5 DEF TellsOnce, Actors
  <2> QED BY <2>2, <2>4, <2>6
<1> QED BY <1>6, <1>7, <1>9 DEF ThreadsInv, NotOverlapped

LEMMA EndInv ==
    ASSUME ThreadsInv, NEW t \in PoolThreads, End(t)
    PROVE  ThreadsInv'
<1>0. ThreadsTypeOK /\ CallsInv /\ \A u \in PoolThreads : NotOverlapped(u)
  BY DEF ThreadsInv
<1> DEFINE o == pool[t].runs
<1>1. /\ pool[t].at = "task" /\ call[t] = Out
      /\ mThread' = [mThread EXCEPT ![o] = NoThread]
      /\ pool' = [pool EXCEPT ![t].at = "ending"]
      /\ Calls(t, "unregister", o, t)
      /\ UNCHANGED <<phase, isCancel, infoMap, stopped, told, taskMap, lockMap>>
      /\ UNCHANGED <<onCancels, requested, cancelled, lost, overlapped>>
  BY DEF End, InTask, manager, history
<1>2. /\ o \in Terminables /\ phase[o] = "running" /\ infoMap[t] = o
      /\ \A u \in PoolThreads : u # t => pool[u].runs # o
  <2>1. PoolOK(t) /\ pool[t] \in PoolRecords
    BY <1>0, TypeSplit DEF CallsInv
  <2> QED BY <1>1, <2>1 DEF PoolOK, PoolRecords
<1>3. /\ pool' \in [PoolThreads -> PoolRecords] /\ pool'[t].runs = o /\ pool'[t].at = "ending"
      /\ \A u \in PoolThreads : u # t => pool'[u] = pool[u]
  BY <1>0, <1>1, TypeSplit DEF PoolRecords
<1>4. /\ call' \in [Actors -> CallRecords]
      /\ call'[t].op = "unregister" /\ call'[t].at = "calling" /\ call'[t].of = o
      /\ call'[t].id = t /\ call'[t].lock = 0
      /\ \A b \in Actors : b # t => call'[b] = call[b]
  BY <1>0, <1>1, <1>2, CallsType DEF Actors
<1>5. call'[t] # Out
  BY <1>4, OutType
<1>6. ThreadsTypeOK'
  BY <1>0, <1>1, <1>2, <1>3, <1>4 DEF ThreadsTypeOK, PoolRecords, CallRecords
<1>7. CallsInv'
  <2>1. ASSUME NEW u \in PoolThreads PROVE PoolOK(u)'
    BY <1>0, <1>1, <1>2, <1>3, <1>4 DEF CallsInv, PoolOK, Actors
  <2>2. ASSUME NEW u \in PoolThreads PROVE ThreadCallOK(u)'
    BY <1>0, <1>1, <1>3, <1>4, <1>5 DEF CallsInv, ThreadCallOK, Actors
  <2>3. ASSUME NEW u \in PoolThreads PROVE LockOK(u)'
    BY <1>0, <1>1, <1>4, OutType DEF CallsInv, LockOK
  <2>4. ASSUME NEW c \in Cancellers PROVE CancelCallOK(c)'
    BY <1>0, <1>1, <1>3, <1>4, ThreadsAssumption DEF CallsInv, CancelCallOK, Ran, Actors
  <2>5. ASSUME NEW p \in Terminables PROVE ObjectOK(p)'
    BY <1>0, <1>1, <1>2, <1>3 DEF CallsInv, ObjectOK, ThreadsTypeOK
  <2>6. ASSUME NEW b \in Actors PROVE CallOK(b)'
    BY <1>0, <1>4, <1>5 DEF CallsInv, CallOK
  <2> QED BY <2>1, <2>2, <2>3, <2>4, <2>5, <2>6 DEF CallsInv
<1>8. ~Inside(t)' /\ \A b \in Actors : b # t => (Inside(b)' <=> Inside(b)) /\ call'[b] = call[b]
  BY <1>4 DEF Inside
<1>9. ASSUME NEW u \in PoolThreads PROVE NotOverlapped(u)'
  BY <1>0, <1>1, <1>3, <1>8 DEF NotOverlapped, AloneInside, KnowsTask, TaskToTell, TellsOnce, Actors
<1> QED BY <1>6, <1>7, <1>9 DEF ThreadsInv

LEMMA UnregisterThreadInv ==
    ASSUME ThreadsInv, NEW t \in PoolThreads, UnregisterThread(t)
    PROVE  ThreadsInv'
<1>0. ThreadsTypeOK /\ CallsInv /\ \A u \in PoolThreads : NotOverlapped(u)
  BY DEF ThreadsInv
<1> DEFINE o == pool[t].runs
<1>1. /\ Enters(t, "unregister") /\ Leaves(t) /\ Returns(t)
      /\ infoMap' = [infoMap EXCEPT ![t] = NoTask]
      /\ taskMap' = [taskMap EXCEPT ![t] = 0]
      /\ isCancel' = [isCancel EXCEPT ![o] = TRUE]
      /\ pool' = [pool EXCEPT ![t] = Idle]
      /\ phase' = [phase EXCEPT ![o] = "ended"]
      /\ UNCHANGED <<mThread, stopped, told, onCancels, requested, cancelled, lost>>
  BY DEF UnregisterThread
<1>2. /\ call[t].at = "waiting" /\ call[t].op = "unregister" /\ call[t] # Out
      /\ overlapped \subseteq overlapped' /\ overlapped' \subseteq overlapped \cup {call[t].id}
      /\ \A b \in Actors \ {t} : Inside(b) /\ call[b].id = call[t].id => call[t].id \in overlapped'
  BY <1>1, EntersAlone, OutType DEF Actors
<1>3. /\ o \in Terminables /\ pool[t].at = "ending" /\ phase[o] = "running" /\ infoMap[t] = o
      /\ call[t].id = t
      /\ \A u \in PoolThreads : u # t => pool[u].runs # o
  <2>1. PoolOK(t) /\ ThreadCallOK(t) /\ pool[t] \in PoolRecords
    BY <1>0, TypeSplit DEF CallsInv
  <2> QED BY <1>2, <2>1 DEF PoolOK, ThreadCallOK, PoolRecords
<1>4. /\ call' \in [Actors -> CallRecords] /\ call'[t] = Out
      /\ \A b \in Actors : b # t => call'[b] = call[b]
  BY <1>0, <1>1, ReturnsType DEF Actors
<1>5. /\ pool' \in [PoolThreads -> PoolRecords] /\ pool'[t].runs = NoTask /\ pool'[t].at = "idle"
      /\ \A u \in PoolThreads : u # t => pool'[u] = pool[u]
  BY <1>0, <1>1, TypeSplit, IdleType
<1>6. /\ lockMap' \in [PoolThreads -> Locks \cup {0}]
      /\ \A u \in PoolThreads : LockOK(u)'
  BY <1>0, <1>1, <1>3, <1>4, LeavesLocks DEF Actors
<1>7. /\ infoMap' \in [PoolThreads -> Terminables \cup {NoTask}] /\ infoMap'[t] = NoTask
      /\ taskMap' \in [PoolThreads -> 0..MaxRequests] /\ taskMap'[t] = 0
      /\ \A u \in PoolThreads : u # t => infoMap'[u] = infoMap[u] /\ taskMap'[u] = taskMap[u]
      /\ phase' \in [Terminables -> {"new", "queued", "running", "ended"}]
      /\ isCancel' \in [Terminables -> BOOLEAN]
      /\ phase'[o] = "ended"
      /\ \A p \in Terminables : p # o => phase'[p] = phase[p] /\ isCancel'[p] = isCancel[p]
  BY <1>0, <1>1, <1>3, ThreadsAssumption DEF ThreadsTypeOK
<1>8. ThreadsTypeOK'
  BY <1>0, <1>1, <1>2, <1>3, <1>4, <1>5, <1>6, <1>7 DEF ThreadsTypeOK, CallRecords, PoolRecords
<1>9. CallsInv'
  <2>1. ASSUME NEW u \in PoolThreads PROVE PoolOK(u)'
    BY <1>0, <1>3, <1>4, <1>5, <1>7, TypeSplit DEF CallsInv, PoolOK, Actors, PoolRecords
  <2>2. ASSUME NEW u \in PoolThreads PROVE ThreadCallOK(u)'
    BY <1>0, <1>4, <1>5, OutType DEF CallsInv, ThreadCallOK, Actors
  <2>3. ASSUME NEW c \in Cancellers PROVE CancelCallOK(c)'
    BY <1>0, <1>3, <1>4, <1>5, <1>7, ThreadsAssumption DEF CallsInv, CancelCallOK, Ran, Actors
  <2>4. ASSUME NEW p \in Terminables PROVE ObjectOK(p)'
    BY <1>0, <1>1, <1>3, <1>5, <1>7, ThreadsAssumption DEF CallsInv, ObjectOK, ThreadsTypeOK
  <2>5. ASSUME NEW b \in Actors PROVE CallOK(b)'
    BY <1>0, <1>4, OutType DEF CallsInv, CallOK
  <2> QED BY <1>6, <2>1, <2>2, <2>3, <2>4, <2>5 DEF CallsInv
<1>10. ~Inside(t)' /\ \A b \in Actors : b # t => (Inside(b)' <=> Inside(b)) /\ call'[b] = call[b]
  BY <1>4, OutType DEF Inside
<1>11. ASSUME NEW u \in PoolThreads, u \notin overlapped'
       PROVE  AloneInside(u)' /\ KnowsTask(u)' /\ TellsOnce(u)'
  <2>1. AloneInside(u) /\ KnowsTask(u) /\ TellsOnce(u)
    BY <1>0, <1>2, <1>11 DEF NotOverlapped
  <2>2. AloneInside(u)'
    BY <1>10, <2>1 DEF AloneInside
  <2>3. KnowsTask(u)'
    BY <1>1, <1>2, <1>3, <1>7, <1>10, <1>11, <2>1, ThreadsAssumption DEF KnowsTask, TaskToTell, Actors
  <2>4. TellsOnce(u)'
    BY <1>1, <1>5, <1>7, <1>10, <2>1 DEF TellsOnce, Actors
  <2> QED BY <2>2, <2>3, <2>4
<1> QED BY <1>8, <1>9, <1>11 DEF ThreadsInv, NotOverlapped

-------------------------------------------------------------------------------
(***************************************************************************)
(* cancel().                                                               *)
(***************************************************************************)
LEMMA CancelInv ==
    ASSUME ThreadsInv, NEW c \in Cancellers, NEW o \in Terminables, Cancel(c, o)
    PROVE  ThreadsInv'
<1>0. ThreadsTypeOK /\ CallsInv /\ \A u \in PoolThreads : NotOverlapped(u)
  BY DEF ThreadsInv
<1>1. /\ call[c] = Out /\ c \in Actors /\ c \notin PoolThreads
      /\ isCancel' = [isCancel EXCEPT ![o] = TRUE]
      /\ call' = [call EXCEPT ![c] = [Out EXCEPT !.op = "cancel", !.at = "asking", !.of = o]]
      /\ UNCHANGED <<phase, mThread, pool, infoMap, stopped, told, taskMap, lockMap>>
      /\ UNCHANGED <<onCancels, requested, cancelled, lost, overlapped>>
  BY ThreadsAssumption DEF Cancel, Actors, manager, history
<1>2. /\ call' \in [Actors -> CallRecords]
      /\ call'[c].op = "cancel" /\ call'[c].at = "asking" /\ call'[c].of = o /\ call'[c].lock = 0
      /\ \A b \in Actors : b # c => call'[b] = call[b]
  <2> DEFINE r == [Out EXCEPT !.op = "cancel", !.at = "asking", !.of = o]
  <2>1. /\ r \in CallRecords /\ r.op = "cancel" /\ r.at = "asking" /\ r.of = o /\ r.lock = 0
    BY OutType DEF CallRecords
  <2>2. call' = [call EXCEPT ![c] = r]
    BY <1>1
  <2> HIDE DEF r
  <2> QED BY <1>0, <1>1, <2>1, <2>2, TypeSplit
<1>3. call'[c] # Out
  BY <1>2, OutType
<1>4. ThreadsTypeOK'
  BY <1>0, <1>1, <1>2 DEF ThreadsTypeOK, CallRecords
<1>5. CallsInv'
  <2>1. ASSUME NEW u \in PoolThreads PROVE PoolOK(u)' /\ ThreadCallOK(u)'
    BY <1>0, <1>1, <1>2 DEF CallsInv, PoolOK, ThreadCallOK, Actors
  <2>2. ASSUME NEW u \in PoolThreads PROVE LockOK(u)'
    BY <1>0, <1>1, <1>2, OutType DEF CallsInv, LockOK
  <2>3. ASSUME NEW d \in Cancellers PROVE CancelCallOK(d)'
    BY <1>0, <1>1, <1>2 DEF CallsInv, CancelCallOK, Ran, Actors
  <2>4. ASSUME NEW p \in Terminables PROVE ObjectOK(p)'
    BY <1>0, <1>1 DEF CallsInv, ObjectOK, ThreadsTypeOK
  <2>5. ASSUME NEW b \in Actors PROVE CallOK(b)'
    BY <1>0, <1>2, <1>3 DEF CallsInv, CallOK
  <2> QED BY <2>1, <2>2, <2>3, <2>4, <2>5 DEF CallsInv
<1>6. ~Inside(c)' /\ \A b \in Actors : b # c => (Inside(b)' <=> Inside(b)) /\ call'[b] = call[b]
  BY <1>2 DEF Inside
<1>7. ASSUME NEW u \in PoolThreads PROVE NotOverlapped(u)'
  BY <1>0, <1>1, <1>6 DEF NotOverlapped, AloneInside, KnowsTask, TaskToTell, TellsOnce, Actors
<1> QED BY <1>4, <1>5, <1>7 DEF ThreadsInv

LEMMA AskThreadInv ==
    ASSUME ThreadsInv, NEW c \in Cancellers, AskThread(c)
    PROVE  ThreadsInv'
<1>0. ThreadsTypeOK /\ CallsInv /\ \A u \in PoolThreads : NotOverlapped(u)
  BY DEF ThreadsInv
<1> DEFINE o == call[c].of
<1>1. /\ call[c].at = "asking" /\ c \in Actors /\ c \notin PoolThreads
      /\ UNCHANGED <<phase, isCancel, mThread, pool, infoMap, stopped, told, taskMap, lockMap>>
      /\ UNCHANGED <<onCancels, requested, overlapped>>
  BY ThreadsAssumption DEF AskThread, Actors, manager
<1>2. o \in Terminables /\ call[c] # Out /\ call[c].lock = 0 /\ CancelCallOK(c)
  BY <1>0, <1>1, OutType DEF CallsInv, CancelCallOK, CallOK
<1>3. CASE /\ mThread[o] = NoThread /\ Returns(c)
           /\ cancelled' = cancelled \cup {o}
           /\ lost' = IF phase[o] \in {"new", "running"} \/ ~isCancel[o]
                      THEN lost \cup {o} ELSE lost
  <2>1. /\ call' \in [Actors -> CallRecords] /\ call'[c] = Out
        /\ \A b \in Actors : b # c => call'[b] = call[b]
    BY <1>0, <1>1, <1>3, ReturnsType
  <2>2. ThreadsTypeOK'
    BY <1>0, <1>1, <1>2, <1>3, <2>1 DEF ThreadsTypeOK, CallRecords
  <2>3. CallsInv'
    <3>1. ASSUME NEW u \in PoolThreads PROVE PoolOK(u)' /\ ThreadCallOK(u)'
      BY <1>0, <1>1, <2>1 DEF CallsInv, PoolOK, ThreadCallOK, Actors
    <3>2. ASSUME NEW u \in PoolThreads PROVE LockOK(u)'
      BY <1>0, <1>1, <1>2, <2>1 DEF CallsInv, LockOK
    <3>3. ASSUME NEW d \in Cancellers PROVE CancelCallOK(d)'
      BY <1>0, <1>1, <2>1, OutType DEF CallsInv, CancelCallOK, Ran, Actors
    <3>4. ASSUME NEW p \in Terminables PROVE ObjectOK(p)'
      <4>1. ObjectOK(p)
        BY <1>0 DEF CallsInv
      <4>2. CASE p = o /\ p \notin lost'
        <5>1. phase[p] \in {"queued", "ended"} /\ isCancel[p]
          BY <1>0, <1>2, <1>3, <4>2 DEF ThreadsTypeOK
        <5>2. phase[p] = "queued" => \A t \in PoolThreads : pool[t].runs # p
          BY <1>0, <1>2, <4>2, ThreadsAssumption DEF CallsInv, PoolOK
        <5> QED BY <1>1, <4>1, <5>1, <5>2 DEF ObjectOK
      <4>3. CASE p = o /\ p \in lost'
        BY <1>1, <4>1, <4>3 DEF ObjectOK
      <4>4. CASE p # o
        <5>1. p \in cancelled' \ lost' => p \in cancelled \ lost
          BY <1>3, <4>4
        <5> QED BY <1>1, <4>1, <5>1 DEF ObjectOK
      <4> QED BY <4>2, <4>3, <4>4
    <3>5. ASSUME NEW b \in Actors PROVE CallOK(b)'
      BY <1>0, <2>1, OutType DEF CallsInv, CallOK
    <3> QED BY <3>1, <3>2, <3>3, <3>4, <3>5 DEF CallsInv
  <2>4. ~Inside(c)' /\ \A b \in Actors : b # c => (Inside(b)' <=> Inside(b)) /\ call'[b] = call[b]
    BY <2>1, OutType DEF Inside
  <2>5. ASSUME NEW u \in PoolThreads PROVE NotOverlapped(u)'
    BY <1>0, <1>1, <2>4 DEF NotOverlapped, AloneInside, KnowsTask, TaskToTell, TellsOnce, Actors
  <2> QED BY <2>2, <2>3, <2>5 DEF ThreadsInv
<1>4. CASE /\ mThread[o] # NoThread /\ Calls(c, "cancel", o, mThread[o])
           /\ UNCHANGED <<cancelled, lost>>
  <2>1. /\ mThread[o] \in PoolThreads /\ Ran(o, mThread[o])
    <3>1. /\ mThread[o] \in PoolThreads
          /\ pool[mThread[o]].runs = o /\ pool[mThread[o]].at = "task"
      BY <1>0, <1>2, <1>4 DEF CallsInv, ObjectOK, ThreadsTypeOK
    <3>2. PoolOK(mThread[o])
      BY <1>0, <3>1 DEF CallsInv
    <3> QED BY <1>2, <3>1, <3>2, ThreadsAssumption DEF PoolOK, Ran
  <2>2. /\ call' \in [Actors -> CallRecords]
        /\ call'[c].op = "cancel" /\ call'[c].at = "calling" /\ call'[c].of = o
        /\ call'[c].id = mThread[o] /\ call'[c].lock = 0
        /\ \A b \in Actors : b # c => call'[b] = call[b]
    BY <1>0, <1>1, <1>2, <1>4, <2>1, CallsType
  <2>3. call'[c] # Out
    BY <2>2, OutType
  <2>4. ThreadsTypeOK'
    BY <1>0, <1>1, <1>4, <2>2 DEF ThreadsTypeOK, CallRecords
  <2>5. CallsInv'
    <3>1. ASSUME NEW u \in PoolThreads PROVE PoolOK(u)' /\ ThreadCallOK(u)'
      BY <1>0, <1>1, <2>2 DEF CallsInv, PoolOK, ThreadCallOK, Actors
    <3>2. ASSUME NEW u \in PoolThreads PROVE LockOK(u)'
      BY <1>0, <1>1, <1>2, <2>2 DEF CallsInv, LockOK
    <3>3. ASSUME NEW d \in Cancellers PROVE CancelCallOK(d)'
      BY <1>0, <1>1, <1>2, <2>1, <2>2 DEF CallsInv, CancelCallOK, Ran, Actors
    <3>4. ASSUME NEW p \in Terminables PROVE ObjectOK(p)'
      BY <1>0, <1>1, <1>4 DEF CallsInv, ObjectOK
    <3>5. ASSUME NEW b \in Actors PROVE CallOK(b)'
      BY <1>0, <2>2, <2>3 DEF CallsInv, CallOK
    <3> QED BY <3>1, <3>2, <3>3, <3>4, <3>5 DEF CallsInv
  <2>6. ~Inside(c)' /\ \A b \in Actors : b # c => (Inside(b)' <=> Inside(b)) /\ call'[b] = call[b]
    BY <2>2 DEF Inside
  <2>7. ASSUME NEW u \in PoolThreads PROVE NotOverlapped(u)'
    BY <1>0, <1>1, <2>6 DEF NotOverlapped, AloneInside, KnowsTask, TaskToTell, TellsOnce, Actors
  <2> QED BY <2>4, <2>5, <2>7 DEF ThreadsInv
<1> QED BY <1>3, <1>4 DEF AskThread

LEMMA LookCancelInv ==
    ASSUME ThreadsInv, NEW c \in Cancellers, LookCancel(c)
    PROVE  ThreadsInv'
<1>0. ThreadsTypeOK /\ CallsInv /\ \A u \in PoolThreads : NotOverlapped(u)
  BY DEF ThreadsInv
<1> DEFINE id == call[c].id
           k  == IF infoMap[id] = NoTask THEN 0 ELSE TaskToTell(infoMap[id], id)
<1>1. /\ Enters(c, "cancel") /\ c \in Actors /\ c \notin PoolThreads
      /\ UNCHANGED <<phase, isCancel, mThread, pool, infoMap, stopped, told, taskMap, lockMap>>
      /\ UNCHANGED <<onCancels, requested, cancelled, lost>>
  BY ThreadsAssumption DEF LookCancel, Actors, manager
<1>2. /\ call[c].at = "waiting" /\ call[c].op = "cancel" /\ call[c] # Out
      /\ overlapped \subseteq overlapped' /\ overlapped' \subseteq overlapped \cup {id}
      /\ \A b \in Actors \ {c} : Inside(b) /\ call[b].id = id => id \in overlapped'
  BY <1>1, EntersAlone, OutType
<1>3. /\ id \in PoolThreads /\ CancelCallOK(c) /\ Ran(call[c].of, id) /\ call[c].of \in Terminables
  BY <1>0, <1>2 DEF CallsInv, CancelCallOK
<1>4. /\ infoMap[id] \in Terminables \cup {NoTask} /\ k \in 0..MaxRequests
      /\ k # 0 => infoMap[id] # NoTask
  BY <1>0, <1>3, ThreadsAssumption DEF ThreadsTypeOK, TaskToTell
<1>5. infoMap[id] # NoTask => Ran(infoMap[id], id)
  <2>1. PoolOK(id)
    BY <1>0, <1>3 DEF CallsInv
  <2> QED BY <1>4, <2>1 DEF PoolOK, Ran
<1>6. /\ call' \in [Actors -> CallRecords]
      /\ call'[c].op = "cancel" /\ call'[c].at = "inside" /\ call'[c].of = call[c].of
      /\ call'[c].id = id /\ call'[c].lock = call[c].lock
      /\ call'[c].info = infoMap[id] /\ call'[c].k = k
      /\ \A b \in Actors : b # c => call'[b] = call[b]
  <2>1. call' = [call EXCEPT ![c].at = "inside", ![c].info = infoMap[id], ![c].k = k]
    BY DEF LookCancel
  <2> HIDE DEF k
  <2> DEFINE r == [call[c] EXCEPT !.at = "inside", !.info = infoMap[id], !.k = k]
  <2>2. call[c] \in CallRecords
    BY <1>0, <1>1, TypeSplit
  <2>3. /\ r \in CallRecords /\ r.op = "cancel" /\ r.at = "inside" /\ r.of = call[c].of
        /\ r.id = id /\ r.lock = call[c].lock /\ r.info = infoMap[id] /\ r.k = k
    BY <1>2, <1>4, <2>2 DEF CallRecords
  <2>4. call' = [call EXCEPT ![c] = r]
    BY <2>1
  <2> HIDE DEF r
  <2> QED BY <1>0, <1>1, <2>3, <2>4, TypeSplit
<1>7. call'[c] # Out
  BY <1>6, OutType
<1>8. ThreadsTypeOK'
  BY <1>0, <1>1, <1>2, <1>3, <1>6 DEF ThreadsTypeOK, CallRecords
<1>9. CallsInv'
  <2>1. ASSUME NEW u \in PoolThreads PROVE PoolOK(u)' /\ ThreadCallOK(u)'
    BY <1>0, <1>1, <1>6 DEF CallsInv, PoolOK, ThreadCallOK, Actors
  <2>2. ASSUME NEW u \in PoolThreads PROVE LockOK(u)'
    BY <1>0, <1>1, <1>6 DEF CallsInv, LockOK
  <2>3. ASSUME NEW d \in Cancellers PROVE CancelCallOK(d)'
    <3>1. CASE d = c
      <4> HIDE DEF k
      <4> QED BY <1>1, <1>3, <1>4, <1>5, <1>6, <3>1 DEF CancelCallOK, Ran
    <3>2. CASE d # c
      BY <1>0, <1>1, <1>6, <3>2 DEF CallsInv, CancelCallOK, Ran, Actors
    <3> QED BY <3>1, <3>2
  <2>4. ASSUME NEW p \in Terminables PROVE ObjectOK(p)'
    BY <1>0, <1>1 DEF CallsInv, ObjectOK
  <2>5. ASSUME NEW b \in Actors PROVE CallOK(b)'
    BY <1>0, <1>2, <1>6, <1>7 DEF CallsInv, CallOK
  <2> QED BY <2>1, <2>2, <2>3, <2>4, <2>5 DEF CallsInv
<1>10. \A b \in Actors : b # c => (Inside(b)' <=> Inside(b)) /\ call'[b] = call[b]
  BY <1>6 DEF Inside
<1>11. ASSUME NEW u \in PoolThreads, u \notin overlapped'
       PROVE  AloneInside(u)' /\ KnowsTask(u)' /\ TellsOnce(u)'
  <2>1. AloneInside(u) /\ KnowsTask(u) /\ TellsOnce(u)
    BY <1>0, <1>2, <1>11 DEF NotOverlapped
  <2>2. AloneInside(u)'
    BY <1>2, <1>6, <1>10, <1>11, <2>1 DEF AloneInside
  <2>3. KnowsTask(u)'
    BY <1>1, <1>6, <1>10, <2>1 DEF KnowsTask, TaskToTell, Actors
  <2>4. TellsOnce(u)'
    BY <1>1, <1>10, <2>1 DEF TellsOnce, Actors
  <2> QED BY <2>2, <2>3, <2>4
<1> QED BY <1>8, <1>9, <1>11 DEF ThreadsInv, NotOverlapped

LEMMA NotZero == ASSUME NEW n \in 0..MaxRequests, n # 0 PROVE n \in 1..MaxRequests
BY ThreadsAssumption

LEMMA DoCancelInv ==
    ASSUME ThreadsInv, NEW c \in Cancellers, DoCancel(c)
    PROVE  ThreadsInv'
<1>0. ThreadsTypeOK /\ CallsInv /\ \A u \in PoolThreads : NotOverlapped(u)
  BY DEF ThreadsInv
<1> DEFINE id == call[c].id
           i  == call[c].info
           k  == call[c].k
           o  == call[c].of
<1>1. /\ Inside(c) /\ call[c].at = "inside" /\ c \in Actors /\ c \notin PoolThreads
      /\ Leaves(c) /\ Returns(c)
      /\ onCancels' = IF k = 0 THEN onCancels
                      ELSE [onCancels EXCEPT ![i][k] = IF @ < 2 THEN @ + 1 ELSE @]
      /\ told' = IF k = 0 THEN told ELSE told \cup {i}
      /\ stopped' = IF i = NoTask THEN stopped ELSE stopped \cup {i}
      /\ cancelled' = cancelled \cup {o}
      /\ UNCHANGED <<phase, isCancel, mThread, pool, infoMap, taskMap, requested, lost, overlapped>>
  BY ThreadsAssumption DEF DoCancel, Inside, Actors
<1>2. /\ id \in PoolThreads /\ o \in Terminables /\ Ran(o, id)
      /\ k # 0 => i \in Terminables /\ k \in 1..MaxRequests
      /\ i # NoTask => i \in Terminables /\ Ran(i, id)
      /\ \A u \in PoolThreads : pool[u].runs = o => i = o
  <2>1. CancelCallOK(c) /\ call[c] \in CallRecords
    BY <1>0, <1>1, TypeSplit DEF CallsInv
  <2>2. call[c] # Out /\ call[c].k \in 0..MaxRequests /\ call[c].info \in Terminables \cup {NoTask}
    BY <1>1, <2>1, OutType DEF CallRecords
  <2>3. k # 0 => i # NoTask /\ k \in 1..MaxRequests
    BY <1>1, <2>1, <2>2, NotZero DEF CancelCallOK
  <2> QED BY <1>1, <2>1, <2>2, <2>3 DEF CancelCallOK
<1>3. /\ call' \in [Actors -> CallRecords] /\ call'[c] = Out
      /\ \A b \in Actors : b # c => call'[b] = call[b]
  BY <1>0, <1>1, ReturnsType
<1>4. /\ lockMap' \in [PoolThreads -> Locks \cup {0}]
      /\ \A u \in PoolThreads : LockOK(u)'
  BY <1>0, <1>1, <1>2, <1>3, LeavesLocks
<1>5. /\ stopped \subseteq stopped' /\ told' \subseteq stopped' /\ stopped' \subseteq Terminables
      /\ i # NoTask => i \in stopped'
      /\ \A p \in Terminables : p # i => (p \in stopped' <=> p \in stopped) /\ (p \in told' <=> p \in told)
      /\ k = 0 => told' = told
      /\ k # 0 => i \in told'
  BY <1>0, <1>1, <1>2, ThreadsAssumption DEF ThreadsTypeOK
<1>6. /\ onCancels' \in [Terminables -> [1..MaxRequests -> 0..2]]
      /\ \A p \in Terminables : p # i => onCancels'[p] = onCancels[p]
      /\ k = 0 => onCancels' = onCancels
      /\ k # 0 /\ onCancels[i][k] = 0 => onCancels'[i][k] = 1
  <2>1. CASE k = 0
    BY <1>0, <1>1, <2>1 DEF ThreadsTypeOK
  <2>2. CASE k # 0
    <3> DEFINE n == onCancels[i][k]
               g == [onCancels[i] EXCEPT ![k] = IF n < 2 THEN n + 1 ELSE n]
    <3>1. onCancels[i] \in [1..MaxRequests -> 0..2] /\ k \in 1..MaxRequests
      <4>1. onCancels \in [Terminables -> [1..MaxRequests -> 0..2]]
        BY <1>0 DEF ThreadsTypeOK
      <4>2. i \in Terminables /\ k \in 1..MaxRequests
        BY <1>2, <2>2
      <4> QED BY <4>1, <4>2
    <3>2. g \in [1..MaxRequests -> 0..2] /\ (n = 0 => g[k] = 1)
      <4> DEFINE h == onCancels[i]
      <4>1. h \in [1..MaxRequests -> 0..2] /\ k \in 1..MaxRequests
        BY <3>1
      <4> HIDE DEF h, k
      <4>2. h[k] \in 0..2
        BY <4>1
      <4>3. (IF h[k] < 2 THEN h[k] + 1 ELSE h[k]) \in 0..2
        BY <4>2
      <4>4. /\ [h EXCEPT ![k] = IF h[k] < 2 THEN h[k] + 1 ELSE h[k]] \in [1..MaxRequests -> 0..2]
            /\ h[k] = 0 => [h EXCEPT ![k] = IF h[k] < 2 THEN h[k] + 1 ELSE h[k]][k] = 1
        BY <4>1, <4>3
      <4> QED BY <4>4 DEF h
    <3>3. onCancels' = [onCancels EXCEPT ![i] = g]
      BY <1>1, <2>2
    <3>4. onCancels \in [Terminables -> [1..MaxRequests -> 0..2]]
      BY <1>0 DEF ThreadsTypeOK
    <3>5. i \in Terminables
      BY <1>2, <2>2
    <3> HIDE DEF g
    <3> QED BY <2>2, <3>2, <3>3, <3>4, <3>5
  <2> QED BY <2>1, <2>2
<1>7. ThreadsTypeOK'
  <2>1. cancelled' \subseteq Terminables
    BY <1>0, <1>1, <1>2 DEF ThreadsTypeOK
  <2> HIDE DEF i, k, o
  <2> QED BY <1>0, <1>1, <1>3, <1>4, <1>5, <1>6, <2>1 DEF ThreadsTypeOK, CallRecords
<1>8. CallsInv'
  <2>1. ASSUME NEW u \in PoolThreads PROVE PoolOK(u)' /\ ThreadCallOK(u)'
    BY <1>0, <1>1, <1>3 DEF CallsInv, PoolOK, ThreadCallOK, Actors
  <2>2. ASSUME NEW d \in Cancellers PROVE CancelCallOK(d)'
    BY <1>0, <1>1, <1>3, OutType DEF CallsInv, CancelCallOK, Ran, Actors
  <2>3. ASSUME NEW p \in Terminables PROVE ObjectOK(p)'
    <3>1. ObjectOK(p)
      BY <1>0 DEF CallsInv
    <3>2. /\ mThread'[p] # NoThread => pool'[mThread'[p]].runs = p /\ pool'[mThread'[p]].at = "task"
      BY <1>1, <3>1 DEF ObjectOK
    <3>3. phase'[p] \in {"new", "queued"}
          => p \notin stopped' /\ \A n \in 1..MaxRequests : onCancels'[p][n] = 0
      <4>1. SUFFICES ASSUME phase[p] \in {"new", "queued"}
                     PROVE  p \notin stopped' /\ \A n \in 1..MaxRequests : onCancels'[p][n] = 0
        BY <1>1
      <4>2. p # i
        BY <1>2, <4>1, ThreadsAssumption DEF Ran
      <4> QED BY <1>5, <1>6, <3>1, <4>1, <4>2 DEF ObjectOK
    <3>4. p \in cancelled' \ lost'
          => \/ p \in stopped'
             \/ phase'[p] = "ended"
             \/ /\ isCancel'[p] /\ phase'[p] \in {"queued", "running"}
                /\ \A t \in PoolThreads : pool'[t].runs = p => pool'[t].at = "taken"
      <4>1. CASE p = o /\ p \notin stopped'
        <5>1. \A t \in PoolThreads : pool[t].runs # p
          BY <1>2, <1>5, <4>1, ThreadsAssumption
        <5>2. phase[p] = "ended"
          BY <1>2, <3>1, <4>1, <5>1 DEF Ran, ObjectOK
        <5> QED BY <1>1, <5>2
      <4>2. CASE p # o
        BY <1>1, <1>5, <3>1, <4>2 DEF ObjectOK
      <4> QED BY <4>1, <4>2
    <3>5. phase'[p] = "running" => \E t \in PoolThreads : pool'[t].runs = p
      BY <1>1, <3>1 DEF ObjectOK
    <3> QED BY <3>2, <3>3, <3>4, <3>5 DEF ObjectOK
  <2>4. ASSUME NEW b \in Actors PROVE CallOK(b)'
    BY <1>0, <1>3, OutType DEF CallsInv, CallOK
  <2> QED BY <1>4, <2>1, <2>2, <2>3, <2>4 DEF CallsInv
<1>9. ~Inside(c)' /\ \A b \in Actors : b # c => (Inside(b)' <=> Inside(b)) /\ call'[b] = call[b]
  BY <1>3, OutType DEF Inside
<1>10. ASSUME NEW u \in PoolThreads, u \notin overlapped'
       PROVE  AloneInside(u)' /\ KnowsTask(u)' /\ TellsOnce(u)'
  <2>1. AloneInside(u) /\ KnowsTask(u) /\ TellsOnce(u) /\ PoolOK(u) /\ ThreadCallOK(u)
    BY <1>0, <1>1, <1>10 DEF NotOverlapped, CallsInv
  <2>2. AloneInside(u)'
    BY <1>9, <2>1 DEF AloneInside
  <2>3. ASSUME NEW d \in Cancellers, d # c, Inside(d), call[d].id = u
        PROVE  infoMap[u] # NoTask => infoMap[u] # i
    <3>1. id # u
      BY <1>1, <2>1, <2>3 DEF AloneInside, Actors
    <3> QED BY <1>2, <2>1, <3>1 DEF PoolOK, Ran
  <2>4. KnowsTask(u)'
    <3>1. infoMap[u] \in Terminables \cup {NoTask}
      BY <1>0 DEF ThreadsTypeOK
    <3> QED BY <1>1, <1>5, <1>9, <2>1, <2>3, <3>1 DEF KnowsTask, TaskToTell, Actors
  <2>5. TellsOnce(u)'
    <3> DEFINE r == pool[u].runs
    <3>1. CASE r # i /\ r # NoTask
      <4>1. r \in Terminables
        BY <1>0, <3>1, TypeSplit DEF PoolRecords
      <4> QED BY <1>1, <1>5, <1>6, <1>9, <2>1, <3>1, <4>1 DEF TellsOnce, Actors
    <3>2. CASE r = i /\ r # NoTask
      <4>1. u = id /\ infoMap[u] = i
        BY <1>2, <3>2 DEF Ran
      <4>2. ~Inside(u) /\ ~Inside(u)'
        <5>1. Inside(u) => call[u].id = u
          BY <2>1, OutType DEF ThreadCallOK, Inside
        <5> QED BY <1>1, <1>9, <2>1, <4>1, <5>1 DEF AloneInside, Actors
      <4>3. k = IF i \in told THEN 0 ELSE taskMap[u]
        BY <1>1, <2>1, <3>2, <4>1 DEF KnowsTask, TaskToTell
      <4>4. CASE k = 0
        BY <1>1, <1>5, <1>6, <2>1, <3>2, <4>2, <4>3, <4>4 DEF TellsOnce
      <4>5. CASE k # 0
        <5>1. i \notin told /\ k = taskMap[u] /\ k \in 1..MaxRequests
          <6>1. k \in 1..MaxRequests
            BY <1>2, <4>5
          <6> QED BY <4>3, <4>5, <6>1
        <5>2. onCancels[i][k] = 0
          BY <2>1, <3>2, <5>1 DEF TellsOnce
        <5> QED BY <1>1, <1>5, <1>6, <3>2, <4>2, <4>5, <5>1, <5>2 DEF TellsOnce
      <4> QED BY <4>4, <4>5
    <3>3. CASE r = NoTask
      BY <1>1, <3>3 DEF TellsOnce
    <3> QED BY <3>1, <3>2, <3>3
  <2> QED BY <2>2, <2>4, <2>5
<1> QED BY <1>7, <1>8, <1>10 DEF ThreadsInv, NotOverlapped

-------------------------------------------------------------------------------
(***************************************************************************)
(* All steps, and what follows for cancel().                               *)
(***************************************************************************)
LEMMA ThreadsInitInv == ThreadsInit => ThreadsInv
<1> SUFFICES ASSUME ThreadsInit PROVE ThreadsInv
  OBVIOUS
<1>1. /\ phase \in [Terminables -> {"new"}] /\ isCancel \in [Terminables -> {TRUE}]
      /\ mThread \in [Terminables -> {NoThread}]
      /\ pool \in [PoolThreads -> {Idle}] /\ infoMap \in [PoolThreads -> {NoTask}]
      /\ stopped = {} /\ told = {} /\ cancelled = {} /\ lost = {} /\ overlapped = {}
      /\ taskMap \in [PoolThreads -> {0}] /\ lockMap \in [PoolThreads -> {0}]
      /\ call \in [Actors -> {Out}] /\ requested \in [Terminables -> {0}]
      /\ onCancels \in [Terminables -> [1..MaxRequests -> {0}]]
  BY DEF ThreadsInit
<1>2. ThreadsTypeOK
  <2>1. call \in [Actors -> CallRecords] /\ pool \in [PoolThreads -> PoolRecords]
    BY <1>1, OutType, IdleType
  <2>2. \A t \in PoolThreads : pool[t].at = "idle"
    BY <1>1, IdleType
  <2>3. \A t \in PoolThreads : pool[t].at = "task" => infoMap[t] = pool[t].runs
    BY <2>2
  <2>4. 0 \in 0..MaxRequests /\ 0 \in 0..2
    BY ThreadsAssumption
  <2>5. /\ taskMap \in [PoolThreads -> 0..MaxRequests]
        /\ requested \in [Terminables -> 0..MaxRequests]
        /\ onCancels \in [Terminables -> [1..MaxRequests -> 0..2]]
    BY <1>1, <2>4
  <2> QED BY <1>1, <2>1, <2>3, <2>5 DEF ThreadsTypeOK, CallRecords, PoolRecords
<1>3. ASSUME NEW t \in PoolThreads
      PROVE  PoolOK(t) /\ ThreadCallOK(t) /\ LockOK(t) /\ NotOverlapped(t)
  <2>1. pool[t] = Idle /\ infoMap[t] = NoTask /\ taskMap[t] = 0 /\ lockMap[t] = 0 /\ call[t] = Out
    BY <1>1 DEF Actors
  <2>2. PoolOK(t) /\ ThreadCallOK(t) /\ LockOK(t)
    BY <1>1, <2>1, IdleType, OutType DEF PoolOK, ThreadCallOK, LockOK
  <2>3. \A a \in Actors : ~Inside(a)
    BY <1>1, OutType DEF Inside
  <2> QED BY <2>1, <2>2, <2>3, IdleType DEF NotOverlapped, AloneInside, KnowsTask, TellsOnce, Actors
<1>4. ASSUME NEW a \in Actors PROVE CallOK(a)
  BY <1>1, OutType DEF CallOK
<1>5. ASSUME NEW c \in Cancellers PROVE CancelCallOK(c)
  BY <1>1, OutType DEF CancelCallOK, Actors
<1>6. ASSUME NEW o \in Terminables PROVE ObjectOK(o)
  BY <1>1 DEF ObjectOK
<1> QED BY <1>2, <1>3, <1>4, <1>5, <1>6 DEF ThreadsInv, CallsInv

LEMMA ThreadsStutter == ThreadsInv /\ UNCHANGED threadVars => ThreadsInv'
<1> SUFFICES ASSUME ThreadsInv, UNCHANGED threadVars PROVE ThreadsInv'
  OBVIOUS
<1>1. /\ UNCHANGED <<phase, isCancel, mThread, pool, call, infoMap, stopped, told, taskMap, lockMap>>
      /\ UNCHANGED <<onCancels, requested, cancelled, lost, overlapped>>
  BY DEF threadVars, manager, history
<1>2. ThreadsTypeOK'
  BY <1>1 DEF ThreadsInv, ThreadsTypeOK
<1>3. CallsInv'
  BY <1>1 DEF ThreadsInv, CallsInv, PoolOK, ThreadCallOK, CancelCallOK, Ran, CallOK, LockOK, ObjectOK
<1>4. \A t \in PoolThreads : NotOverlapped(t)'
  BY <1>1 DEF ThreadsInv, NotOverlapped, AloneInside, KnowsTask, TaskToTell, TellsOnce, Inside
<1> QED BY <1>2, <1>3, <1>4 DEF ThreadsInv

LEMMA PoolStepInv ==
    ASSUME ThreadsInv, NEW t \in PoolThreads, PoolStep(t) \/ RequestStep(t)
    PROVE  ThreadsInv'
BY TakeInv, RunInv, ObtainLockInv, RegisterThreadInv, BeginInv, UnregisterThreadInv,
   CallHttpInv, LookHttpInv, PutHttpInv, EndInv DEF PoolStep, RequestStep, Actors

LEMMA CancelStepInv ==
    ASSUME ThreadsInv, NEW c \in Cancellers, CancelStep(c)
    PROVE  ThreadsInv'
BY AskThreadInv, ObtainLockInv, LookCancelInv, DoCancelInv DEF CancelStep, Actors

LEMMA CancelFelt == ThreadsInv => CancelIsFelt
<1> SUFFICES ASSUME ThreadsInv, NEW t \in PoolThreads,
                    pool[t].runs \in cancelled \ lost, taskMap[t] # 0, t \notin overlapped
             PROVE  onCancels[pool[t].runs][taskMap[t]] = 1
  BY DEF CancelIsFelt
<1> DEFINE o == pool[t].runs
<1>1. o \in Terminables /\ o # NoTask
  BY ThreadsAssumption DEF ThreadsInv, ThreadsTypeOK
<1>2. phase[o] = "running" /\ pool[t].at # "taken"
  BY <1>1 DEF ThreadsInv, CallsInv, PoolOK
<1>3. o \in stopped
  BY <1>1, <1>2 DEF ThreadsInv, CallsInv, ObjectOK
<1> QED BY <1>1, <1>3 DEF ThreadsInv, NotOverlapped, TellsOnce
===============================================================================
