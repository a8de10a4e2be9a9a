--------------------------- MODULE CancellableThreads ---------------------------
(***************************************************************************)
(* Tasks that can be cancelled: AbsTerminableThread objects, run by the    *)
(* threads of TerminableThreadPool, and AsyncTaskManage, in which a thread *)
(* registers itself and the HTTP task it is about to wait for, so that     *)
(* another thread can cancel both.                                         *)
(*                                                                         *)
(* A method of AsyncTaskManage works inside the monitor of a lock object   *)
(* for the thread id, which lock() makes and unlock() drops, also while    *)
(* others wait for it: whoever comes next gets another object, and two may *)
(* be inside at once.  A method is therefore up to three steps: it obtains *)
(* the object, enters and reads, writes and leaves; steps that nobody else *)
(* can tell apart are one.                                                 *)
(***************************************************************************)
EXTENDS Naturals, FiniteSets

CONSTANTS Terminables,   \* AbsTerminableThread objects
          Requests,      \* those whose task registers HTTP tasks
          PoolThreads,   \* the threads of the pool, which stand for their ids
          Cancellers,    \* threads that call cancel()
          Locks,         \* lock objects
          MaxRequests,   \* bound: the HTTP tasks of a task
          NoThread, NoTask

ASSUME ThreadsAssumption ==
    /\ Requests \subseteq Terminables
    /\ PoolThreads \cap Cancellers = {}
    /\ NoThread \notin PoolThreads
    /\ NoTask \notin Terminables
    /\ MaxRequests \in Nat
    /\ Locks \subseteq Nat \ {0} /\ IsFiniteSet(Locks) /\ IsFiniteSet(PoolThreads \cup Cancellers)
    /\ Cardinality(Locks) > Cardinality(PoolThreads \cup Cancellers)

VARIABLES phase,      \* phase[o]: what has become of the object
          isCancel,   \* isCancel[o]
          mThread,    \* the thread id in o's mThreadInfo, or NoThread
          pool,       \* pool[t]: the task the thread runs, and where it is in it
          infoMap,    \* mThreadInfoMap: whose ThreadInfo the id has, or NoTask
          stopped,    \* the ThreadInfos, by object, in STATE_STOP ...
          told,       \* ... and those with isCancel set
          taskMap,    \* mAsyncTaskMap: the number of the HTTP task, or 0
          lockMap,    \* mLockMap: the lock object, or 0
          call,       \* call[a]: the method of AsyncTaskManage a is in
          onCancels,  \* how often onCancel() of an HTTP task has been called, up to 2
          requested,  \* requested[o]: how many HTTP tasks o has registered or tried to
          cancelled,  \* the objects whose cancel() has returned
          lost,       \* ... without a ThreadInfo, before start() or after run() had begun
          overlapped  \* the ids of which two threads were inside at once

manager  == <<infoMap, stopped, told, taskMap, lockMap>>
history  == <<onCancels, requested, cancelled, lost, overlapped>>
threadVars == <<phase, isCancel, mThread, pool, call, manager, history>>

Actors == PoolThreads \cup Cancellers

Idle == [runs |-> NoTask, at |-> "idle"]
Out  == [op |-> "none", at |-> "out", of |-> NoTask, id |-> NoThread, lock |-> 0,
         info |-> NoTask, k |-> 0]

ThreadsInit ==
    /\ phase = [o \in Terminables |-> "new"]
    /\ isCancel = [o \in Terminables |-> TRUE]
    /\ mThread = [o \in Terminables |-> NoThread]
    /\ pool = [t \in PoolThreads |-> Idle]
    /\ infoMap = [t \in PoolThreads |-> NoTask]
    /\ stopped = {} /\ told = {}
    /\ taskMap = [t \in PoolThreads |-> 0]
    /\ lockMap = [t \in PoolThreads |-> 0]
    /\ call = [a \in Actors |-> Out]
    /\ onCancels = [o \in Terminables |-> [k \in 1..MaxRequests |-> 0]]
    /\ requested = [o \in Terminables |-> 0]
    /\ cancelled = {} /\ lost = {} /\ overlapped = {}

-------------------------------------------------------------------------------
(* lock(): the object in the map, or a new one.                            *)
Fresh == CHOOSE l \in Locks : /\ \A t \in PoolThreads : lockMap[t] # l
                              /\ \A a \in Actors : call[a].lock # l

ObtainLock(a) ==
    LET id   == call[a].id
        lock == IF lockMap[id] = 0 THEN Fresh ELSE lockMap[id]
    IN  /\ call[a].at = "calling"
        /\ lockMap' = [lockMap EXCEPT ![id] = lock]
        /\ call' = [call EXCEPT ![a].at = "waiting", ![a].lock = lock]
        /\ UNCHANGED <<phase, isCancel, mThread, pool, infoMap, stopped, told, taskMap, history>>

(* Entering the monitor of that object.                                    *)
Inside(b) == call[b].at = "inside"

Enters(a, op) ==
    /\ call[a].at = "waiting"
    /\ call[a].op = op
    /\ \A b \in Actors \ {a} : Inside(b) => call[b].lock # call[a].lock
    /\ overlapped' = IF \E b \in Actors \ {a} : Inside(b) /\ call[b].id = call[a].id
                     THEN overlapped \cup {call[a].id} ELSE overlapped

(* unlock(), and out of the monitor.                                       *)
Leaves(a) == lockMap' = [lockMap EXCEPT ![call[a].id] = 0]

Calls(a, op, o, id) == call' = [call EXCEPT ![a] = [Out EXCEPT !.op = op, !.at = "calling",
                                                               !.of = o, !.id = id]]
Returns(a) == call' = [call EXCEPT ![a] = Out]

-------------------------------------------------------------------------------
(* start(), once for an object.                                            *)
Start(o) ==
    /\ phase[o] = "new"
    /\ phase' = [phase EXCEPT ![o] = "queued"]
    /\ isCancel' = [isCancel EXCEPT ![o] = FALSE]
    /\ UNCHANGED <<mThread, pool, call, manager, history>>

(* A thread of the pool takes the task.                                    *)
Take(t, o) ==
    /\ pool[t] = Idle
    /\ phase[o] = "queued"
    /\ pool' = [pool EXCEPT ![t] = [runs |-> o, at |-> "taken"]]
    /\ phase' = [phase EXCEPT ![o] = "running"]
    /\ UNCHANGED <<isCancel, mThread, call, manager, history>>

(* run(): nothing if the object has been cancelled, or else registerThread.*)
Run(t) ==
    LET o == pool[t].runs
    IN  /\ pool[t].at = "taken"
        /\ IF isCancel[o]
           THEN /\ pool' = [pool EXCEPT ![t] = Idle]
                /\ phase' = [phase EXCEPT ![o] = "ended"]
                /\ UNCHANGED call
           ELSE /\ pool' = [pool EXCEPT ![t].at = "registering"]
                /\ Calls(t, "register", o, t)
                /\ UNCHANGED phase
        /\ UNCHANGED <<isCancel, mThread, manager, history>>

RegisterThread(t) ==
    /\ Enters(t, "register")
    /\ infoMap' = [infoMap EXCEPT ![t] = IF @ = NoTask THEN call[t].of ELSE @]
    /\ Leaves(t)
    /\ Returns(t)
    /\ UNCHANGED <<phase, isCancel, mThread, pool, stopped, told, taskMap,
                   onCancels, requested, cancelled, lost>>

(* Mutation of Begin: the task does not wait for the registration. *)
BeginUnregistered(t) ==
    /\ pool[t].at = "registering"
    /\ mThread' = [mThread EXCEPT ![pool[t].runs] = t]
    /\ pool' = [pool EXCEPT ![t].at = "task"]
    /\ UNCHANGED <<phase, isCancel, call, manager, history>>

(* mThreadInfo is assigned, and the task begins.                           *)
Begin(t) ==
    /\ pool[t].at = "registering"
    /\ call[t] = Out
    /\ mThread' = [mThread EXCEPT ![pool[t].runs] = t]
    /\ pool' = [pool EXCEPT ![t].at = "task"]
    /\ UNCHANGED <<phase, isCancel, call, manager, history>>

InTask(t, o) == pool[t].at = "task" /\ pool[t].runs = o /\ call[t] = Out

(* A task of Requests calls registerHttpTask with its next HTTP task.      *)
CallHttp(t) ==
    LET o == pool[t].runs
    IN  /\ o \in Requests
        /\ InTask(t, o)
        /\ requested[o] < MaxRequests
        /\ requested' = [requested EXCEPT ![o] = @ + 1]
        /\ Calls(t, "http", o, t)
        /\ UNCHANGED <<phase, isCancel, mThread, pool, manager, onCancels, cancelled, lost, overlapped>>

(* Mutation of MayRegister: STATE_STOP is not looked at. *)
MayRegisterAnyway(t) == infoMap[t] # NoTask

(* registerHttpTask: RESULT_STOP or RESULT_NONSUPPORT, ...                 *)
MayRegister(t) == infoMap[t] # NoTask /\ infoMap[t] \notin stopped

LookHttp(t) ==
    /\ Enters(t, "http")
    /\ IF MayRegister(t) THEN /\ call' = [call EXCEPT ![t].at = "inside"]
                              /\ UNCHANGED lockMap
                         ELSE Leaves(t) /\ Returns(t)
    /\ UNCHANGED <<phase, isCancel, mThread, pool, infoMap, stopped, told, taskMap,
                   onCancels, requested, cancelled, lost>>

(* ... or RESULT_SUCCEED.                                                  *)
PutHttp(t) ==
    /\ Inside(t)
    /\ taskMap' = [taskMap EXCEPT ![t] = requested[call[t].of]]
    /\ Leaves(t)
    /\ Returns(t)
    /\ UNCHANGED <<phase, isCancel, mThread, pool, infoMap, stopped, told, history>>

(* The task has ended: mThreadInfo is null, and unregisterThread.          *)
End(t) ==
    LET o == pool[t].runs
    IN  /\ InTask(t, o)
        /\ mThread' = [mThread EXCEPT ![o] = NoThread]
        /\ pool' = [pool EXCEPT ![t].at = "ending"]
        /\ Calls(t, "unregister", o, t)
        /\ UNCHANGED <<phase, isCancel, manager, history>>

UnregisterThread(t) ==
    LET o == pool[t].runs
    IN  /\ Enters(t, "unregister")
        /\ infoMap' = [infoMap EXCEPT ![t] = NoTask]
        /\ taskMap' = [taskMap EXCEPT ![t] = 0]
        /\ Leaves(t)
        /\ Returns(t)
        /\ isCancel' = [isCancel EXCEPT ![o] = TRUE]
        /\ pool' = [pool EXCEPT ![t] = Idle]
        /\ phase' = [phase EXCEPT ![o] = "ended"]
        /\ UNCHANGED <<mThread, stopped, told, onCancels, requested, cancelled, lost>>

-------------------------------------------------------------------------------
(* cancel(): the flag, ...                                                 *)
Cancel(c, o) ==
    /\ call[c] = Out
    /\ isCancel' = [isCancel EXCEPT ![o] = TRUE]
    /\ call' = [call EXCEPT ![c] = [Out EXCEPT !.op = "cancel", !.at = "asking", !.of = o]]
    /\ UNCHANGED <<phase, mThread, pool, manager, history>>

(* ... and cancelAsyncTask, if there is a ThreadInfo.  mThreadInfo is read *)
(* twice, for the check and for the call, and once set it only becomes     *)
(* null; the call with null returns.  So this is the step of the first     *)
(* read if it finds null, and that of the second otherwise.                *)
AskThread(c) ==
    LET o == call[c].of
    IN  /\ call[c].at = "asking"
        /\ IF mThread[o] = NoThread
           THEN /\ Returns(c)
                /\ cancelled' = cancelled \cup {o}
                /\ lost' = IF phase[o] \in {"new", "running"} \/ ~isCancel[o]
                           THEN lost \cup {o} ELSE lost
           ELSE Calls(c, "cancel", o, mThread[o]) /\ UNCHANGED <<cancelled, lost>>
        /\ UNCHANGED <<phase, isCancel, mThread, pool, manager, onCancels, requested, overlapped>>

(* The HTTP task to cancel, or 0; the hash code of the thread is not       *)
(* looked at.                                                              *)
TaskToTell(info, id) == IF info \in told THEN 0 ELSE taskMap[id]

LookCancel(c) ==
    LET id == call[c].id
    IN  /\ Enters(c, "cancel")
        /\ call' = [call EXCEPT ![c].at = "inside", ![c].info = infoMap[id],
                                ![c].k = IF infoMap[id] = NoTask THEN 0
                                         ELSE TaskToTell(infoMap[id], id)]
        /\ UNCHANGED <<phase, isCancel, mThread, pool, manager,
                       onCancels, requested, cancelled, lost>>

(* onCancel(), setCancel(true) and STATE_STOP.                             *)
DoCancel(c) ==
    LET me == call[c]
    IN  /\ Inside(c)
        /\ onCancels' = IF me.k = 0 THEN onCancels
                        ELSE [onCancels EXCEPT ![me.info][me.k] = IF @ < 2 THEN @ + 1 ELSE @]
        /\ told' = IF me.k = 0 THEN told ELSE told \cup {me.info}
        /\ stopped' = IF me.info = NoTask THEN stopped ELSE stopped \cup {me.info}
        /\ cancelled' = cancelled \cup {me.of}
        /\ Leaves(c)
        /\ Returns(c)
        /\ UNCHANGED <<phase, isCancel, mThread, pool, infoMap, taskMap, requested, lost, overlapped>>

-------------------------------------------------------------------------------
(* The steps of a pool thread but those of its task, and of a canceller.   *)
PoolStep(t) ==
    \/ \E o \in Terminables : Take(t, o)
    \/ Run(t) \/ ObtainLock(t) \/ RegisterThread(t) \/ Begin(t) \/ UnregisterThread(t)

RequestStep(t) == CallHttp(t) \/ LookHttp(t) \/ PutHttp(t) \/ (pool[t].runs \in Requests /\ End(t))

CancelStep(c) == AskThread(c) \/ ObtainLock(c) \/ LookCancel(c) \/ DoCancel(c)

-------------------------------------------------------------------------------
ThreadsTypeOK ==
    /\ phase \in [Terminables -> {"new", "queued", "running", "ended"}]
    /\ isCancel \in [Terminables -> BOOLEAN]
    /\ mThread \in [Terminables -> PoolThreads \cup {NoThread}]
    /\ pool \in [PoolThreads -> [runs : Terminables \cup {NoTask},
                     at : {"idle", "taken", "registering", "task", "ending"}]]
    /\ infoMap \in [PoolThreads -> Terminables \cup {NoTask}]
    /\ stopped \subseteq Terminables /\ told \subseteq stopped
    /\ taskMap \in [PoolThreads -> 0..MaxRequests]
    /\ lockMap \in [PoolThreads -> Locks \cup {0}]
    /\ call \in [Actors -> [op : {"none", "register", "http", "unregister", "cancel"},
                     at : {"out", "asking", "calling", "waiting", "inside"},
                     of : Terminables \cup {NoTask}, id : PoolThreads \cup {NoThread},
                     lock : Locks \cup {0}, info : Terminables \cup {NoTask}, k : 0..MaxRequests]]
    /\ onCancels \in [Terminables -> [1..MaxRequests -> 0..2]]
    /\ requested \in [Terminables -> 0..MaxRequests]
    /\ cancelled \subseteq Terminables /\ lost \subseteq Terminables
    /\ overlapped \subseteq PoolThreads
    /\ \A t \in PoolThreads : pool[t].at = "task" => infoMap[t] = pool[t].runs

(* A cancel that has returned is felt, and once: the HTTP task that the    *)
(* thread of the object has registered is told, by whichever of            *)
(* cancelAsyncTask and registerHttpTask comes later, and only once however *)
(* many threads cancel (AsyncTaskManage).  Excused are cancels that came   *)
(* before start(), which forgets them, or when run() had begun and         *)
(* mThreadInfo was not assigned yet, and ids of which two threads have     *)
(* been inside at once since unlock() dropped the object.                  *)
CancelIsFelt ==
    \A t \in PoolThreads :
        LET o == pool[t].runs
        IN  o \in cancelled \ lost /\ taskMap[t] # 0 /\ t \notin overlapped
            => onCancels[o][taskMap[t]] = 1
===============================================================================
