------------------------------ MODULE SambaLooper ------------------------------
(***************************************************************************)
(* The message looper in front of libsmbclient (package nativefacade).     *)
(* Any thread may call a client interface; the call takes a MessageValues  *)
(* from a shared pool, posts a Message to the one looper thread and waits  *)
(* on the monitor of the MessageValues until the looper has processed the  *)
(* message and notified it.  The values are then read, cleared and put     *)
(* back into the pool.                                                     *)
(*                                                                         *)
(* A step is what one thread does between two points where another thread  *)
(* can observe it: the monitor of each MessageValues, the message queue    *)
(* and the (synchronized) pool.                                            *)
(***************************************************************************)
EXTENDS RpcData, Naturals, Sequences, FiniteSets

CONSTANTS Values,           \* the MessageValues objects the heap may hold
          PoolSize,         \* the capacity of MessageValues.POOL (20 in the code)
          QueueBound,       \* bound: no call starts behind this many messages
          SpuriousBound     \* bound: how often wait() returns without a notify()

VARIABLES pc,       \* pc[c]: where thread c is in its call
          call,     \* call[c]: the call it is in, or NoCall
          held,     \* held[c]: the MessageValues it obtained, or NoValue
          reply,    \* reply[c]: what its latest call returned or threw, Null in a call
          cell,     \* cell[v]: the fields of MessageValues v
          pool,     \* the MessageValues in POOL
          monitor,  \* monitor[v]: the thread inside synchronized (v), or Nobody
          queue,    \* the looper's message queue
          current,  \* the message the looper has taken, or NoMessage
          stage,    \* what the looper is doing: "idle", "taken", "inside", "processed"
          spurious  \* history: how often a wait() has returned without a notify()

vars == <<pc, call, held, reply, cell, pool, monitor, queue, current, stage, spurious>>
looperVars == <<queue, current, stage>>

NoValue == "no value"
Nobody  == "nobody"
Looper  == "looper"

ASSUME LooperAssumption ==
    /\ PoolSize \in Nat
    /\ QueueBound \in Nat
    /\ SpuriousBound \in Nat
    /\ NoValue \notin Values
    /\ Nobody \notin Callers
    /\ Looper \notin Callers

Messages  == [values : Values, call : Calls]
NoMessage == [values |-> NoValue, call |-> NoCall]

(* The fields of a MessageValues: mObj, mInt and mLong are one slot (no    *)
(* operation uses two of them for different things at once), mException    *)
(* and mRuntimeException another.                                          *)
Cell  == [data : Data, exc : Data]
Clean == [data |-> Null, exc |-> Null]

PCs == {"idle", "obtained", "sent", "waiting", "woken", "returning"}

-------------------------------------------------------------------------------
Init ==
    /\ pc      = [c \in Callers |-> "idle"]
    /\ call    = [c \in Callers |-> NoCall]
    /\ held    = [c \in Callers |-> NoValue]
    /\ reply   = [c \in Callers |-> Null]
    /\ cell    = [v \in Values |-> Clean]
    /\ pool    = {}
    /\ monitor = [v \in Values |-> Nobody]
    /\ queue   = <<>>
    /\ current = NoMessage
    /\ stage   = "idle"
    /\ spurious = 0

(* The objects something still refers to; the others are free memory that  *)
(* "new MessageValues<>()" may reuse.                                      *)
Reachable ==
    pool \cup {held[c] : c \in Callers} \cup {queue[i].values : i \in DOMAIN queue}
         \cup {current.values}

(* MessageValues.obtain: an instance from the pool if it has one, else a   *)
(* new one, whose fields are null.                                         *)
Obtainable == IF pool # {} THEN pool ELSE Values \ Reachable
Obtained(v) == IF v \in pool THEN cell[v] ELSE Clean

(* Mutation of Acquire: the instance stays in the pool while it is used. *)
AcquireKeeps(v) == UNCHANGED pool

(* SimplePool.acquire takes the instance out of the pool. *)
Acquire(v) == pool' = pool \ {v}

(* A client method obtains the values and builds its Message; read, write  *)
(* and seek store their arguments in the values.                           *)
Obtain(c) ==
    /\ pc[c] = "idle"
    /\ Len(queue) < QueueBound
    /\ \E op \in Ops, r \in Requests, v \in Obtainable :
          LET cl == [by |-> c, op |-> op, req |-> r] IN
          /\ call' = [call EXCEPT ![c] = cl]
          /\ held' = [held EXCEPT ![c] = v]
          /\ Acquire(v)
          /\ cell' = [cell EXCEPT ![v] =
                        IF op = "file" THEN [Obtained(v) EXCEPT !.data = Datum("arg", cl)]
                                       ELSE Obtained(v)]
    /\ reply' = [reply EXCEPT ![c] = Null]
    /\ pc' = [pc EXCEPT ![c] = "obtained"]
    /\ UNCHANGED <<monitor, queue, current, stage, spurious>>

(* Mutation of Send: the message is posted before the monitor is entered.  *)
SendOutside(c) ==
    /\ pc[c] = "obtained"
    /\ queue' = Append(queue, [values |-> held[c], call |-> call[c]])
    /\ pc' = [pc EXCEPT ![c] = "sent"]
    /\ UNCHANGED <<call, held, reply, cell, pool, monitor, current, stage, spurious>>

(* BaseClient.enqueue, up to wait(): the message is posted while the       *)
(* caller is inside the monitor.                                           *)
Send(c) ==
    /\ pc[c] = "obtained"
    /\ monitor[held[c]] = Nobody
    /\ monitor' = [monitor EXCEPT ![held[c]] = c]
    /\ queue' = Append(queue, [values |-> held[c], call |-> call[c]])
    /\ pc' = [pc EXCEPT ![c] = "sent"]
    /\ UNCHANGED <<call, held, reply, cell, pool, current, stage, spurious>>

(* msg.obj.wait() gives the monitor up. *)
Wait(c) ==
    /\ pc[c] = "sent"
    /\ monitor' = [monitor EXCEPT ![held[c]] = Nobody]
    /\ pc' = [pc EXCEPT ![c] = "waiting"]
    /\ UNCHANGED <<call, held, reply, cell, pool, queue, current, stage, spurious>>

(* wait() may return although nobody called notify() (JLS 17.2.1); enqueue *)
(* has no loop around it.                                                  *)
WakeSpuriously(c) ==
    /\ pc[c] = "waiting"
    /\ spurious < SpuriousBound
    /\ spurious' = spurious + 1
    /\ pc' = [pc EXCEPT ![c] = "woken"]
    /\ UNCHANGED <<call, held, reply, cell, pool, monitor, queue, current, stage>>

(* checkException, then the getter: an exception is thrown before any      *)
(* result is looked at.                                                    *)
Outcome(v) == IF cell[v].exc # Null THEN cell[v].exc ELSE cell[v].data

(* The awakened caller re-enters the monitor and leaves enqueue. *)
Leave(c) ==
    /\ pc[c] = "woken"
    /\ monitor[held[c]] = Nobody
    /\ pc' = [pc EXCEPT ![c] = "returning"]
    /\ UNCHANGED <<call, held, reply, cell, pool, monitor, queue, current, stage, spurious>>

(* Mutation of Close: the fields keep what the last call left in them. *)
CloseKeepsFields(v) == UNCHANGED cell

(* MessageValues.close clears the fields before it releases the object. *)
Close(v) == cell' = [cell EXCEPT ![v] = Clean]

(* It reads the outcome, and the try-with-resources closes the values,     *)
(* which go back to the pool unless that is full.                          *)
Return(c) ==
    /\ pc[c] = "returning"
    /\ reply' = [reply EXCEPT ![c] = Seen(call[c].op, Outcome(held[c]))]
    /\ Close(held[c])
    /\ pool'  = IF Cardinality(pool) < PoolSize THEN pool \cup {held[c]} ELSE pool
    /\ held'  = [held EXCEPT ![c] = NoValue]
    /\ call'  = [call EXCEPT ![c] = NoCall]
    /\ pc'    = [pc EXCEPT ![c] = "idle"]
    /\ UNCHANGED <<monitor, queue, current, stage, spurious>>

-------------------------------------------------------------------------------
(* Mutation of Take: the latest message first. *)
TakeLatest ==
    /\ stage = "idle"
    /\ queue # <<>>
    /\ current' = queue[Len(queue)]
    /\ queue' = SubSeq(queue, 1, Len(queue) - 1)
    /\ stage' = "taken"
    /\ UNCHANGED <<pc, call, held, reply, cell, pool, monitor, spurious>>

(* Looper.loop takes the next message and dispatches it to handleMessage. *)
Take ==
    /\ stage = "idle"
    /\ queue # <<>>
    /\ current' = Head(queue)
    /\ queue' = Tail(queue)
    /\ stage' = "taken"
    /\ UNCHANGED <<pc, call, held, reply, cell, pool, monitor, spurious>>

(* Mutation of Enter: notify() outside the monitor of the message, while   *)
(* the operation is still running.                                         *)
EnterNotifies ==
    /\ stage = "taken"
    /\ monitor[current.values] = Nobody
    /\ pc' = [c \in Callers |-> IF pc[c] = "waiting" /\ held[c] = current.values
                               THEN "woken" ELSE pc[c]]
    /\ stage' = "inside"
    /\ UNCHANGED <<call, held, reply, cell, pool, monitor, queue, current, spurious>>

(* handleMessage enters synchronized (msg.obj). *)
Enter ==
    /\ stage = "taken"
    /\ monitor[current.values] = Nobody
    /\ monitor' = [monitor EXCEPT ![current.values] = Looper]
    /\ stage' = "inside"
    /\ UNCHANGED <<pc, call, held, reply, cell, pool, queue, current, spurious>>

(* processMessage.  The getters that fetch the arguments of a "file"       *)
(* operation check for an exception first: one left over from an earlier   *)
(* use of the values would end the operation before it starts.  Otherwise  *)
(* the native operation runs on the arguments and its result or exception  *)
(* is stored.                                                              *)
Argument == IF current.call.op = "file" THEN cell[current.values].data.of ELSE current.call

Process ==
    /\ stage = "inside"
    /\ IF current.call.op = "file" /\ cell[current.values].exc # Null
       THEN UNCHANGED cell
       ELSE \E end \in Endings(current.call.op) :
               cell' = IF end = "ok"
                       THEN [cell EXCEPT ![current.values].data = Datum("ok", Argument)]
                       ELSE [cell EXCEPT ![current.values].exc = Datum(end, Argument)]
    /\ stage' = "processed"
    /\ UNCHANGED <<pc, call, held, reply, pool, monitor, queue, current, spurious>>

Waiters(v) == {c \in Callers : pc[c] = "waiting" /\ held[c] = v}

(* Mutation of Notify: the message is not let go. *)
NotifyKeepsCurrent ==
    /\ stage = "processed"
    /\ \/ \E c \in Waiters(current.values) : pc' = [pc EXCEPT ![c] = "woken"]
       \/ Waiters(current.values) = {} /\ UNCHANGED pc
    /\ monitor' = [monitor EXCEPT ![current.values] = Nobody]
    /\ stage' = "idle"
    /\ UNCHANGED <<call, held, reply, cell, pool, queue, current, spurious>>

(* msg.obj.notify() wakes one waiter, and the looper leaves the monitor. *)
Notify ==
    /\ stage = "processed"
    /\ \/ \E c \in Waiters(current.values) : pc' = [pc EXCEPT ![c] = "woken"]
       \/ Waiters(current.values) = {} /\ UNCHANGED pc
    /\ monitor' = [monitor EXCEPT ![current.values] = Nobody]
    /\ current' = NoMessage
    /\ stage' = "idle"
    /\ UNCHANGED <<call, held, reply, cell, pool, queue, spurious>>

-------------------------------------------------------------------------------
CallerStep(c) == Send(c) \/ Wait(c) \/ Leave(c) \/ Return(c)
LooperStep    == Take \/ Enter \/ Process \/ Notify

Next ==
    \/ \E c \in Callers : Obtain(c) \/ CallerStep(c) \/ WakeSpuriously(c)
    \/ LooperStep

Spec == Init /\ [][Next]_vars

(* Threads run: the looper thread never ends, and a caller inside a call   *)
(* goes on with it.  Whether a thread calls again is its own business.     *)
Fairness == WF_vars(LooperStep) /\ \A c \in Callers : WF_vars(CallerStep(c))

FairSpec == Spec /\ Fairness

-------------------------------------------------------------------------------
TypeOK ==
    /\ pc \in [Callers -> PCs]
    /\ call \in [Callers -> Calls \cup {NoCall}]
    /\ held \in [Callers -> Values \cup {NoValue}]
    /\ reply \in [Callers -> Data]
    /\ cell \in [Values -> Cell]
    /\ pool \in SUBSET Values
    /\ monitor \in [Values -> Callers \cup {Looper, Nobody}]
    /\ queue \in Seq(Messages)
    /\ current \in Messages \cup {NoMessage}
    /\ stage \in {"idle", "taken", "inside", "processed"}
    /\ stage = "idle" <=> current = NoMessage
    /\ spurious \in 0 .. SpuriousBound

(* A MessageValues serves one call at a time: no two callers hold the same *)
(* object, and none that a caller holds is in the pool (MessageValues.java *)
(* obtain and close).  This does not depend on how wait() behaves.         *)
ExclusiveUse ==
    \A c \in Callers : held[c] # NoValue =>
        /\ held[c] \notin pool
        /\ \A d \in Callers \ {c} : held[d] # held[c]

(* A caller that leaves wait() finds in its values the outcome of the call *)
(* it made, complete and nobody else's (BaseClient.java enqueue and        *)
(* handleMessage).                                                         *)
WokenMeansDone ==
    \A c \in Callers : pc[c] \in {"woken", "returning"} =>
        \E end \in Endings(call[c].op) : Outcome(held[c]) = Datum(end, call[c])

(* What lies in the pool carries nothing over to the next call: in         *)
(* particular no exception, which would end a read or a seek before it     *)
(* starts (MessageValues.java close).                                      *)
PoolIsClean == \A v \in pool : cell[v] = Clean

(* The messages the looper has yet to process, or is processing. *)
Pending == {queue[i] : i \in DOMAIN queue} \cup ({current} \ {NoMessage})

(* The looper never touches values whose caller is gone: the message it    *)
(* works on, and every message it has yet to take, belongs to a call that  *)
(* is still waiting for it.                                                *)
MessagesHaveCallers ==
    \A m \in Pending :
        /\ m.call.by \in Callers
        /\ pc[m.call.by] \in {"sent", "waiting"}
        /\ call[m.call.by] = m.call
        /\ held[m.call.by] = m.values

(* No wakeup is lost and no two threads wait for each other: for a caller  *)
(* in wait() there is a message that will wake it, and while a call is     *)
(* under way the looper or some caller can go on (BaseClient.java enqueue  *)
(* and handleMessage).  This does not depend on how wait() behaves either. *)
CallerCanGoOn(c) ==
    \/ pc[c] \in {"sent", "returning"}
    \/ pc[c] \in {"obtained", "woken"} /\ monitor[held[c]] = Nobody

LooperCanGoOn ==
    \/ stage = "idle" /\ queue # <<>>
    \/ stage = "taken" /\ monitor[current.values] = Nobody
    \/ stage \in {"inside", "processed"}

WaitersHaveMessages ==
    \A c \in Callers :
        pc[c] \in {"sent", "waiting"} => \E m \in Pending : m.values = held[c]

NobodyStuck ==
    (\E c \in Callers : pc[c] # "idle") =>
        LooperCanGoOn \/ \E c \in Callers : CallerCanGoOn(c)

NobodyForgotten == WaitersHaveMessages /\ NobodyStuck

(* What makes it inductive: the state says who is inside a monitor. *)
MonitorsHeld ==
    \A v \in Values :
        /\ monitor[v] = Looper <=> stage \in {"inside", "processed"} /\ current.values = v
        /\ \A c \in Callers : monitor[v] = c <=> pc[c] = "sent" /\ held[c] = v

(* What makes the invariants above inductive while wait() returns only     *)
(* when notified: a message is posted once per call and its values hold    *)
(* nothing but the arguments until the looper has processed it; the looper *)
(* works on a message only once its caller has given the monitor up.       *)
FreshArguments(cl) == IF cl.op = "file" THEN [Clean EXCEPT !.data = Datum("arg", cl)] ELSE Clean

OneMessageEach ==
    \A i \in DOMAIN queue :
        /\ queue[i].values # current.values
        /\ \A j \in DOMAIN queue : queue[i].values = queue[j].values => i = j

UntouchedUntilProcessed ==
    \A c \in Callers :
        pc[c] \in {"obtained", "sent", "waiting"}
          /\ ~(stage = "processed" /\ current.values = held[c])
        => cell[held[c]] = FreshArguments(call[c])

ProcessedMeansDone ==
    stage = "processed" =>
        \E end \in Endings(current.call.op) : Outcome(current.values) = Datum(end, current.call)

SentInsideMonitor ==
    /\ \A c \in Callers : pc[c] = "sent" => monitor[held[c]] = c
    /\ stage \in {"inside", "processed"} => pc[current.call.by] = "waiting"

CallInv ==
    /\ \A c \in Callers : call[c] # NoCall => call[c].by = c
    /\ PoolIsClean
    /\ MessagesHaveCallers
    /\ OneMessageEach
    /\ UntouchedUntilProcessed
    /\ ProcessedMeansDone
    /\ SentInsideMonitor
    /\ WokenMeansDone

(* Until a wait() has returned early, the looper, its queue, the monitors, *)
(* the pool and the callers agree on every call under way; an early return *)
(* breaks this, since enqueue does not wait again (BaseClient.java:37).    *)
CallsConsistent == spurious = 0 => CallInv

(* A method of a client returns, or throws, what the execution of that     *)
(* very call produced; reset and the credential operations return nothing. *)
(* It, too, holds until a wait() has returned early.                       *)
AnswersItsCall ==
    [][\A c \in Callers : spurious' = 0 /\ call[c] # NoCall /\ call'[c] = NoCall =>
          \E end \in Endings(call[c].op) : reply'[c] = Seen(call[c].op, Datum(end, call[c]))]_vars

(* Every call comes back: the message is taken in its turn and the notify  *)
(* cannot precede the wait, because the caller posts inside the monitor.   *)
EveryCallReturns == \A c \in Callers : call[c] # NoCall ~> call[c] = NoCall

(* The machinery implements the atomic call of SambaRpc: a call is         *)
(* executed at the looper's Process step.  It does so until a wait() has   *)
(* returned early; from then on no step is constrained.                    *)
Executed(c) ==
    \/ pc[c] \in {"woken", "returning"}
    \/ pc[c] = "waiting" /\ stage = "processed" /\ current.values = held[c]

Rpc == INSTANCE SambaRpc WITH
           outcome <- [c \in Callers |-> IF Executed(c) THEN Outcome(held[c]) ELSE Null]

ImplementsRpc == Rpc!RpcInit /\ [][spurious' = 0 => Rpc!RpcNext]_(Rpc!rpcVars)
===============================================================================
