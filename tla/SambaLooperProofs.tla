--------------------------- MODULE SambaLooperProofs ---------------------------
(***************************************************************************)
(* Proofs about SambaLooper, for any number of callers, any capacity of    *)
(* the pool and any length of the queue.                                   *)
(***************************************************************************)
EXTENDS SambaLooper, TLAPS

(* Whatever an outcome is, it is a datum. *)
LEMMA OutcomeIsDatum ==
    ASSUME TypeOK, NEW v \in Values
    PROVE  Outcome(v) \in Data
BY DEF TypeOK, Outcome, Cell

LEMMA NullsAreData == Null \in Data /\ Void \in Data /\ Clean \in Cell
BY DEF Null, Void, Data, Datum, Clean, Cell

(* An outcome or an argument of a call is a datum. *)
LEMMA DatumType ==
    ASSUME NEW cl \in Calls \cup {NoCall}, NEW tag \in {"null", "arg", "ok", "io", "rt", "void"}
    PROVE  Datum(tag, cl) \in Data
BY DEF Data, Datum

LEMMA EndingTags ==
    ASSUME NEW op
    PROVE  Endings(op) \subseteq {"ok", "io", "rt"}
BY DEF Endings

(* The typing part of the invariant together with who holds which values;  *)
(* a caller holds values exactly while it is inside a call.                *)
HoldInv ==
    /\ TypeOK
    /\ ExclusiveUse
    /\ \A c \in Callers : /\ pc[c] = "idle" <=> held[c] = NoValue
                          /\ pc[c] = "idle" <=> call[c] = NoCall

(* A caller inside a call holds values, and knows the call. *)
LEMMA BusyCaller ==
    ASSUME HoldInv, NEW c \in Callers, pc[c] # "idle"
    PROVE  held[c] \in Values /\ call[c] \in Calls
<1>1. held \in [Callers -> Values \cup {NoValue}] /\ call \in [Callers -> Calls \cup {NoCall}]
  BY DEF HoldInv, TypeOK
<1>2. held[c] # NoValue /\ call[c] # NoCall
  BY DEF HoldInv
<1> QED BY <1>1, <1>2

LEMMA ObtainTypes ==
    ASSUME HoldInv, NEW c \in Callers, Obtain(c)
    PROVE  HoldInv'
<1>1. PICK op \in Ops, r \in Requests, v \in Obtainable :
        LET cl == [by |-> c, op |-> op, req |-> r] IN
          /\ call' = [call EXCEPT ![c] = cl]
          /\ held' = [held EXCEPT ![c] = v]
          /\ pool' = pool \ {v}
          /\ cell' = [cell EXCEPT ![v] =
                        IF op = "file" THEN [Obtained(v) EXCEPT !.data = Datum("arg", cl)]
                                       ELSE Obtained(v)]
  BY DEF Obtain, Acquire
<1> DEFINE cl == [by |-> c, op |-> op, req |-> r]
<1>2. cl \in Calls /\ cl # NoCall
  BY OpsAssumption DEF Calls, NoCall
<1>3. v \in Values /\ \A d \in Callers : held[d] # v
  BY LooperAssumption DEF Obtainable, Reachable, HoldInv, TypeOK, ExclusiveUse
<1>4. Obtained(v) \in Cell
  BY <1>3, NullsAreData DEF Obtained, HoldInv, TypeOK
<1>5. Datum("arg", cl) \in Data
  BY <1>2, DatumType
<1>6. [Obtained(v) EXCEPT !.data = Datum("arg", cl)] \in Cell
  BY <1>4, <1>5 DEF Cell
<1>7. cell' \in [Values -> Cell]
  BY <1>1, <1>3, <1>4, <1>6 DEF HoldInv, TypeOK
<1>8. TypeOK'
  BY <1>1, <1>2, <1>3, <1>7, NullsAreData DEF HoldInv, TypeOK, Obtain, PCs
<1>9. ExclusiveUse'
  BY <1>1, <1>3 DEF HoldInv, TypeOK, ExclusiveUse
<1>10. \A d \in Callers : /\ pc'[d] = "idle" <=> held'[d] = NoValue
                          /\ pc'[d] = "idle" <=> call'[d] = NoCall
  BY <1>1, <1>2, <1>3, LooperAssumption DEF HoldInv, TypeOK, Obtain
<1> QED BY <1>8, <1>9, <1>10 DEF HoldInv

LEMMA ReturnTypes ==
    ASSUME HoldInv, NEW c \in Callers, Return(c)
    PROVE  HoldInv'
<1>1. held[c] \in Values
  BY BusyCaller DEF Return
<1>2. Seen(call[c].op, Outcome(held[c])) \in Data
  BY <1>1, OutcomeIsDatum, NullsAreData DEF Seen, HoldInv
<1>3. TypeOK'
  BY <1>1, <1>2, NullsAreData DEF HoldInv, TypeOK, Return, Close, PCs
<1>4. ExclusiveUse'
  BY <1>1 DEF HoldInv, TypeOK, ExclusiveUse, Return
<1>5. \A d \in Callers : /\ pc'[d] = "idle" <=> held'[d] = NoValue
                         /\ pc'[d] = "idle" <=> call'[d] = NoCall
  BY DEF HoldInv, TypeOK, Return
<1> QED BY <1>3, <1>4, <1>5 DEF HoldInv

LEMMA ProcessTypes ==
    ASSUME HoldInv, Process
    PROVE  HoldInv'
<1>1. current \in Messages /\ current.values \in Values /\ current.call \in Calls
  BY DEF HoldInv, TypeOK, Process, Messages
<1>2. Argument \in Calls \cup {NoCall}
  BY <1>1 DEF Argument, HoldInv, TypeOK, Cell, Data
<1>3. cell' \in [Values -> Cell]
  <2>1. CASE UNCHANGED cell
    BY <2>1 DEF HoldInv, TypeOK
  <2>2. ASSUME NEW end \in Endings(current.call.op),
               cell' = IF end = "ok"
                       THEN [cell EXCEPT ![current.values].data = Datum("ok", Argument)]
                       ELSE [cell EXCEPT ![current.values].exc = Datum(end, Argument)]
        PROVE  cell' \in [Values -> Cell]
    <3>1. Datum("ok", Argument) \in Data /\ Datum(end, Argument) \in Data
      BY <1>2, EndingTags, DatumType
    <3> QED BY <1>1, <2>2, <3>1 DEF HoldInv, TypeOK, Cell
  <2> QED BY <2>1, <2>2 DEF Process
<1> QED BY <1>1, <1>3, LooperAssumption
        DEF HoldInv, TypeOK, ExclusiveUse, Process, Messages, NoMessage

LEMMA SendTypes ==
    ASSUME HoldInv, NEW c \in Callers, Send(c)
    PROVE  HoldInv'
<1>1. held[c] \in Values /\ call[c] \in Calls
  BY BusyCaller DEF Send
<1>3. [values |-> held[c], call |-> call[c]] \in Messages
  BY <1>1 DEF Messages
<1> QED BY <1>1, <1>3 DEF HoldInv, TypeOK, ExclusiveUse, Send, PCs

LEMMA TakeTypes ==
    ASSUME HoldInv, Take
    PROVE  HoldInv'
<1>1. Head(queue) \in Messages /\ Tail(queue) \in Seq(Messages)
  BY DEF HoldInv, TypeOK, Take
<1>2. Head(queue) # NoMessage
  BY <1>1, LooperAssumption DEF Messages, NoMessage
<1> QED BY <1>1, <1>2 DEF HoldInv, TypeOK, ExclusiveUse, Take

LEMMA NotifyTypes ==
    ASSUME HoldInv, Notify
    PROVE  HoldInv'
<1>1. current.values \in Values
  BY DEF HoldInv, TypeOK, Notify, Messages
<1>2. /\ pc' \in [Callers -> PCs]
      /\ \A d \in Callers : pc'[d] = "idle" <=> pc[d] = "idle"
  BY DEF HoldInv, TypeOK, Notify, Waiters, PCs
<1> QED BY <1>1, <1>2 DEF HoldInv, TypeOK, ExclusiveUse, Notify, NoMessage

(* The callers and the looper keep the invariant whatever wait() does. *)
LEMMA HoldInductive == HoldInv /\ [Next]_vars => HoldInv'
<1> SUFFICES ASSUME HoldInv, [Next]_vars PROVE HoldInv'
  OBVIOUS
<1>1. ASSUME NEW c \in Callers, Obtain(c) PROVE HoldInv'
  BY <1>1, ObtainTypes
<1>2. ASSUME NEW c \in Callers, Send(c) PROVE HoldInv'
  BY <1>2, SendTypes
<1>3. ASSUME NEW c \in Callers, Wait(c) PROVE HoldInv'
  BY <1>3, BusyCaller DEF HoldInv, TypeOK, ExclusiveUse, Wait, PCs
<1>4. ASSUME NEW c \in Callers, Leave(c) PROVE HoldInv'
  BY <1>4 DEF HoldInv, TypeOK, ExclusiveUse, Leave, PCs
<1>5. ASSUME NEW c \in Callers, Return(c) PROVE HoldInv'
  BY <1>5, ReturnTypes
<1>6. ASSUME NEW c \in Callers, WakeSpuriously(c) PROVE HoldInv'
  <2>1. spurious' \in 0 .. SpuriousBound
    BY <1>6, LooperAssumption DEF HoldInv, TypeOK, WakeSpuriously
  <2> QED BY <1>6, <2>1 DEF HoldInv, TypeOK, ExclusiveUse, WakeSpuriously, PCs
<1>7. CASE Take
  BY <1>7, TakeTypes
<1>8. CASE Enter
  BY <1>8, LooperAssumption DEF HoldInv, TypeOK, ExclusiveUse, Enter, Messages
<1>9. CASE Process
  BY <1>9, ProcessTypes
<1>10. CASE Notify
  BY <1>10, NotifyTypes
<1>11. CASE UNCHANGED vars
  BY <1>11 DEF HoldInv, TypeOK, ExclusiveUse, vars
<1> QED BY <1>1, <1>2, <1>3, <1>4, <1>5, <1>6, <1>7, <1>8, <1>9, <1>10, <1>11
        DEF Next, CallerStep, LooperStep

LEMMA HoldInitially == Init => HoldInv
<1> SUFFICES ASSUME Init PROVE HoldInv
  OBVIOUS
<1>1. queue \in Seq(Messages) /\ monitor \in [Values -> Callers \cup {Looper, Nobody}]
  BY DEF Init
<1>2. TypeOK
  BY <1>1, NullsAreData, LooperAssumption DEF Init, TypeOK, PCs
<1> QED BY <1>2 DEF Init, HoldInv, ExclusiveUse

(* The variables keep their types, however often wait() returns early.     *)
THEOREM TypeCorrect == Spec => []TypeOK
<1>1. HoldInv => TypeOK
  BY DEF HoldInv
<1> QED BY <1>1, HoldInitially, HoldInductive, PTL DEF Spec

(* No two callers ever share a MessageValues and none that is in use lies  *)
(* in the pool, for any number of callers and even with spurious wakeups.  *)
THEOREM ValuesExclusive == Spec => []ExclusiveUse
<1>1. HoldInv => ExclusiveUse
  BY DEF HoldInv
<1> QED BY <1>1, HoldInitially, HoldInductive, PTL DEF Spec
-------------------------------------------------------------------------------
(* Still with or without spurious wakeups: no wakeup is lost.              *)
ServeInv == HoldInv /\ MonitorsHeld /\ WaitersHaveMessages

LEMMA NoMessageIsNone == NoMessage \notin Messages
BY LooperAssumption DEF Messages, NoMessage

(* The callers' steps take no message away, so whoever waits keeps his.    *)
LEMMA CallerKeepsMessages ==
    ASSUME HoldInv, WaitersHaveMessages, NEW c \in Callers, pc'[c] \notin {"sent", "waiting"},
           UNCHANGED <<queue, current>>,
           \A d \in Callers \ {c} : pc'[d] = pc[d] /\ held'[d] = held[d]
    PROVE  WaitersHaveMessages'
BY DEF WaitersHaveMessages, Pending

LEMMA ObtainServes ==
    ASSUME ServeInv, NEW c \in Callers, Obtain(c)
    PROVE  MonitorsHeld' /\ WaitersHaveMessages'
<1>1. PICK v \in Obtainable : held' = [held EXCEPT ![c] = v]
  BY DEF Obtain
<1>2. /\ pc[c] = "idle" /\ pc' = [pc EXCEPT ![c] = "obtained"]
      /\ UNCHANGED <<monitor, queue, current, stage>>
  BY DEF Obtain
<1>3. pc \in [Callers -> PCs] /\ held \in [Callers -> Values \cup {NoValue}]
  BY DEF ServeInv, HoldInv, TypeOK
<1>4. MonitorsHeld'
  BY <1>1, <1>2, <1>3 DEF ServeInv, MonitorsHeld
<1>5. WaitersHaveMessages'
  BY <1>1, <1>2, <1>3, CallerKeepsMessages DEF ServeInv
<1> QED BY <1>4, <1>5

LEMMA SendServes ==
    ASSUME ServeInv, NEW c \in Callers, Send(c)
    PROVE  MonitorsHeld' /\ WaitersHaveMessages'
<1> DEFINE sent == [values |-> held[c], call |-> call[c]]
<1>1. /\ pc[c] = "obtained" /\ monitor[held[c]] = Nobody
      /\ monitor' = [monitor EXCEPT ![held[c]] = c]
      /\ queue' = Append(queue, sent)
      /\ pc' = [pc EXCEPT ![c] = "sent"]
      /\ UNCHANGED <<held, current, stage>>
  BY DEF Send
<1>2. /\ pc \in [Callers -> PCs] /\ monitor \in [Values -> Callers \cup {Looper, Nobody}]
      /\ queue \in Seq(Messages)
  BY DEF ServeInv, HoldInv, TypeOK
<1>3. held[c] \in Values /\ sent \in Messages
  BY <1>1, BusyCaller DEF ServeInv, Messages
<1>4. \A d \in Callers \ {c} : held[d] # held[c]
  BY <1>3, LooperAssumption DEF ServeInv, HoldInv, ExclusiveUse
<1>5. MonitorsHeld'
  BY <1>1, <1>2, <1>3, <1>4, LooperAssumption DEF ServeInv, MonitorsHeld, Looper, Nobody
<1>6. Pending' = Pending \cup {sent}
  <2>1. DOMAIN queue' = DOMAIN queue \cup {Len(queue) + 1}
    BY <1>1, <1>2, <1>3
  <2>2. /\ \A i \in DOMAIN queue : queue'[i] = queue[i]
        /\ queue'[Len(queue) + 1] = sent
    BY <1>1, <1>2, <1>3
  <2>3. sent # NoMessage
    BY <1>3, LooperAssumption DEF NoMessage
  <2> HIDE DEF sent
  <2> QED BY <1>1, <2>1, <2>2, <2>3 DEF Pending
<1>7. WaitersHaveMessages'
  BY <1>1, <1>2, <1>6 DEF ServeInv, WaitersHaveMessages
<1> QED BY <1>5, <1>7

LEMMA WaitServes ==
    ASSUME ServeInv, NEW c \in Callers, Wait(c)
    PROVE  MonitorsHeld' /\ WaitersHaveMessages'
<1>1. /\ pc[c] = "sent" /\ pc' = [pc EXCEPT ![c] = "waiting"]
      /\ monitor' = [monitor EXCEPT ![held[c]] = Nobody]
      /\ UNCHANGED <<held, queue, current, stage>>
  BY DEF Wait
<1>2. pc \in [Callers -> PCs] /\ monitor \in [Values -> Callers \cup {Looper, Nobody}]
  BY DEF ServeInv, HoldInv, TypeOK
<1>3. held[c] \in Values
  BY <1>1, BusyCaller DEF ServeInv
<1>4. \A d \in Callers \ {c} : held[d] # held[c]
  BY <1>3, LooperAssumption DEF ServeInv, HoldInv, ExclusiveUse
<1>5. monitor[held[c]] = c
  BY <1>1, <1>3 DEF ServeInv, MonitorsHeld
<1>6. MonitorsHeld'
  BY <1>1, <1>2, <1>3, <1>4, <1>5, LooperAssumption
     DEF ServeInv, MonitorsHeld, Looper, Nobody
<1>7. WaitersHaveMessages'
  BY <1>1, <1>2 DEF ServeInv, WaitersHaveMessages, Pending
<1> QED BY <1>6, <1>7

LEMMA WakeServes ==
    ASSUME ServeInv, NEW c \in Callers, WakeSpuriously(c) \/ Leave(c)
    PROVE  MonitorsHeld' /\ WaitersHaveMessages'
<1>1. PICK there \in {"woken", "returning"} :
        /\ pc[c] \in {"waiting", "woken"} /\ pc' = [pc EXCEPT ![c] = there]
        /\ UNCHANGED <<held, monitor, queue, current, stage>>
  BY DEF WakeSpuriously, Leave
<1>2. pc \in [Callers -> PCs]
  BY DEF ServeInv, HoldInv, TypeOK
<1>3. MonitorsHeld'
  BY <1>1, <1>2 DEF ServeInv, MonitorsHeld
<1>4. WaitersHaveMessages'
  BY <1>1, <1>2, CallerKeepsMessages DEF ServeInv
<1> QED BY <1>3, <1>4

LEMMA ReturnServes ==
    ASSUME ServeInv, NEW c \in Callers, Return(c)
    PROVE  MonitorsHeld' /\ WaitersHaveMessages'
<1>1. /\ pc[c] = "returning" /\ pc' = [pc EXCEPT ![c] = "idle"]
      /\ held' = [held EXCEPT ![c] = NoValue]
      /\ UNCHANGED <<monitor, queue, current, stage>>
  BY DEF Return
<1>2. pc \in [Callers -> PCs] /\ held \in [Callers -> Values \cup {NoValue}]
  BY DEF ServeInv, HoldInv, TypeOK
<1>3. MonitorsHeld'
  BY <1>1, <1>2 DEF ServeInv, MonitorsHeld
<1>4. WaitersHaveMessages'
  BY <1>1, <1>2, CallerKeepsMessages DEF ServeInv
<1> QED BY <1>3, <1>4

LEMMA TakeServes ==
    ASSUME ServeInv, Take
    PROVE  MonitorsHeld' /\ WaitersHaveMessages'
<1>1. /\ stage = "idle" /\ queue # <<>> /\ stage' = "taken"
      /\ current' = Head(queue) /\ queue' = Tail(queue)
      /\ UNCHANGED <<pc, held, monitor>>
  BY DEF Take
<1>2. queue \in Seq(Messages) /\ current = NoMessage
  BY <1>1 DEF ServeInv, HoldInv, TypeOK
<1>3. MonitorsHeld'
  BY <1>1 DEF ServeInv, MonitorsHeld
<1>4. Pending \subseteq Pending'
  <2> SUFFICES ASSUME NEW i \in DOMAIN queue PROVE queue[i] \in Pending'
    BY <1>2 DEF Pending
  <2>1. queue[i] \in Messages /\ queue[i] # NoMessage
    BY <1>2, NoMessageIsNone
  <2>2. CASE i = 1
    BY <1>1, <2>1, <2>2 DEF Pending
  <2>3. CASE i # 1
    <3>1. i - 1 \in DOMAIN queue' /\ queue'[i - 1] = queue[i]
      BY <1>1, <1>2, <2>3
    <3> QED BY <3>1 DEF Pending
  <2> QED BY <2>2, <2>3
<1>5. WaitersHaveMessages'
  BY <1>1, <1>4 DEF ServeInv, WaitersHaveMessages
<1> QED BY <1>3, <1>5

LEMMA EnterServes ==
    ASSUME ServeInv, Enter
    PROVE  MonitorsHeld' /\ WaitersHaveMessages'
<1>1. /\ stage = "taken" /\ stage' = "inside" /\ monitor[current.values] = Nobody
      /\ monitor' = [monitor EXCEPT ![current.values] = Looper]
      /\ UNCHANGED <<pc, held, queue, current>>
  BY DEF Enter
<1>2. monitor \in [Values -> Callers \cup {Looper, Nobody}] /\ current.values \in Values
  BY <1>1 DEF ServeInv, HoldInv, TypeOK, Messages
<1>3. MonitorsHeld'
  BY <1>1, <1>2, LooperAssumption DEF ServeInv, MonitorsHeld, Looper, Nobody
<1>4. WaitersHaveMessages'
  BY <1>1 DEF ServeInv, WaitersHaveMessages, Pending
<1> QED BY <1>3, <1>4

LEMMA ProcessServes ==
    ASSUME ServeInv, Process
    PROVE  MonitorsHeld' /\ WaitersHaveMessages'
<1>1. stage = "inside" /\ stage' = "processed" /\ UNCHANGED <<pc, held, monitor, queue, current>>
  BY DEF Process
<1> QED BY <1>1 DEF ServeInv, MonitorsHeld, WaitersHaveMessages, Pending

(* The message that goes was for the one caller that is notified: a caller *)
(* that has posted it and does not wait yet is still inside the monitor.   *)
LEMMA NotifyServes ==
    ASSUME ServeInv, Notify
    PROVE  MonitorsHeld' /\ WaitersHaveMessages'
<1> DEFINE v == current.values
<1>1. /\ stage = "processed" /\ stage' = "idle" /\ current' = NoMessage
      /\ monitor' = [monitor EXCEPT ![v] = Nobody]
      /\ UNCHANGED <<held, queue>>
  BY DEF Notify
<1>2. /\ pc \in [Callers -> PCs] /\ monitor \in [Values -> Callers \cup {Looper, Nobody}]
      /\ v \in Values
  BY <1>1 DEF ServeInv, HoldInv, TypeOK, Messages
<1>3. monitor[v] = Looper
  BY <1>1, <1>2 DEF ServeInv, MonitorsHeld
<1>4. \A d \in Callers : held[d] = v => pc[d] # "sent"
  BY <1>2, <1>3, LooperAssumption DEF ServeInv, MonitorsHeld
<1>5. \A d, e \in Callers : held[d] = v /\ held[e] = v => d = e
  BY <1>2, LooperAssumption DEF ServeInv, HoldInv, ExclusiveUse
<1>6. \A d \in Callers : pc'[d] = IF d \in Waiters(v) THEN "woken" ELSE pc[d]
  <2>1. CASE Waiters(v) = {}
    BY <1>2, <2>1 DEF Notify
  <2>2. ASSUME NEW e \in Waiters(v), pc' = [pc EXCEPT ![e] = "woken"]
        PROVE  \A d \in Callers : pc'[d] = IF d \in Waiters(v) THEN "woken" ELSE pc[d]
    BY <1>2, <1>5, <2>2 DEF Waiters
  <2> QED BY <2>1, <2>2 DEF Notify
<1>7. \A d \in Callers :
        /\ pc'[d] \in {"sent", "waiting"} <=> (pc[d] \in {"sent", "waiting"} /\ held[d] # v)
        /\ pc'[d] = "sent" <=> pc[d] = "sent"
  BY <1>4, <1>6 DEF Waiters
<1>8. MonitorsHeld'
  BY <1>1, <1>2, <1>3, <1>4, <1>7, LooperAssumption DEF ServeInv, MonitorsHeld, Looper, Nobody
<1>9. \A m \in Pending : m.values # v => m \in Pending'
  BY <1>1 DEF Pending
<1>10. WaitersHaveMessages'
  BY <1>1, <1>7, <1>9 DEF ServeInv, WaitersHaveMessages
<1> QED BY <1>8, <1>10

LEMMA ServeInductive == ServeInv /\ [Next]_vars => ServeInv'
<1> SUFFICES ASSUME ServeInv, [Next]_vars PROVE MonitorsHeld' /\ WaitersHaveMessages'
  BY HoldInductive DEF ServeInv
<1>1. CASE UNCHANGED vars
  BY <1>1 DEF ServeInv, vars, MonitorsHeld, WaitersHaveMessages, Pending
<1>2. ASSUME NEW c \in Callers, Obtain(c) \/ CallerStep(c) \/ WakeSpuriously(c)
      PROVE  MonitorsHeld' /\ WaitersHaveMessages'
  BY <1>2, ObtainServes, SendServes, WaitServes, WakeServes, ReturnServes DEF CallerStep
<1>3. CASE LooperStep
  BY <1>3, TakeServes, EnterServes, ProcessServes, NotifyServes DEF LooperStep
<1> QED BY <1>1, <1>2, <1>3 DEF Next

LEMMA ServeInitially == Init => ServeInv
<1> SUFFICES ASSUME Init PROVE MonitorsHeld /\ WaitersHaveMessages
  BY HoldInitially DEF ServeInv
<1> QED BY LooperAssumption DEF Init, MonitorsHeld, WaitersHaveMessages, Looper, Nobody

(* Whoever is inside a monitor can leave it.                               *)
LEMMA MonitorsAreLeft ==
    ASSUME ServeInv, NEW v \in Values, monitor[v] # Nobody
    PROVE  LooperCanGoOn \/ \E c \in Callers : CallerCanGoOn(c)
<1>1. monitor[v] \in Callers \cup {Looper}
  BY DEF ServeInv, HoldInv, TypeOK
<1>2. CASE monitor[v] = Looper
  BY <1>2 DEF ServeInv, MonitorsHeld, LooperCanGoOn
<1>3. CASE monitor[v] \in Callers
  BY <1>3 DEF ServeInv, MonitorsHeld, CallerCanGoOn
<1> QED BY <1>1, <1>2, <1>3

(* A caller in a call needs a monitor, which someone can leave, or waits   *)
(* for its message, which the looper has or can take.                      *)
LEMMA ServedGoOn == ServeInv => NobodyStuck
<1> SUFFICES ASSUME ServeInv, NEW c \in Callers, pc[c] # "idle"
             PROVE  LooperCanGoOn \/ \E d \in Callers : CallerCanGoOn(d)
  BY DEF NobodyStuck
<1>1. held[c] \in Values /\ pc[c] \in PCs
  BY BusyCaller DEF ServeInv, HoldInv, TypeOK
<1>2. CASE pc[c] \in {"sent", "returning"}
  BY <1>2 DEF CallerCanGoOn
<1>3. CASE pc[c] \in {"obtained", "woken"}
  BY <1>1, <1>3, MonitorsAreLeft DEF CallerCanGoOn
<1>4. CASE pc[c] = "waiting"
  <2>1. PICK m \in Pending : m.values = held[c]
    BY <1>4 DEF ServeInv, WaitersHaveMessages
  <2>2. stage \in {"idle", "taken", "inside", "processed"} /\ (stage = "idle" <=> current = NoMessage)
    BY DEF ServeInv, HoldInv, TypeOK
  <2>3. CASE stage = "idle"
    BY <2>1, <2>2, <2>3 DEF Pending, LooperCanGoOn
  <2>4. CASE stage = "taken"
    <3>1. current.values \in Values
      BY <2>4 DEF ServeInv, HoldInv, TypeOK, Messages
    <3> QED BY <2>4, <3>1, MonitorsAreLeft DEF LooperCanGoOn
  <2>5. CASE stage \in {"inside", "processed"}
    BY <2>5 DEF LooperCanGoOn
  <2> QED BY <2>2, <2>3, <2>4, <2>5
<1> QED BY <1>1, <1>2, <1>3, <1>4 DEF PCs

(* For every caller in wait() there is a message whose processing will     *)
(* notify it, and as long as a call is under way the looper or a caller    *)
(* can take a step: no wakeup is lost and there is no deadlock, for any    *)
(* number of callers and even with spurious wakeups.                       *)
THEOREM NoWakeupIsLost == Spec => []NobodyForgotten
<1>1. ServeInv => NobodyForgotten
  BY ServedGoOn DEF ServeInv, NobodyForgotten
<1> QED BY <1>1, ServeInitially, ServeInductive, PTL DEF Spec
-------------------------------------------------------------------------------
(* From here on: what holds until a wait() has returned without a notify.  *)
LoopInv == HoldInv /\ CallInv

(* A message on its way belongs to the one caller that holds its values.   *)
LEMMA PendingOwner ==
    ASSUME LoopInv, NEW m \in Pending, NEW c \in Callers, held[c] = m.values
    PROVE  m \in Messages /\ m.call.by = c /\ call[c] = m.call /\ pc[c] \in {"sent", "waiting"}
<1>1. m \in Messages
  BY DEF Pending, LoopInv, HoldInv, TypeOK
<1>2. /\ m.call.by \in Callers /\ held[m.call.by] = m.values /\ call[m.call.by] = m.call
      /\ pc[m.call.by] \in {"sent", "waiting"}
  BY DEF Pending, LoopInv, CallInv, MessagesHaveCallers
<1>3. held[c] # NoValue
  BY <1>1, LooperAssumption DEF Messages
<1>4. m.call.by = c
  BY <1>2, <1>3 DEF LoopInv, HoldInv, ExclusiveUse
<1> QED BY <1>1, <1>2, <1>4

(* While the looper is busy, its message is pending. *)
LEMMA CurrentPending ==
    ASSUME LoopInv, stage # "idle"
    PROVE  current \in Pending /\ current \in Messages /\ current.values \in Values
BY DEF LoopInv, HoldInv, TypeOK, Pending, Messages

LEMMA ObtainCalls ==
    ASSUME LoopInv, NEW c \in Callers, Obtain(c)
    PROVE  CallInv'
<1>1. PICK op \in Ops, r \in Requests, v \in Obtainable :
        LET cl == [by |-> c, op |-> op, req |-> r] IN
          /\ call' = [call EXCEPT ![c] = cl]
          /\ held' = [held EXCEPT ![c] = v]
          /\ pool' = pool \ {v}
          /\ cell' = [cell EXCEPT ![v] =
                        IF op = "file" THEN [Obtained(v) EXCEPT !.data = Datum("arg", cl)]
                                       ELSE Obtained(v)]
  BY DEF Obtain, Acquire
<1> DEFINE cl == [by |-> c, op |-> op, req |-> r]
<1>2. /\ pc[c] = "idle" /\ pc' = [pc EXCEPT ![c] = "obtained"]
      /\ UNCHANGED <<monitor, queue, current, stage>>
  BY DEF Obtain
<1>3. /\ v \in Values
      /\ \A d \in Callers : held[d] # v
      /\ \A m \in Pending : m.values # v
  <2>1. CASE pool = {}
    BY <2>1 DEF Obtainable, Reachable, Pending
  <2>2. CASE v \in pool
    <3>1. v \in Values /\ \A d \in Callers : held[d] # v
      BY <2>2, LooperAssumption DEF LoopInv, HoldInv, TypeOK, ExclusiveUse
    <3>2. \A m \in Pending : m.values # v
      BY <3>1 DEF LoopInv, CallInv, MessagesHaveCallers, Pending
    <3> QED BY <3>1, <3>2
  <2> QED BY <2>1, <2>2 DEF Obtainable
<1>4. Obtained(v) = Clean
  BY DEF Obtained, LoopInv, CallInv, PoolIsClean
<1>5. cell' = [cell EXCEPT ![v] = FreshArguments(cl)]
  BY <1>1, <1>4 DEF FreshArguments
<1>6. cell \in [Values -> Cell] /\ pc \in [Callers -> PCs] /\ held \in [Callers -> Values \cup {NoValue}]
      /\ call \in [Callers -> Calls \cup {NoCall}] /\ pool \subseteq Values
  BY DEF LoopInv, HoldInv, TypeOK
<1>7. stage = "processed" => current.values # v /\ current.values \in Values
  BY <1>3, CurrentPending
<1>8. \A d \in Callers : call'[d] # NoCall => call'[d].by = d
  BY <1>1, <1>6 DEF LoopInv, CallInv
<1>9. PoolIsClean'
  BY <1>1, <1>3, <1>5, <1>6 DEF LoopInv, CallInv, PoolIsClean
<1>10. MessagesHaveCallers'
  BY <1>1, <1>2, <1>3, <1>6 DEF LoopInv, CallInv, MessagesHaveCallers, Pending
<1>11. OneMessageEach'
  BY <1>2 DEF LoopInv, CallInv, OneMessageEach
<1>12. UntouchedUntilProcessed'
  BY <1>1, <1>2, <1>3, <1>5, <1>6 DEF LoopInv, CallInv, UntouchedUntilProcessed
<1>13. ProcessedMeansDone'
  BY <1>2, <1>5, <1>6, <1>7 DEF LoopInv, CallInv, ProcessedMeansDone, Outcome
<1>14. SentInsideMonitor'
  BY <1>1, <1>2, <1>6 DEF LoopInv, CallInv, SentInsideMonitor
<1>15. WokenMeansDone'
  BY <1>1, <1>2, <1>3, <1>5, <1>6 DEF LoopInv, CallInv, WokenMeansDone, Outcome
<1> QED BY <1>8, <1>9, <1>10, <1>11, <1>12, <1>13, <1>14, <1>15 DEF CallInv

LEMMA SendCalls ==
    ASSUME LoopInv, NEW c \in Callers, Send(c)
    PROVE  CallInv'
<1> DEFINE new == [values |-> held[c], call |-> call[c]]
<1>1. held[c] \in Values /\ call[c] \in Calls /\ call[c].by = c
  BY BusyCaller DEF Send, LoopInv, CallInv, HoldInv
<1>2. queue \in Seq(Messages) /\ new \in Messages /\ queue' = Append(queue, new)
  BY <1>1 DEF LoopInv, HoldInv, TypeOK, Send, Messages
<1>3. Pending' = Pending \cup {new}
  BY <1>2 DEF Pending, Send
<1>4. \A m \in Pending : m.values # held[c]
  BY PendingOwner DEF Send
<1>5. pc \in [Callers -> PCs] /\ monitor \in [Values -> Callers \cup {Looper, Nobody}]
  BY DEF LoopInv, HoldInv, TypeOK
<1>6. MessagesHaveCallers'
  BY <1>1, <1>3, <1>5 DEF LoopInv, CallInv, MessagesHaveCallers, Pending, Send
<1>7. OneMessageEach'
  <2>1. \A i \in DOMAIN queue : queue[i].values # held[c]
    BY <1>4 DEF Pending
  <2>2. current.values # held[c]
    BY <1>1, <1>4, LooperAssumption DEF Pending, NoMessage
  <2> QED BY <1>1, <1>2, <2>1, <2>2 DEF LoopInv, CallInv, OneMessageEach, Send
<1>8. UntouchedUntilProcessed' /\ PoolIsClean' /\ WokenMeansDone' /\ ProcessedMeansDone'
  BY <1>5 DEF LoopInv, CallInv, UntouchedUntilProcessed, PoolIsClean, WokenMeansDone,
              ProcessedMeansDone, Outcome, Send
<1>9. SentInsideMonitor'
  <2>1. \A d \in Callers : pc'[d] = "sent" => monitor'[held'[d]] = d
    BY <1>1, <1>5, BusyCaller, LooperAssumption
       DEF LoopInv, CallInv, SentInsideMonitor, HoldInv, ExclusiveUse, Send
  <2>2. stage' \in {"inside", "processed"} => pc'[current'.call.by] = "waiting"
    BY <1>5, CurrentPending DEF LoopInv, CallInv, SentInsideMonitor, Send, Pending, MessagesHaveCallers
  <2> QED BY <2>1, <2>2 DEF SentInsideMonitor
<1> QED BY <1>6, <1>7, <1>8, <1>9 DEF CallInv, LoopInv, Send

LEMMA WaitCalls ==
    ASSUME LoopInv, NEW c \in Callers, Wait(c)
    PROVE  CallInv'
<1>1. held[c] \in Values
  BY BusyCaller DEF Wait, LoopInv
<1>2. /\ pc \in [Callers -> PCs] /\ monitor \in [Values -> Callers \cup {Looper, Nobody}]
      /\ pc' = [pc EXCEPT ![c] = "waiting"] /\ monitor' = [monitor EXCEPT ![held[c]] = Nobody]
      /\ UNCHANGED <<call, held, reply, cell, pool, queue, current, stage>> /\ pc[c] = "sent"
  BY DEF LoopInv, HoldInv, TypeOK, Wait
<1>3. MessagesHaveCallers' /\ OneMessageEach' /\ PoolIsClean' /\ ProcessedMeansDone'
  BY <1>2 DEF LoopInv, CallInv, MessagesHaveCallers, Pending, OneMessageEach, PoolIsClean,
              ProcessedMeansDone, Outcome
<1>4. UntouchedUntilProcessed' /\ WokenMeansDone'
  BY <1>2 DEF LoopInv, CallInv, UntouchedUntilProcessed, WokenMeansDone, Outcome
<1>5. SentInsideMonitor'
  BY <1>1, <1>2, BusyCaller, LooperAssumption
     DEF LoopInv, CallInv, SentInsideMonitor, HoldInv, ExclusiveUse
<1> QED BY <1>2, <1>3, <1>4, <1>5 DEF CallInv, LoopInv

LEMMA LeaveCalls ==
    ASSUME LoopInv, NEW c \in Callers, Leave(c)
    PROVE  CallInv'
<1>1. /\ pc \in [Callers -> PCs] /\ pc' = [pc EXCEPT ![c] = "returning"] /\ pc[c] = "woken"
      /\ UNCHANGED <<call, held, reply, cell, pool, monitor, queue, current, stage>>
  BY DEF LoopInv, HoldInv, TypeOK, Leave
<1>2. MessagesHaveCallers' /\ OneMessageEach' /\ PoolIsClean' /\ ProcessedMeansDone'
  BY <1>1 DEF LoopInv, CallInv, MessagesHaveCallers, Pending, OneMessageEach, PoolIsClean,
              ProcessedMeansDone, Outcome
<1>3. UntouchedUntilProcessed' /\ WokenMeansDone' /\ SentInsideMonitor'
  BY <1>1 DEF LoopInv, CallInv, UntouchedUntilProcessed, WokenMeansDone, SentInsideMonitor, Outcome
<1> QED BY <1>1, <1>2, <1>3 DEF CallInv, LoopInv

LEMMA ReturnCalls ==
    ASSUME LoopInv, NEW c \in Callers, Return(c)
    PROVE  CallInv'
<1>1. held[c] \in Values
  BY BusyCaller DEF Return, LoopInv
<1>2. /\ pc \in [Callers -> PCs] /\ held \in [Callers -> Values \cup {NoValue}]
      /\ call \in [Callers -> Calls \cup {NoCall}] /\ cell \in [Values -> Cell]
      /\ pool \subseteq Values
  BY DEF LoopInv, HoldInv, TypeOK
<1>3. /\ pc' = [pc EXCEPT ![c] = "idle"] /\ held' = [held EXCEPT ![c] = NoValue]
      /\ call' = [call EXCEPT ![c] = NoCall] /\ cell' = [cell EXCEPT ![held[c]] = Clean]
      /\ pool' \subseteq pool \cup {held[c]}
      /\ UNCHANGED <<monitor, queue, current, stage>> /\ pc[c] = "returning"
  BY DEF Return, Close
<1>4. \A m \in Pending : m.values # held[c]
  BY <1>3, PendingOwner
<1>5. \A d \in Callers \ {c} : held[d] # held[c]
  BY <1>1, LooperAssumption DEF LoopInv, HoldInv, ExclusiveUse
<1>6. PoolIsClean'
  BY <1>1, <1>2, <1>3 DEF LoopInv, CallInv, PoolIsClean
<1>7. MessagesHaveCallers'
  BY <1>2, <1>3, <1>4 DEF LoopInv, CallInv, MessagesHaveCallers, Pending
<1>8. OneMessageEach'
  BY <1>3 DEF LoopInv, CallInv, OneMessageEach
<1>9. UntouchedUntilProcessed'
  BY <1>1, <1>2, <1>3, <1>5, BusyCaller DEF LoopInv, CallInv, UntouchedUntilProcessed
<1>10. ProcessedMeansDone'
  <2>1. stage = "processed" => current.values # held[c] /\ current.values \in Values
    BY <1>4, CurrentPending
  <2> QED BY <1>1, <1>2, <1>3, <2>1 DEF LoopInv, CallInv, ProcessedMeansDone, Outcome
<1>11. WokenMeansDone'
  <2>1. \A d \in Callers \ {c} : pc[d] \in {"woken", "returning"} => Outcome(held[d])' = Outcome(held[d])
    BY <1>1, <1>2, <1>3, <1>5, BusyCaller DEF Outcome, LoopInv
  <2> QED BY <1>2, <1>3, <2>1 DEF LoopInv, CallInv, WokenMeansDone
<1>12. SentInsideMonitor'
  <2>1. stage \in {"inside", "processed"} => current.call.by \in Callers /\ current.call.by # c
    BY <1>3, CurrentPending DEF LoopInv, CallInv, MessagesHaveCallers, Pending
  <2> QED BY <1>2, <1>3, <2>1 DEF LoopInv, CallInv, SentInsideMonitor
<1>13. \A d \in Callers : call'[d] # NoCall => call'[d].by = d
  BY <1>2, <1>3 DEF LoopInv, CallInv
<1> QED BY <1>6, <1>7, <1>8, <1>9, <1>10, <1>11, <1>12, <1>13 DEF CallInv

LEMMA TakeCalls ==
    ASSUME LoopInv, Take
    PROVE  CallInv'
<1>1. /\ queue \in Seq(Messages) /\ queue # <<>> /\ stage = "idle" /\ current = NoMessage
      /\ current' = Head(queue) /\ queue' = Tail(queue) /\ stage' = "taken"
      /\ UNCHANGED <<pc, call, held, reply, cell, pool, monitor>>
  BY DEF LoopInv, HoldInv, TypeOK, Take
<1>2. Pending' \subseteq Pending
  BY <1>1 DEF Pending
<1>3. MessagesHaveCallers'
  BY <1>1, <1>2 DEF LoopInv, CallInv, MessagesHaveCallers, Pending
<1>4. OneMessageEach'
  <2>1. \A i, j \in 1..Len(queue) : queue[i].values = queue[j].values => i = j
    BY <1>1 DEF LoopInv, CallInv, OneMessageEach
  <2>2. /\ DOMAIN queue' = 1..(Len(queue) - 1) /\ Len(queue) \in Nat
        /\ \A i \in DOMAIN queue' : queue'[i] = queue[i + 1]
        /\ current' = queue[1]
    BY <1>1
  <2>3. \A i \in DOMAIN queue' : queue'[i].values # current'.values
    BY <2>1, <2>2
  <2>4. \A i, j \in DOMAIN queue' : queue'[i].values = queue'[j].values => i = j
    BY <2>1, <2>2
  <2> QED BY <2>3, <2>4 DEF OneMessageEach
<1>5. UntouchedUntilProcessed' /\ PoolIsClean' /\ WokenMeansDone' /\ ProcessedMeansDone' /\ SentInsideMonitor'
  BY <1>1 DEF LoopInv, CallInv, UntouchedUntilProcessed, PoolIsClean, WokenMeansDone,
              ProcessedMeansDone, SentInsideMonitor, Outcome
<1> QED BY <1>1, <1>3, <1>4, <1>5 DEF CallInv, LoopInv

LEMMA EnterCalls ==
    ASSUME LoopInv, Enter
    PROVE  CallInv'
<1>1. /\ stage = "taken" /\ monitor[current.values] = Nobody
      /\ monitor' = [monitor EXCEPT ![current.values] = Looper] /\ stage' = "inside"
      /\ UNCHANGED <<pc, call, held, reply, cell, pool, queue, current>>
  BY DEF Enter
<1>2. MessagesHaveCallers' /\ OneMessageEach' /\ PoolIsClean' /\ ProcessedMeansDone'
  BY <1>1 DEF LoopInv, CallInv, MessagesHaveCallers, Pending, OneMessageEach, PoolIsClean,
              ProcessedMeansDone, Outcome
<1>3. UntouchedUntilProcessed' /\ WokenMeansDone'
  BY <1>1 DEF LoopInv, CallInv, UntouchedUntilProcessed, WokenMeansDone, Outcome
<1>4. SentInsideMonitor'
  <2>1. /\ current.call.by \in Callers /\ pc[current.call.by] \in {"sent", "waiting"}
        /\ held[current.call.by] = current.values
    BY <1>1, CurrentPending DEF LoopInv, CallInv, MessagesHaveCallers, Pending
  <2>2. pc[current.call.by] = "waiting"
    BY <1>1, <2>1, LooperAssumption DEF LoopInv, CallInv, SentInsideMonitor
  <2>3. \A d \in Callers : pc[d] = "sent" => held[d] # current.values
    BY <2>1, <2>2, <1>1, CurrentPending, LooperAssumption DEF LoopInv, HoldInv, ExclusiveUse
  <2>4. \A d \in Callers : pc[d] = "sent" => monitor'[held[d]] = d
    BY <1>1, <2>3, BusyCaller DEF LoopInv, CallInv, SentInsideMonitor, HoldInv, TypeOK
  <2> QED BY <1>1, <2>2, <2>4 DEF SentInsideMonitor
<1> QED BY <1>1, <1>2, <1>3, <1>4 DEF CallInv, LoopInv

(* The looper processes the message on exactly the arguments of its call,  *)
(* and no exception is left over that would end it before it starts.       *)
LEMMA ProcessEffect ==
    ASSUME LoopInv, Process
    PROVE  /\ current.call.by \in Callers /\ pc[current.call.by] = "waiting"
           /\ held[current.call.by] = current.values /\ call[current.call.by] = current.call
           /\ \E end \in Endings(current.call.op) :
                 Outcome(current.values)' = Datum(end, current.call)
           /\ \A v \in Values \ {current.values} : cell'[v] = cell[v]
<1>1. stage = "inside" /\ current' = current
  BY DEF Process
<1>2. /\ current \in Messages /\ current.values \in Values /\ current.call.by \in Callers
      /\ pc[current.call.by] = "waiting" /\ call[current.call.by] = current.call
      /\ held[current.call.by] = current.values
  BY <1>1, CurrentPending DEF LoopInv, CallInv, MessagesHaveCallers, Pending, SentInsideMonitor
<1>3. cell[current.values] = FreshArguments(current.call)
  BY <1>1, <1>2 DEF LoopInv, CallInv, UntouchedUntilProcessed
<1>4. cell[current.values].exc = Null /\ Argument = current.call
  BY <1>3 DEF FreshArguments, Argument, Clean, Datum
<1>5. PICK end \in Endings(current.call.op) :
        cell' = IF end = "ok"
                THEN [cell EXCEPT ![current.values].data = Datum("ok", current.call)]
                ELSE [cell EXCEPT ![current.values].exc = Datum(end, current.call)]
  BY <1>4 DEF Process
<1>6. cell \in [Values -> Cell] /\ Datum(end, current.call) # Null
  BY EndingTags DEF LoopInv, HoldInv, TypeOK, Null, Datum
<1>7. Outcome(current.values)' = Datum(end, current.call)
  <2>1. CASE end = "ok"
    BY <1>1, <1>2, <1>4, <1>5, <1>6, <2>1 DEF Outcome, Cell
  <2>2. CASE end # "ok"
    BY <1>1, <1>2, <1>4, <1>5, <1>6, <2>2 DEF Outcome, Cell
  <2> QED BY <2>1, <2>2
<1> QED BY <1>2, <1>5, <1>6, <1>7

LEMMA ProcessCalls ==
    ASSUME LoopInv, Process
    PROVE  CallInv'
<1>1. /\ stage = "inside" /\ stage' = "processed"
      /\ UNCHANGED <<pc, call, held, reply, pool, monitor, queue, current>>
  BY DEF Process
<1>2. current.values \in Values
  BY <1>1, CurrentPending
<1>3. MessagesHaveCallers' /\ OneMessageEach' /\ SentInsideMonitor'
  BY <1>1 DEF LoopInv, CallInv, MessagesHaveCallers, Pending, OneMessageEach, SentInsideMonitor
<1>4. ProcessedMeansDone'
  BY <1>1, ProcessEffect DEF ProcessedMeansDone
<1>5. \A d \in Callers : held[d] = current.values => d = current.call.by
  BY <1>2, ProcessEffect, LooperAssumption DEF LoopInv, HoldInv, ExclusiveUse
<1>6. PoolIsClean'
  <2>1. current.values \notin pool
    BY <1>2, ProcessEffect, LooperAssumption DEF LoopInv, HoldInv, ExclusiveUse
  <2> QED BY <1>1, <2>1, ProcessEffect DEF LoopInv, CallInv, PoolIsClean, HoldInv, TypeOK
<1>7. UntouchedUntilProcessed'
  BY <1>1, ProcessEffect, BusyCaller DEF LoopInv, CallInv, UntouchedUntilProcessed
<1>8. WokenMeansDone'
  <2>1. \A d \in Callers : pc[d] \in {"woken", "returning"} =>
            held[d] # current.values /\ held[d] \in Values
    BY <1>5, ProcessEffect, BusyCaller DEF LoopInv
  <2>2. \A d \in Callers : pc[d] \in {"woken", "returning"} => Outcome(held[d])' = Outcome(held[d])
    BY <1>1, <2>1, ProcessEffect DEF Outcome
  <2> QED BY <1>1, <2>2 DEF LoopInv, CallInv, WokenMeansDone
<1> QED BY <1>1, <1>3, <1>4, <1>6, <1>7, <1>8 DEF CallInv, LoopInv

LEMMA NotifyCalls ==
    ASSUME LoopInv, Notify
    PROVE  CallInv'
<1>1. /\ stage = "processed" /\ stage' = "idle" /\ current' = NoMessage
      /\ monitor' = [monitor EXCEPT ![current.values] = Nobody]
      /\ UNCHANGED <<call, held, reply, cell, pool, queue>>
  BY DEF Notify
<1> DEFINE b == current.call.by
<1>2. /\ b \in Callers /\ pc[b] = "waiting" /\ held[b] = current.values
      /\ call[b] = current.call /\ current.values \in Values
  BY <1>1, CurrentPending DEF LoopInv, CallInv, MessagesHaveCallers, Pending, SentInsideMonitor
<1>3. pc \in [Callers -> PCs]
  BY DEF LoopInv, HoldInv, TypeOK
<1>4. \A d \in Callers \ {b} : held[d] # current.values
  BY <1>2, LooperAssumption DEF LoopInv, HoldInv, ExclusiveUse
<1>5. pc' = [pc EXCEPT ![b] = "woken"]
  BY <1>2, <1>3, <1>4 DEF Notify, Waiters
<1>6. MessagesHaveCallers'
  <2>1. \A i \in DOMAIN queue : queue[i].call.by # b
    BY <1>2 DEF LoopInv, CallInv, MessagesHaveCallers, Pending, OneMessageEach
  <2> QED BY <1>1, <1>3, <1>5, <2>1 DEF LoopInv, CallInv, MessagesHaveCallers, Pending
<1>7. OneMessageEach'
  <2>1. \A i \in DOMAIN queue : queue[i] \in Messages
    BY DEF LoopInv, HoldInv, TypeOK
  <2>2. \A i \in DOMAIN queue : queue[i].values # NoValue
    BY <2>1, LooperAssumption DEF Messages
  <2> QED BY <1>1, <2>2 DEF LoopInv, CallInv, OneMessageEach, NoMessage
<1>8. PoolIsClean' /\ ProcessedMeansDone'
  BY <1>1 DEF LoopInv, CallInv, PoolIsClean, ProcessedMeansDone
<1>9. UntouchedUntilProcessed'
  BY <1>1, <1>3, <1>4, <1>5 DEF LoopInv, CallInv, UntouchedUntilProcessed
<1>10. WokenMeansDone'
  BY <1>1, <1>2, <1>3, <1>5 DEF LoopInv, CallInv, WokenMeansDone, ProcessedMeansDone, Outcome
<1>11. SentInsideMonitor'
  BY <1>1, <1>2, <1>3, <1>4, <1>5, BusyCaller DEF LoopInv, CallInv, SentInsideMonitor, HoldInv, TypeOK
<1> QED BY <1>1, <1>6, <1>7, <1>8, <1>9, <1>10, <1>11 DEF CallInv, LoopInv

(* The count of early wakeups never goes back, so that a step which ends    *)
(* with none begins with none and is no early wakeup itself.                *)
LEMMA NoneSoFar ==
    ASSUME TypeOK, [Next]_vars, spurious' = 0
    PROVE  spurious = 0 /\ \A c \in Callers : ~WakeSpuriously(c)
<1>1. spurious \in Nat
  BY DEF TypeOK
<1>2. ASSUME NEW c \in Callers PROVE ~WakeSpuriously(c)
  BY <1>1 DEF WakeSpuriously
<1>3. ASSUME NEW c \in Callers, Obtain(c) \/ CallerStep(c) PROVE spurious' = spurious
  BY <1>3 DEF Obtain, CallerStep, Send, Wait, Leave, Return
<1>4. ASSUME LooperStep PROVE spurious' = spurious
  BY <1>4 DEF LooperStep, Take, Enter, Process, Notify
<1> QED BY <1>2, <1>3, <1>4 DEF Next, vars

LEMMA LoopInductive ==
    ASSUME LoopInv, [Next]_vars, spurious' = 0
    PROVE  LoopInv'
<1> SUFFICES CallInv'
  BY HoldInductive DEF LoopInv
<1>1. CASE UNCHANGED vars
  BY <1>1 DEF LoopInv, CallInv, vars, PoolIsClean, MessagesHaveCallers, Pending, OneMessageEach,
              UntouchedUntilProcessed, ProcessedMeansDone, SentInsideMonitor, WokenMeansDone, Outcome
<1>2. ASSUME NEW c \in Callers, Obtain(c) \/ CallerStep(c) PROVE CallInv'
  BY <1>2, ObtainCalls, SendCalls, WaitCalls, LeaveCalls, ReturnCalls DEF CallerStep
<1>3. CASE LooperStep
  BY <1>3, TakeCalls, EnterCalls, ProcessCalls, NotifyCalls DEF LooperStep
<1>4. ASSUME NEW c \in Callers PROVE ~WakeSpuriously(c)
  BY NoneSoFar DEF LoopInv, HoldInv
<1> QED BY <1>1, <1>2, <1>3, <1>4 DEF Next

LEMMA LoopInitially == Init => LoopInv
<1> SUFFICES ASSUME Init PROVE CallInv
  BY HoldInitially DEF LoopInv
<1> QED BY DEF Init, CallInv, PoolIsClean, MessagesHaveCallers, Pending, OneMessageEach,
               UntouchedUntilProcessed, ProcessedMeansDone, SentInsideMonitor, WokenMeansDone, NoMessage

(* The inductive invariant: LoopInv while no wait() has returned early.     *)
LoopSoFar == HoldInv /\ CallsConsistent

LEMMA LoopInvariant == Spec => []LoopSoFar
<1>1. Init => LoopSoFar
  BY LoopInitially DEF LoopSoFar, CallsConsistent, LoopInv
<1>2. LoopSoFar /\ [Next]_vars => LoopSoFar'
  BY HoldInductive, LoopInductive, NoneSoFar DEF LoopSoFar, CallsConsistent, LoopInv, HoldInv
<1> QED BY <1>1, <1>2, PTL DEF Spec

(* A caller that leaves wait() has the outcome of its own call in hand, and *)
(* the values in the pool are clean, until a wait() has returned early.     *)
THEOREM CallersServed ==
    Spec => [](spurious = 0 => WokenMeansDone /\ PoolIsClean /\ MessagesHaveCallers)
<1>1. LoopSoFar => (spurious = 0 => WokenMeansDone /\ PoolIsClean /\ MessagesHaveCallers)
  BY DEF LoopSoFar, CallsConsistent, CallInv
<1> QED BY <1>1, LoopInvariant, PTL

(* The looper, its queue, the monitors and the pool agree on every call     *)
(* under way: it has one message, whose values are untouched before         *)
(* processMessage and hold its outcome after it, until a wait() has         *)
(* returned early.                                                          *)
THEOREM CallsAreConsistent == Spec => []CallsConsistent
<1>1. LoopSoFar => CallsConsistent
  BY DEF LoopSoFar
<1> QED BY <1>1, LoopInvariant, PTL

(* What a client method returns is what the execution of its call produced, *)
(* until a wait() has returned early.                                       *)
THEOREM AnswersOwnCall == Spec => AnswersItsCall
<1> DEFINE Answered == \A c \in Callers : spurious' = 0 /\ call[c] # NoCall /\ call'[c] = NoCall =>
        \E end \in Endings(call[c].op) : reply'[c] = Seen(call[c].op, Datum(end, call[c]))
<1>1. LoopSoFar /\ [Next]_vars => [Answered]_vars
  <2> SUFFICES ASSUME LoopSoFar, Next, spurious' = 0,
                      NEW c \in Callers, call[c] # NoCall, call'[c] = NoCall
               PROVE  \E end \in Endings(call[c].op) :
                        reply'[c] = Seen(call[c].op, Datum(end, call[c]))
    OBVIOUS
  <2>0. LoopInv
    BY NoneSoFar DEF LoopSoFar, CallsConsistent, LoopInv, HoldInv
  <2>1. ~LooperStep
    BY DEF LooperStep, Take, Enter, Process, Notify
  <2>2. PICK d \in Callers : Obtain(d) \/ CallerStep(d) \/ WakeSpuriously(d)
    BY <2>1 DEF Next
  <2>3. ~Obtain(d)
    BY <2>0, OpsAssumption DEF Obtain, LoopInv, HoldInv, TypeOK, NoCall
  <2>4. Return(d)
    BY <2>2, <2>3 DEF CallerStep, Send, Wait, Leave, WakeSpuriously
  <2>5. d = c
    BY <2>0, <2>4 DEF Return, LoopInv, HoldInv, TypeOK
  <2>6. \E end \in Endings(call[c].op) : Outcome(held[c]) = Datum(end, call[c])
    BY <2>0, <2>4, <2>5 DEF Return, LoopInv, CallInv, WokenMeansDone
  <2> QED BY <2>0, <2>4, <2>5, <2>6 DEF Return, LoopInv, HoldInv, TypeOK
<1>2. Spec => [][Answered]_vars
  BY <1>1, LoopInvariant, PTL DEF Spec
<1> QED BY <1>2 DEF AnswersItsCall
-------------------------------------------------------------------------------
(* The refinement of SambaRpc: Shown(c) is what SambaRpc sees as outcome[c]. *)
Shown(c) == IF Executed(c) THEN Outcome(held[c]) ELSE Null

RpcOutcome == [c \in Callers |-> Shown(c)]

(* A step that leaves calls and replies alone and shows every outcome as   *)
(* before is invisible to SambaRpc.                                        *)
LEMMA Stutter ==
    ASSUME UNCHANGED <<call, reply>>, \A d \in Callers : Shown(d)' = Shown(d)
    PROVE  UNCHANGED Rpc!rpcVars
<1>1. RpcOutcome' = RpcOutcome
  BY DEF RpcOutcome
<1> QED BY <1>1 DEF Rpc!rpcVars, RpcOutcome, Shown, Null, Datum, NoCall, Rpc!Null, Rpc!Datum, Rpc!NoCall

(* Two callers never hold the message the looper works on. *)
LEMMA CurrentCaller ==
    ASSUME LoopInv, stage \in {"inside", "processed"}, NEW d \in Callers, held[d] = current.values
    PROVE  d = current.call.by /\ pc[d] = "waiting"
<1>1. current \in Pending
  BY CurrentPending
<1> QED BY <1>1, PendingOwner DEF LoopInv, CallInv, SentInsideMonitor

LEMMA ObtainInvokes ==
    ASSUME LoopInv, NEW c \in Callers, Obtain(c)
    PROVE  Rpc!Invoke(c)
<1>0. PICK op \in Ops, r \in Requests, v \in Obtainable :
        LET cl == [by |-> c, op |-> op, req |-> r] IN
          /\ call' = [call EXCEPT ![c] = cl]
          /\ held' = [held EXCEPT ![c] = v]
          /\ Acquire(v)
          /\ cell' = [cell EXCEPT ![v] =
                        IF op = "file" THEN [Obtained(v) EXCEPT !.data = Datum("arg", cl)]
                                       ELSE Obtained(v)]
  BY DEF Obtain
<1>1. /\ call' = [call EXCEPT ![c] = [by |-> c, op |-> op, req |-> r]]
      /\ held' = [held EXCEPT ![c] = v]
      /\ \A w \in Values \ {v} : cell'[w] = cell[w]
  BY <1>0 DEF LoopInv, HoldInv, TypeOK
<1>2. /\ pc[c] = "idle" /\ pc' = [pc EXCEPT ![c] = "obtained"]
      /\ reply' = [reply EXCEPT ![c] = Null] /\ UNCHANGED <<stage, current>>
      /\ pc \in [Callers -> PCs] /\ held \in [Callers -> Values \cup {NoValue}]
  BY DEF Obtain, LoopInv, HoldInv, TypeOK
<1>3. v \in Values /\ \A d \in Callers : held[d] # v
  BY LooperAssumption DEF Obtainable, Reachable, LoopInv, HoldInv, TypeOK, ExclusiveUse
<1>4. \A d \in Callers : Shown(d)' = Shown(d)
  <2> SUFFICES ASSUME NEW d \in Callers PROVE Shown(d)' = Shown(d)
    OBVIOUS
  <2>1. CASE d = c
    BY <1>2, <2>1 DEF Shown, Executed
  <2>2. CASE d # c /\ pc[d] = "idle"
    BY <1>2, <2>2 DEF Shown, Executed
  <2>3. CASE d # c /\ pc[d] # "idle"
    <3>1. held[d] \in Values /\ held'[d] = held[d] /\ held[d] # v /\ pc'[d] = pc[d]
      BY <1>1, <1>2, <1>3, <2>3, BusyCaller DEF LoopInv
    <3> QED BY <1>1, <1>2, <3>1 DEF Shown, Executed, Outcome
  <2> QED BY <2>1, <2>2, <2>3
<1>5. RpcOutcome' = RpcOutcome
  BY <1>4 DEF RpcOutcome
<1>6. call[c] = NoCall
  BY <1>2 DEF LoopInv, HoldInv
<1> QED BY <1>1, <1>2, <1>5, <1>6
        DEF Rpc!Invoke, RpcOutcome, Shown, Null, Datum, NoCall, Rpc!Null, Rpc!Datum, Rpc!NoCall

LEMMA ProcessExecutes ==
    ASSUME LoopInv, Process
    PROVE  Rpc!Execute(current.call.by)
<1> DEFINE b == current.call.by
<1>1. /\ b \in Callers /\ pc[b] = "waiting" /\ held[b] = current.values /\ call[b] = current.call
      /\ stage = "inside" /\ stage' = "processed" /\ current.values \in Values
      /\ UNCHANGED <<pc, call, held, reply, current>>
  BY ProcessEffect, CurrentPending DEF Process
<1>2. PICK end \in Endings(current.call.op) : Outcome(current.values)' = Datum(end, current.call)
  BY ProcessEffect
<1>3. Shown(b) = Null /\ Shown(b)' = Datum(end, call[b])
  BY <1>1, <1>2 DEF Shown, Executed, Outcome
<1>4. \A d \in Callers \ {b} : Shown(d)' = Shown(d)
  <2> SUFFICES ASSUME NEW d \in Callers \ {b} PROVE Shown(d)' = Shown(d)
    OBVIOUS
  <2>1. held[d] # current.values
    BY <1>1, CurrentCaller
  <2>2. CASE pc[d] \in {"woken", "returning"}
    BY <1>1, <2>1, <2>2, BusyCaller, ProcessEffect DEF Shown, Executed, Outcome, LoopInv
  <2>3. CASE pc[d] \notin {"woken", "returning"}
    BY <1>1, <2>1, <2>3 DEF Shown, Executed
  <2> QED BY <2>2, <2>3
<1>5. RpcOutcome' = [RpcOutcome EXCEPT ![b] = Datum(end, call[b])]
  BY <1>1, <1>3, <1>4 DEF RpcOutcome
<1>6. call[b] # NoCall
  BY <1>1 DEF LoopInv, HoldInv
<1>7. RpcOutcome[b] = Null
  BY <1>1, <1>3 DEF RpcOutcome
<1> QED BY <1>1, <1>2, <1>5, <1>6, <1>7
        DEF Rpc!Execute, RpcOutcome, Shown, Null, Datum, NoCall, Rpc!Null, Rpc!Datum, Rpc!NoCall,
            Endings, Rpc!Endings

LEMMA ReturnAnswers ==
    ASSUME LoopInv, NEW c \in Callers, Return(c)
    PROVE  Rpc!Answer(c)
<1>1. /\ pc[c] = "returning" /\ pc' = [pc EXCEPT ![c] = "idle"]
      /\ held' = [held EXCEPT ![c] = NoValue] /\ call' = [call EXCEPT ![c] = NoCall]
      /\ cell' = [cell EXCEPT ![held[c]] = Clean]
      /\ reply' = [reply EXCEPT ![c] = Seen(call[c].op, Outcome(held[c]))]
      /\ UNCHANGED <<stage, current>>
      /\ pc \in [Callers -> PCs] /\ held \in [Callers -> Values \cup {NoValue}]
      /\ cell \in [Values -> Cell]
  BY DEF Return, Close, LoopInv, HoldInv, TypeOK
<1>2. held[c] \in Values
  BY <1>1, BusyCaller DEF LoopInv
<1>3. Shown(c) = Outcome(held[c]) /\ Shown(c)' = Null
  BY <1>1 DEF Shown, Executed
<1>4. Shown(c) # Null
  BY <1>1, <1>3, EndingTags DEF LoopInv, CallInv, WokenMeansDone, Null, Datum
<1>5. \A d \in Callers \ {c} : Shown(d)' = Shown(d)
  <2> SUFFICES ASSUME NEW d \in Callers \ {c} PROVE Shown(d)' = Shown(d)
    OBVIOUS
  <2>1. held'[d] = held[d] /\ pc'[d] = pc[d]
    BY <1>1
  <2>2. CASE pc[d] = "idle"
    BY <1>1, <2>1, <2>2 DEF Shown, Executed
  <2>3. CASE pc[d] # "idle"
    <3>1. held[d] # held[c] /\ held[d] \in Values
      BY <1>2, <2>3, BusyCaller, LooperAssumption DEF LoopInv, HoldInv, ExclusiveUse
    <3> QED BY <1>1, <2>1, <3>1 DEF Shown, Executed, Outcome
  <2> QED BY <2>2, <2>3
<1>6. RpcOutcome' = [RpcOutcome EXCEPT ![c] = Null]
  BY <1>3, <1>5 DEF RpcOutcome
<1>7. RpcOutcome[c] = Outcome(held[c]) /\ RpcOutcome[c] # Null
  BY <1>3, <1>4 DEF RpcOutcome
<1> QED BY <1>1, <1>6, <1>7
        DEF Rpc!Answer, RpcOutcome, Shown, Null, Void, Datum, NoCall, Rpc!Null, Rpc!Void, Rpc!Datum,
            Rpc!NoCall, Seen, Rpc!Seen

(* The other steps do not show. *)
LEMMA HiddenSteps ==
    ASSUME LoopInv, NEW c \in Callers, Send(c) \/ Wait(c) \/ Leave(c)
    PROVE  UNCHANGED Rpc!rpcVars
<1>1. /\ UNCHANGED <<call, held, reply, cell, current, stage>>
      /\ pc \in [Callers -> PCs]
      /\ \/ pc[c] = "obtained" /\ pc' = [pc EXCEPT ![c] = "sent"]
         \/ pc[c] = "sent" /\ pc' = [pc EXCEPT ![c] = "waiting"]
         \/ pc[c] = "woken" /\ pc' = [pc EXCEPT ![c] = "returning"]
  BY DEF Send, Wait, Leave, LoopInv, HoldInv, TypeOK
<1>2. pc[c] = "sent" => ~(stage = "processed" /\ current.values = held[c])
  BY CurrentCaller
<1>3. \A d \in Callers : Shown(d)' = Shown(d)
  BY <1>1, <1>2 DEF Shown, Executed, Outcome
<1> QED BY <1>1, <1>3, Stutter

LEMMA HiddenLooperSteps ==
    ASSUME LoopInv, Take \/ Enter \/ Notify
    PROVE  UNCHANGED Rpc!rpcVars
<1>1. ASSUME Take \/ Enter PROVE \A d \in Callers : Shown(d)' = Shown(d)
  BY <1>1 DEF Take, Enter, Shown, Executed, Outcome
<1>2. ASSUME Notify PROVE \A d \in Callers : Shown(d)' = Shown(d)
  <2> DEFINE b == current.call.by
  <2>1. /\ stage = "processed" /\ stage' = "idle" /\ UNCHANGED <<held, cell>>
        /\ pc \in [Callers -> PCs]
    BY <1>2 DEF Notify, LoopInv, HoldInv, TypeOK
  <2>2. \A d \in Callers : held[d] = current.values <=> d = b
    BY <2>1, CurrentCaller, CurrentPending DEF LoopInv, CallInv, MessagesHaveCallers, Pending
  <2>3. b \in Callers /\ pc[b] = "waiting" /\ pc' = [pc EXCEPT ![b] = "woken"]
    BY <1>2, <2>1, <2>2, CurrentPending
       DEF Notify, Waiters, LoopInv, CallInv, MessagesHaveCallers, Pending, SentInsideMonitor
  <2> QED BY <2>1, <2>2, <2>3 DEF Shown, Executed, Outcome
<1>3. UNCHANGED <<call, reply>>
  BY DEF Take, Enter, Notify
<1> QED BY <1>1, <1>2, <1>3, Stutter

(* Until a wait() has returned early the looper implements the atomic call. *)
THEOREM LooperImplementsRpc == Spec => ImplementsRpc
<1> DEFINE Step == spurious' = 0 => Rpc!RpcNext
<1>1. Init => Rpc!RpcInit
  <2> SUFFICES ASSUME Init PROVE Rpc!RpcInit
    OBVIOUS
  <2>1. RpcOutcome = [c \in Callers |-> Null]
    BY DEF Init, RpcOutcome, Shown, Executed
  <2> QED BY <2>1 DEF Init, Rpc!RpcInit, RpcOutcome, Shown, Null, Datum, NoCall, Rpc!Null,
                      Rpc!Datum, Rpc!NoCall
<1>2. LoopSoFar /\ [Next]_vars => [Step]_(Rpc!rpcVars)
  <2> SUFFICES ASSUME LoopSoFar, [Next]_vars, spurious' = 0
               PROVE  Rpc!RpcNext \/ UNCHANGED Rpc!rpcVars
    OBVIOUS
  <2>0. LoopInv
    BY NoneSoFar DEF LoopSoFar, CallsConsistent, LoopInv, HoldInv
  <2>1. CASE UNCHANGED vars
    <3>1. \A d \in Callers : Shown(d)' = Shown(d)
      BY <2>1 DEF vars, Shown, Executed, Outcome
    <3> QED BY <2>1, <3>1, Stutter DEF vars
  <2>2. ASSUME NEW c \in Callers, Obtain(c) \/ CallerStep(c)
        PROVE  Rpc!RpcNext \/ UNCHANGED Rpc!rpcVars
    BY <2>0, <2>2, ObtainInvokes, ReturnAnswers, HiddenSteps DEF CallerStep, Rpc!RpcNext
  <2>3. CASE Process
    BY <2>0, <2>3, ProcessExecutes, ProcessEffect DEF Rpc!RpcNext
  <2>4. CASE Take \/ Enter \/ Notify
    BY <2>0, <2>4, HiddenLooperSteps
  <2>5. ASSUME NEW c \in Callers PROVE ~WakeSpuriously(c)
    BY <2>0, NoneSoFar DEF LoopInv, HoldInv
  <2> QED BY <2>1, <2>2, <2>3, <2>4, <2>5 DEF Next, LooperStep
<1> QED BY <1>1, <1>2, LoopInvariant, PTL DEF Spec, ImplementsRpc
===============================================================================
