-------------------------- MODULE DocumentLoadingProofs --------------------------
(***************************************************************************)
(* Proofs about DocumentLoading, for any number of clients, files and      *)
(* tasks.                                                                  *)
(***************************************************************************)
EXTENDS DocumentLoading, FiniteSetTheorems, TLAPS

(* A task that a call or a cursor refers to has not ended, and nobody has  *)
(* cancelled it; a call that has decided has a task that nobody has begun. *)
ClientOK(c) ==
    /\ call[c].task # NoTask => task[call[c].task].status # "finished"
    /\ cursor[c].task # NoTask => task[cursor[c].task].status # "finished"
    /\ call[c].task # NoTask => ~task[call[c].task].cancelled
    /\ cursor[c].task # NoTask => ~task[cursor[c].task].cancelled
    /\ call[c].at = "decided" => call[c].task # NoTask /\ task[call[c].task].status = "new"
    /\ ~cursor[c].open => cursor[c] = Closed

(* No two of them refer to one task. *)
Apart(c, d) ==
    /\ call[c].task # NoTask => call[c].task # cursor[d].task
    /\ call[c].task = call[d].task => c = d \/ call[c].task = NoTask
    /\ cursor[c].task = cursor[d].task => c = d \/ cursor[c].task = NoTask

(* Only the latest task runs, or has run and has not ended.                *)
TaskOK(t) ==
    /\ task[t].status \in {"queued", "running"} => t = latest
    /\ task[t].status = "posted" => t = latest \/ task[t].result = "null"
    /\ task[t].status = "posted" => task[t].cancelled \/ task[t].result # "null"
    /\ task[t].status \in {"new", "queued", "running"} => task[t].result = "null"
    /\ task[t].status = "new" => ~task[t].cancelled
    /\ task[t].kind = "stat" => doc.listed \/ ~task[t].on

Unended == {"queued", "running", "posted", "reported"}

LoadingInv ==
    /\ TypeOK
    /\ latest # NoTask => task[latest].status \in Unended
    /\ \A t \in Tasks : TaskOK(t)
    /\ \A c \in Clients : ClientOK(c)
    /\ \A c, d \in Clients : Apart(c, d)

-------------------------------------------------------------------------------
(***************************************************************************)
(* Types.                                                                  *)
(***************************************************************************)
LEMMA DoneType ==
    /\ Done \in TaskObjects /\ Done.kind = "document" /\ Done.status = "finished"
    /\ Done.cancelled = FALSE /\ Done.on = FALSE /\ Done.result = "null"
BY DEF Done, NewTask, TaskObjects, Kinds, Statuses

LEMMA NewTaskType ==
    \A kind \in {"document", "children", "stat"}, todo \in SUBSET Files :
       /\ NewTask(kind, todo) \in TaskObjects
       /\ NewTask(kind, todo).kind = kind /\ NewTask(kind, todo).status = "new"
       /\ NewTask(kind, todo).cancelled = FALSE /\ NewTask(kind, todo).result = "null"
BY DEF NewTask, TaskObjects, Kinds, Statuses

LEMMA NoCallType == NoCall.at = "none" /\ NoCall.task = NoTask
BY DEF NoCall

LEMMA ClosedType == Closed \in Cursors /\ Closed.open = FALSE /\ Closed.loading = FALSE /\ Closed.task = NoTask
BY DEF Closed, Cursors

LEMMA DocType ==
    /\ Absent \in Documents /\ Absent.cached = FALSE /\ Absent.listed = FALSE /\ Absent.stats = {}
    /\ FreshDoc \in Documents /\ FreshDoc.cached = TRUE /\ FreshDoc.fresh = TRUE
    /\ FreshDoc.listed = FALSE /\ FreshDoc.stats = {}
BY DEF Absent, FreshDoc, Documents

LEMMA CallType ==
    ASSUME NEW r \in Calls \cup {NoCall}
    PROVE  /\ r.at \in {"none", "decided", "started", "complete"} /\ r.task \in Tasks \cup {NoTask}
           /\ r.at = "none" => r = NoCall
<1>1. CASE r \in Calls
  BY <1>1 DEF Calls
<1>2. CASE r = NoCall
  BY <1>2, NoCallType
<1> QED BY <1>1, <1>2

(* What is known in every state, for SMT. *)
Shape ==
    /\ NoTask \notin Tasks
    /\ doc \in Documents /\ docError \in BOOLEAN
    /\ task \in [Tasks -> TaskObjects] /\ latest \in Tasks \cup {NoTask}
    /\ call \in [Clients -> Calls \cup {NoCall}]
    /\ cursor \in [Clients -> Cursors] /\ notified \in [Clients -> BOOLEAN]
    /\ doc.stats # {} => doc.listed

LEMMA ShapeOf == TypeOK => Shape
BY LoadingAssumption DEF TypeOK, Shape

LEMMA TypeOf ==
    ASSUME Shape, \A c, d \in Clients : Apart(c, d)
    PROVE  TypeOK
BY DEF TypeOK, Shape, Apart

LEMMA TypeOfPrimed ==
    ASSUME Shape', \A c, d \in Clients : Apart(c, d)'
    PROVE  TypeOK'
BY DEF TypeOK, Shape, Apart

-------------------------------------------------------------------------------
(***************************************************************************)
(* Closing a cursor.                                                       *)
(***************************************************************************)
LEMMA Closing ==
    ASSUME Shape, NEW c \in Clients, task' = CloseCursor(c, task)
    PROVE  /\ task' \in [Tasks -> TaskObjects]
           /\ \A t \in Tasks :
                /\ task'[t].kind = task[t].kind /\ task'[t].on = task[t].on
                /\ task'[t].result = task[t].result
                /\ t # cursor[c].task => task'[t] = task[t]
                /\ t = cursor[c].task => task'[t].cancelled
                /\ t = cursor[c].task => task'[t].status = IF task[t].status \in {"new", "queued"}
                                                           THEN "posted" ELSE task[t].status
<1>1. CASE cursor[c].task = NoTask
  BY <1>1 DEF Shape, CloseCursor
<1>2. CASE cursor[c].task # NoTask
  <2> DEFINE u == cursor[c].task
             k == Cancelled(u)
  <2>1. u \in Tasks /\ task[u] \in TaskObjects /\ task \in [Tasks -> TaskObjects]
    BY <1>2 DEF Shape, Cursors
  <2>2. /\ k \in TaskObjects /\ k.kind = task[u].kind /\ k.on = task[u].on
        /\ k.result = task[u].result /\ k.cancelled = TRUE
        /\ k.status = IF task[u].status \in {"new", "queued"} THEN "posted" ELSE task[u].status
    BY <2>1 DEF Cancelled, TaskObjects, Statuses, Kinds
  <2>3. task' = [task EXCEPT ![u] = k]
    BY <1>2 DEF CloseCursor
  <2> HIDE DEF u, k
  <2>4. /\ task' \in [Tasks -> TaskObjects] /\ task'[u] = k
        /\ \A t \in Tasks : t # u => task'[t] = task[t]
    BY <2>1, <2>2, <2>3
  <2> QED BY <2>1, <2>2, <2>4 DEF u
<1> QED BY <1>1, <1>2

LEMMA ClosingTasks ==
    ASSUME LoadingInv, Shape, NEW c \in Clients, task' = CloseCursor(c, task),
           latest' = latest, doc'.listed = doc.listed
    PROVE  /\ latest' # NoTask => task'[latest'].status \in Unended
           /\ \A t \in Tasks : TaskOK(t)'
<1>1. ASSUME NEW t \in Tasks PROVE TaskOK(t)'
  <2>1. TaskOK(t) /\ task[t] \in TaskObjects
    BY DEF LoadingInv, Shape
  <2>2. CASE t # cursor[c].task
    <3>1. task'[t] = task[t]
      BY <2>2, Closing
    <3> QED BY <2>1, <3>1 DEF TaskOK
  <2>3. CASE t = cursor[c].task
    <3>1. /\ task'[t].kind = task[t].kind /\ task'[t].on = task[t].on
          /\ task'[t].result = task[t].result /\ task'[t].cancelled
          /\ task'[t].status = IF task[t].status \in {"new", "queued"} THEN "posted" ELSE task[t].status
      BY <2>3, Closing
    <3> QED BY <2>1, <3>1 DEF TaskOK
  <2> QED BY <2>2, <2>3
<1>2. ASSUME latest # NoTask PROVE task'[latest].status \in Unended
  BY <1>2, Closing DEF LoadingInv, Shape, Unended
<1> QED BY <1>1, <1>2

(* What others refer to survives it.                                       *)
LEMMA ClosingRefs ==
    ASSUME LoadingInv, Shape, NEW c \in Clients, task' = CloseCursor(c, task),
           NEW d \in Clients
    PROVE  /\ call[d].task # NoTask => task'[call[d].task] = task[call[d].task]
           /\ d # c /\ cursor[d].task # NoTask => task'[cursor[d].task] = task[cursor[d].task]
<1>1. Apart(d, c)
  BY DEF LoadingInv
<1>2. call[d].task \in Tasks \cup {NoTask} /\ cursor[d].task \in Tasks \cup {NoTask}
  BY CallType DEF Shape, Cursors
<1> QED BY <1>1, <1>2, Closing DEF Apart

-------------------------------------------------------------------------------
(***************************************************************************)
(* The clients' steps.                                                     *)
(***************************************************************************)
LEMMA QueryThrowsInv ==
    ASSUME LoadingInv, NEW c \in Clients, QueryThrows(c)
    PROVE  LoadingInv'
<1>0. LoadingInv /\ Shape
  BY ShapeOf DEF LoadingInv
<1>1. /\ task' = CloseCursor(c, task) /\ cursor' = [cursor EXCEPT ![c] = Closed]
      /\ notified' = [notified EXCEPT ![c] = FALSE] /\ UNCHANGED <<latest, call>>
      /\ MayQuery(c)
  BY DEF QueryThrows
<1>2. /\ doc' \in Documents /\ docError' \in BOOLEAN
      /\ doc'.cached = doc.cached /\ doc'.fresh = doc.fresh /\ doc'.listed = doc.listed
      /\ doc'.stats = doc.stats
  BY <1>0 DEF QueryThrows, Shape, Documents
<1>3. Shape'
  BY <1>0, <1>1, <1>2, Closing, ClosedType DEF Shape
<1>4. ASSUME NEW d \in Clients PROVE ClientOK(d)'
  <2>1. ClientOK(d) /\ (d # c => cursor'[d] = cursor[d]) /\ (d = c => cursor'[d] = Closed)
    BY <1>0, <1>1 DEF LoadingInv, Shape
  <2>2. call[d].task \in Tasks \cup {NoTask} /\ cursor[d].task \in Tasks \cup {NoTask}
    BY <1>0, CallType DEF Shape, Cursors
  <2> QED BY <1>0, <1>1, <2>1, <2>2, ClosingRefs, ClosedType DEF ClientOK
<1>5. ASSUME NEW d \in Clients, NEW e \in Clients PROVE Apart(d, e)'
  <2>1. Apart(d, e)
    BY <1>0 DEF LoadingInv
  <2> QED BY <1>0, <1>1, <2>1, ClosedType DEF Apart, Shape
<1>6. LoadingInv'
  BY <1>0, <1>1, <1>2, <1>3, <1>4, <1>5, ClosingTasks, TypeOfPrimed DEF LoadingInv
<1> QED BY <1>6

LEMMA QueryInv ==
    ASSUME LoadingInv, NEW c \in Clients, Query(c)
    PROVE  LoadingInv'
<1>0. LoadingInv /\ Shape
  BY ShapeOf DEF LoadingInv
<1>1. /\ notified' = [notified EXCEPT ![c] = FALSE] /\ UNCHANGED <<docError, latest, cursor>>
      /\ MayQuery(c)
  BY DEF Query
<1>2. /\ doc' \in Documents
      /\ doc'.cached = doc.cached /\ doc'.fresh = doc.fresh /\ doc'.listed = doc.listed
      /\ doc'.stats = doc.stats
  BY <1>0 DEF Query, Shape, Documents
<1>3. CASE call' = [call EXCEPT ![c] = [at |-> "complete", task |-> NoTask]] /\ UNCHANGED task
  <2>1. /\ call' \in [Clients -> Calls \cup {NoCall}]
        /\ call'[c].at = "complete" /\ call'[c].task = NoTask
        /\ \A d \in Clients : d # c => call'[d] = call[d]
    BY <1>0, <1>3 DEF Shape, Calls
  <2>2. Shape'
    BY <1>0, <1>1, <1>2, <1>3, <2>1 DEF Shape
  <2>3. ASSUME NEW t \in Tasks PROVE TaskOK(t)'
    BY <1>0, <1>1, <1>2, <1>3 DEF LoadingInv, TaskOK
  <2>4. ASSUME NEW d \in Clients PROVE ClientOK(d)'
    BY <1>0, <1>1, <1>3, <2>1 DEF LoadingInv, ClientOK
  <2>5. ASSUME NEW d \in Clients, NEW e \in Clients PROVE Apart(d, e)'
    BY <1>0, <1>1, <2>1 DEF LoadingInv, Apart
  <2>6. LoadingInv'
    BY <1>0, <1>1, <1>3, <2>2, <2>3, <2>4, <2>5, TypeOfPrimed DEF LoadingInv
  <2> QED BY <2>6
<1>4. CASE /\ Free # {} /\ task' = [task EXCEPT ![New] = QueryNeeds]
           /\ call' = [call EXCEPT ![c] = [at |-> "decided", task |-> New]]
  <2> DEFINE n == New
             k == QueryNeeds
  <2>1. n \in Tasks /\ task[n].status = "finished"
    <3>1. New \in Free
      BY <1>4 DEF New
    <3>2. Free \subseteq Tasks
      BY <1>0, LoadingAssumption DEF Free, Shape
    <3> QED BY <3>1, <3>2, DoneType DEF Free
  <2>2. /\ k \in TaskObjects /\ k.status = "new" /\ k.cancelled = FALSE /\ k.result = "null"
        /\ k.kind = "document" => ~doc.cached
        /\ k.kind = "children" => doc.cached /\ (~doc.listed \/ ~doc.fresh)
        /\ k.kind = "stat" => doc.listed
    <3>1. {} \in SUBSET Files /\ ToStat \in SUBSET Files
      BY DEF ToStat, NeedStat
    <3>3. CASE ~doc.cached
      <4>1. k = NewTask("document", {})
        BY <3>3 DEF QueryNeeds
      <4> HIDE DEF k
      <4>2. /\ NewTask("document", {}) \in TaskObjects
            /\ NewTask("document", {}).kind = "document"
            /\ NewTask("document", {}).status = "new"
            /\ NewTask("document", {}).cancelled = FALSE
            /\ NewTask("document", {}).result = "null"
        BY <3>1, NewTaskType
      <4> QED BY <3>3, <4>1, <4>2
    <3>4. CASE doc.cached /\ (~doc.listed \/ ~doc.fresh)
      <4>1. k = NewTask("children", {})
        BY <3>4 DEF QueryNeeds
      <4> HIDE DEF k
      <4>2. /\ NewTask("children", {}) \in TaskObjects
            /\ NewTask("children", {}).kind = "children"
            /\ NewTask("children", {}).status = "new"
            /\ NewTask("children", {}).cancelled = FALSE
            /\ NewTask("children", {}).result = "null"
        BY <3>1, NewTaskType
      <4> QED BY <3>4, <4>1, <4>2
    <3>5. CASE doc.cached /\ doc.listed /\ doc.fresh
      <4>1. k = NewTask("stat", ToStat)
        BY <3>5 DEF QueryNeeds
      <4> HIDE DEF k
      <4>2. /\ NewTask("stat", ToStat) \in TaskObjects
            /\ NewTask("stat", ToStat).kind = "stat"
            /\ NewTask("stat", ToStat).status = "new"
            /\ NewTask("stat", ToStat).cancelled = FALSE
            /\ NewTask("stat", ToStat).result = "null"
        BY <3>1, NewTaskType
      <4> QED BY <3>5, <4>1, <4>2
    <3> QED BY <3>3, <3>4, <3>5
  <2>3. task' = [task EXCEPT ![n] = k] /\ call' = [call EXCEPT ![c] = [at |-> "decided", task |-> n]]
    BY <1>4
  <2> HIDE DEF n, k
  <2>4. /\ task' \in [Tasks -> TaskObjects] /\ task'[n] = k
        /\ \A t \in Tasks : t # n => task'[t] = task[t]
    BY <1>0, <2>1, <2>2, <2>3 DEF Shape
  <2>5. /\ call' \in [Clients -> Calls \cup {NoCall}]
        /\ call'[c].at = "decided" /\ call'[c].task = n
        /\ \A d \in Clients : d # c => call'[d] = call[d]
    BY <1>0, <2>1, <2>3 DEF Shape, Calls
  <2>6. Shape'
    BY <1>0, <1>1, <1>2, <2>4, <2>5 DEF Shape
  <2>7. \A d \in Clients : cursor[d].task # n /\ call[d].task # n
    BY <1>0, <2>1 DEF LoadingInv, ClientOK, Shape
  <2>8. latest # n
    BY <1>0, <2>1 DEF LoadingInv, Shape, Unended
  <2>9. ASSUME NEW t \in Tasks PROVE TaskOK(t)'
    <3>1. TaskOK(t)
      BY <1>0 DEF LoadingInv
    <3> QED BY <1>1, <1>2, <2>2, <2>4, <3>1 DEF TaskOK
  <2>10. ASSUME NEW d \in Clients PROVE ClientOK(d)'
    <3>1. ClientOK(d)
      BY <1>0 DEF LoadingInv
    <3>2. call[d].task \in Tasks \cup {NoTask} /\ cursor[d].task \in Tasks \cup {NoTask}
      BY <1>0, CallType DEF Shape, Cursors
    <3> QED BY <1>0, <1>1, <2>1, <2>2, <2>4, <2>5, <2>7, <3>1, <3>2 DEF ClientOK, Shape
  <2>11. ASSUME NEW d \in Clients, NEW e \in Clients PROVE Apart(d, e)'
    <3>1. Apart(d, e)
      BY <1>0 DEF LoadingInv
    <3> QED BY <1>1, <2>5, <2>7, <3>1 DEF Apart
  <2>12. LoadingInv'
    BY <1>0, <1>1, <2>4, <2>6, <2>8, <2>9, <2>10, <2>11, TypeOfPrimed DEF LoadingInv, Shape
  <2> QED BY <2>12
<1> QED BY <1>3, <1>4 DEF Query

LEMMA RunTaskInv ==
    ASSUME LoadingInv, NEW c \in Clients, RunTask(c)
    PROVE  LoadingInv'
<1>0. LoadingInv /\ Shape
  BY ShapeOf DEF LoadingInv
<1>1. call[c].at = "decided" /\ UNCHANGED <<doc, docError, cursor, notified>>
  BY DEF RunTask
<1>n. PICK n \in Tasks : n = call[c].task
  BY <1>0, <1>1, CallType DEF LoadingInv, ClientOK, Shape
<1>2. task[n].status = "new" /\ TaskOK(n) /\ ClientOK(c) /\ task[n] \in TaskObjects
  BY <1>0, <1>1, <1>n DEF LoadingInv, ClientOK, Shape
<1>3. /\ call' \in [Clients -> Calls \cup {NoCall}]
      /\ call'[c].at = "started" /\ call'[c].task = n
      /\ \A d \in Clients : d # c => call'[d] = call[d]
  <2>1. call[c] \in Calls
    BY <1>0, <1>1, NoCallType DEF Shape
  <2>2. [call[c] EXCEPT !.at = "started"] \in Calls /\ [call[c] EXCEPT !.at = "started"].task = n
        /\ [call[c] EXCEPT !.at = "started"].at = "started"
    BY <1>n, <2>1 DEF Calls
  <2>3. call' = [call EXCEPT ![c] = [call[c] EXCEPT !.at = "started"]]
    BY <1>0 DEF RunTask, Shape
  <2> QED BY <1>0, <2>2, <2>3 DEF Shape
<1>4. /\ task' \in [Tasks -> TaskObjects] /\ latest' \in Tasks \cup {NoTask}
      /\ \A t \in Tasks : t # n => task'[t] = task[t]
      /\ task'[n].kind = task[n].kind /\ task'[n].on = task[n].on
      /\ task'[n].result = task[n].result /\ task'[n].cancelled = task[n].cancelled
  <2>1. CASE UNCHANGED <<latest, task>>
    BY <1>0, <2>1 DEF Shape
  <2>2. CASE latest' = n /\ task' = [task EXCEPT ![n].status = "queued"]
    <3>1. [task[n] EXCEPT !.status = "queued"] \in TaskObjects
      BY <1>2 DEF TaskObjects, Statuses
    <3> QED BY <1>0, <1>2, <2>2, <3>1 DEF Shape, TaskObjects
  <2> QED BY <1>n, <2>1, <2>2 DEF RunTask
<1>5. \/ latest # NoTask /\ latest' = latest /\ task' = task
      \/ latest = NoTask /\ latest' = n /\ task'[n].status = "queued"
  <2>1. CASE latest = NoTask
    <3>1. latest' = n /\ task' = [task EXCEPT ![n].status = "queued"]
      BY <1>n, <2>1 DEF RunTask, MayRun
    <3> QED BY <1>0, <1>2, <2>1, <3>1 DEF Shape, TaskObjects
  <2>2. CASE latest # NoTask
    BY <2>2 DEF RunTask, MayRun
  <2> QED BY <2>1, <2>2
<1>6. Shape'
  BY <1>0, <1>1, <1>3, <1>4 DEF Shape
<1>7. LoadingInv'
  <2>1. ASSUME NEW t \in Tasks PROVE TaskOK(t)'
    <3>1. TaskOK(t)
      BY <1>0 DEF LoadingInv
    <3> QED BY <1>0, <1>1, <1>n, <1>2, <1>4, <1>5, <3>1 DEF TaskOK, Shape
  <2>2. ASSUME NEW d \in Clients PROVE ClientOK(d)'
    <3>1. ClientOK(d) /\ Apart(c, d) /\ Apart(d, c)
      BY <1>0 DEF LoadingInv
    <3>2. call[d].task \in Tasks \cup {NoTask} /\ cursor[d].task \in Tasks \cup {NoTask}
      BY <1>0, CallType DEF Shape, Cursors
    <3> QED BY <1>0, <1>1, <1>n, <1>2, <1>3, <1>4, <1>5, <3>1, <3>2 DEF ClientOK, Apart, Shape
  <2>3. ASSUME NEW d \in Clients, NEW e \in Clients PROVE Apart(d, e)'
    BY <1>0, <1>1, <1>n, <1>3 DEF LoadingInv, Apart
  <2>4. latest' # NoTask => task'[latest'].status \in Unended
    BY <1>0, <1>5 DEF LoadingInv, Unended
  <2> QED BY <1>6, <2>1, <2>2, <2>3, <2>4, TypeOfPrimed DEF LoadingInv
<1> QED BY <1>7

LEMMA ReturnInv ==
    ASSUME LoadingInv, NEW c \in Clients, Return(c)
    PROVE  LoadingInv'
<1>0. LoadingInv /\ Shape
  BY ShapeOf DEF LoadingInv
<1>1. /\ task' = CloseCursor(c, task) /\ call[c].at \in {"started", "complete"}
      /\ UNCHANGED <<doc, docError, latest, notified>>
  BY DEF Return
<1>2. /\ cursor' \in [Clients -> Cursors] /\ cursor'[c].open = TRUE
      /\ cursor'[c].loading = (call[c].at = "started") /\ cursor'[c].task = call[c].task
      /\ \A d \in Clients : d # c => cursor'[d] = cursor[d]
  <2> DEFINE k == [open |-> TRUE, loading |-> call[c].at = "started", task |-> call[c].task]
  <2>1. k \in Cursors /\ k.open = TRUE /\ k.loading = (call[c].at = "started") /\ k.task = call[c].task
    BY <1>0, CallType DEF Cursors, Shape
  <2>2. cursor' = [cursor EXCEPT ![c] = k]
    BY DEF Return
  <2> HIDE DEF k
  <2> QED BY <1>0, <2>1, <2>2 DEF Shape
<1>3. /\ call' \in [Clients -> Calls \cup {NoCall}] /\ call'[c] = NoCall
      /\ \A d \in Clients : d # c => call'[d] = call[d]
  BY <1>0 DEF Shape, Return
<1>4. Shape'
  BY <1>0, <1>1, <1>2, <1>3, Closing DEF Shape
<1>5. ASSUME NEW d \in Clients PROVE ClientOK(d)'
  <2>1. ClientOK(d)
    BY <1>0 DEF LoadingInv
  <2>2. call[d].task \in Tasks \cup {NoTask} /\ cursor[d].task \in Tasks \cup {NoTask}
    BY <1>0, CallType DEF Shape, Cursors
  <2> QED BY <1>0, <1>1, <1>2, <1>3, <2>1, <2>2, ClosingRefs, NoCallType DEF ClientOK
<1>6. ASSUME NEW d \in Clients, NEW e \in Clients PROVE Apart(d, e)'
  <2>1. Apart(d, e) /\ Apart(e, d)
    BY <1>0 DEF LoadingInv
  <2> QED BY <1>2, <1>3, <2>1, NoCallType DEF Apart
<1>7. LoadingInv'
  BY <1>0, <1>1, <1>4, <1>5, <1>6, ClosingTasks, TypeOfPrimed DEF LoadingInv
<1> QED BY <1>7

LEMMA LeaveInv ==
    ASSUME LoadingInv, NEW c \in Clients, Leave(c)
    PROVE  LoadingInv'
<1>0. LoadingInv /\ Shape
  BY ShapeOf DEF LoadingInv
<1>1. /\ task' = CloseCursor(c, task) /\ cursor' = [cursor EXCEPT ![c] = Closed]
      /\ notified' = [notified EXCEPT ![c] = FALSE] /\ UNCHANGED <<doc, docError, latest, call>>
  BY DEF Leave
<1>2. Shape'
  BY <1>0, <1>1, Closing, ClosedType DEF Shape
<1>3. ASSUME NEW d \in Clients PROVE ClientOK(d)'
  <2>1. ClientOK(d) /\ (d # c => cursor'[d] = cursor[d]) /\ (d = c => cursor'[d] = Closed)
    BY <1>0, <1>1 DEF LoadingInv, Shape
  <2>2. call[d].task \in Tasks \cup {NoTask} /\ cursor[d].task \in Tasks \cup {NoTask}
    BY <1>0, CallType DEF Shape, Cursors
  <2> QED BY <1>0, <1>1, <2>1, <2>2, ClosingRefs, ClosedType DEF ClientOK
<1>4. ASSUME NEW d \in Clients, NEW e \in Clients PROVE Apart(d, e)'
  <2>1. Apart(d, e)
    BY <1>0 DEF LoadingInv
  <2> QED BY <1>0, <1>1, <2>1, ClosedType DEF Apart, Shape
<1>5. LoadingInv'
  BY <1>0, <1>1, <1>2, <1>3, <1>4, ClosingTasks, TypeOfPrimed DEF LoadingInv
<1> QED BY <1>5

LEMMA ChangeInv ==
    ASSUME LoadingInv, Change
    PROVE  LoadingInv'
<1>0. LoadingInv /\ Shape
  BY ShapeOf DEF LoadingInv
<1>1. UNCHANGED <<doc, docError, task, latest, call, cursor>> /\ notified' \in [Clients -> BOOLEAN]
  BY <1>0 DEF Change, Notify, Shape, Cursors
<1>2. LoadingInv'
  BY <1>0, <1>1 DEF LoadingInv, TypeOK, TaskOK, ClientOK, Apart
<1> QED BY <1>2

LEMMA ExpireInv ==
    ASSUME LoadingInv, Expire
    PROVE  LoadingInv'
<1>0. LoadingInv /\ Shape
  BY ShapeOf DEF LoadingInv
<1>1. UNCHANGED <<docError, task, latest, call, cursor, notified>>
  BY DEF Expire
<1>2. doc' \in Documents /\ doc'.listed = doc.listed /\ doc'.stats = doc.stats
  BY <1>0 DEF Expire, Shape, Documents
<1>3. LoadingInv'
  BY <1>0, <1>1, <1>2 DEF LoadingInv, TypeOK, TaskOK, ClientOK, Apart
<1> QED BY <1>3

-------------------------------------------------------------------------------
(***************************************************************************)
(* The tasks' steps.                                                       *)
(***************************************************************************)

(* A step of the executor that goes on with, or ends, the latest task, and *)
(* perhaps changes what the cache knows of the folder's children.          *)
Progress(t) ==
    /\ UNCHANGED <<docError, latest, call, cursor, notified>>
    /\ task' \in [Tasks -> TaskObjects] /\ doc' \in Documents
    /\ \A u \in Tasks : /\ u # t => task'[u].status = task[u].status
                        /\ u # t => task'[u].result = task[u].result
                        /\ task'[u].kind = task[u].kind
                        /\ task'[u].cancelled = task[u].cancelled
                        /\ task'[u].on => task[u].on
    /\ task[t].status \in {"queued", "running"}
    /\ \/ task'[t].status = "running" /\ task'[t].result = "null"
       \/ task'[t].status = "posted" /\ task'[t].result \in {"loaded", "failed"}
    /\ doc.listed => doc'.listed
    /\ doc'.stats # {} => doc'.listed

LEMMA ProgressInv ==
    ASSUME LoadingInv, Shape, NEW t \in Tasks, Progress(t)
    PROVE  LoadingInv'
<1>0. UNCHANGED <<docError, latest, call, cursor, notified>> /\ t = latest
  BY DEF Progress, LoadingInv, TaskOK
<1>1. Shape'
  BY <1>0 DEF Shape, Progress
<1>2. ASSUME NEW u \in Tasks PROVE TaskOK(u)'
  <2>1. TaskOK(u)
    BY DEF LoadingInv
  <2> QED BY <1>0, <2>1 DEF TaskOK, Progress
<1>3. ASSUME NEW d \in Clients PROVE ClientOK(d)'
  <2>1. ClientOK(d)
    BY DEF LoadingInv
  <2>2. call[d].task \in Tasks \cup {NoTask} /\ cursor[d].task \in Tasks \cup {NoTask}
    BY CallType DEF Shape, Cursors
  <2> QED BY <1>0, <2>1, <2>2 DEF ClientOK, Progress
<1>4. ASSUME NEW d \in Clients, NEW e \in Clients PROVE Apart(d, e)'
  BY <1>0 DEF LoadingInv, Apart
<1>5. latest' # NoTask => task'[latest'].status \in Unended
  BY <1>0 DEF Progress, Unended
<1> QED BY <1>1, <1>2, <1>3, <1>4, <1>5, TypeOfPrimed DEF LoadingInv

LEMMA StartInv ==
    ASSUME LoadingInv, NEW t \in Tasks, Start(t)
    PROVE  LoadingInv'
<1>0. LoadingInv /\ Shape /\ TaskOK(t) /\ task[t] \in TaskObjects
  BY ShapeOf DEF LoadingInv, Shape
<1>1. Progress(t)
  <2>1. [task[t] EXCEPT !.status = "running"] \in TaskObjects
    BY <1>0 DEF TaskObjects, Statuses
  <2>2. task' = [task EXCEPT ![t].status = "running"] /\ task[t].status = "queued"
        /\ UNCHANGED <<doc, docError, latest, call, cursor, notified>>
    BY DEF Start
  <2>3. task' \in [Tasks -> TaskObjects]
    BY <1>0, <2>1, <2>2 DEF Shape
  <2> QED BY <1>0, <2>2, <2>3 DEF Progress, Shape, TaskOK, TaskObjects
<1> QED BY <1>0, <1>1, ProgressInv

LEMMA EndedType ==
    ASSUME Shape, NEW t \in Tasks, NEW result \in {"loaded", "failed"}
    PROVE  /\ Ended(t, result) \in [Tasks -> TaskObjects]
           /\ Ended(t, result)[t].status = "posted" /\ Ended(t, result)[t].result = result
           /\ \A u \in Tasks : /\ u # t => Ended(t, result)[u] = task[u]
                               /\ Ended(t, result)[u].kind = task[u].kind
                               /\ Ended(t, result)[u].on = task[u].on
                               /\ Ended(t, result)[u].cancelled = task[u].cancelled
<1> DEFINE k == [task[t] EXCEPT !.status = "posted", !.result = result]
<1>1. task[t] \in TaskObjects /\ task \in [Tasks -> TaskObjects]
  BY DEF Shape
<1>2. /\ k \in TaskObjects /\ k.status = "posted" /\ k.result = result /\ k.kind = task[t].kind
      /\ k.on = task[t].on /\ k.cancelled = task[t].cancelled
  BY <1>1 DEF TaskObjects, Statuses
<1>3. Ended(t, result) = [task EXCEPT ![t] = k]
  BY <1>1 DEF Ended
<1> HIDE DEF k
<1> QED BY <1>1, <1>2, <1>3

LEMMA OrphanedType ==
    ASSUME NEW tasks \in [Tasks -> TaskObjects], NEW kinds
    PROVE  /\ Orphaned(tasks, kinds) \in [Tasks -> TaskObjects]
           /\ \A u \in Tasks : /\ Orphaned(tasks, kinds)[u].kind = tasks[u].kind
                               /\ Orphaned(tasks, kinds)[u].status = tasks[u].status
                               /\ Orphaned(tasks, kinds)[u].result = tasks[u].result
                               /\ Orphaned(tasks, kinds)[u].cancelled = tasks[u].cancelled
                               /\ Orphaned(tasks, kinds)[u].on
                                  => tasks[u].on /\ tasks[u].kind \notin kinds
<1>1. ASSUME NEW u \in Tasks
      PROVE  /\ Orphaned(tasks, kinds)[u] \in TaskObjects
             /\ Orphaned(tasks, kinds)[u].kind = tasks[u].kind
             /\ Orphaned(tasks, kinds)[u].status = tasks[u].status
             /\ Orphaned(tasks, kinds)[u].result = tasks[u].result
             /\ Orphaned(tasks, kinds)[u].cancelled = tasks[u].cancelled
             /\ Orphaned(tasks, kinds)[u].on => tasks[u].on /\ tasks[u].kind \notin kinds
  <2>1. tasks[u] \in TaskObjects
    OBVIOUS
  <2>2. CASE tasks[u].kind \in kinds
    <3>1. Orphaned(tasks, kinds)[u] = [tasks[u] EXCEPT !.on = FALSE]
      BY <2>2 DEF Orphaned
    <3> QED BY <2>1, <3>1 DEF TaskObjects, Statuses
  <2>3. CASE tasks[u].kind \notin kinds
    <3>1. Orphaned(tasks, kinds)[u] = tasks[u]
      BY <2>3 DEF Orphaned
    <3> QED BY <2>1, <2>3, <3>1
  <2> QED BY <2>2, <2>3
<1>2. Orphaned(tasks, kinds) = [u \in Tasks |-> Orphaned(tasks, kinds)[u]]
  BY DEF Orphaned
<1> QED BY <1>1, <1>2

LEMMA RunDocumentInv ==
    ASSUME LoadingInv, NEW t \in Tasks, RunDocument(t)
    PROVE  LoadingInv'
<1>0. LoadingInv /\ Shape
  BY ShapeOf DEF LoadingInv
<1>1. PICK result \in {"loaded", "failed"} : task' = Ended(t, result)
  BY DEF RunDocument
<1>2. task[t].status = "running" /\ UNCHANGED <<doc, docError, latest, call, cursor, notified>>
  BY DEF RunDocument
<1>3. Progress(t)
  BY <1>0, <1>1, <1>2, EndedType DEF Progress, Shape
<1> QED BY <1>0, <1>3, ProgressInv

LEMMA RunChildrenInv ==
    ASSUME LoadingInv, NEW t \in Tasks, RunChildren(t)
    PROVE  LoadingInv'
<1>0. LoadingInv /\ Shape
  BY ShapeOf DEF LoadingInv
<1>2. /\ task[t].status = "running" /\ task[t].kind = "children"
      /\ UNCHANGED <<docError, latest, call, cursor, notified>>
  BY DEF RunChildren
<1>3. PICK set \in BOOLEAN, fails \in BOOLEAN :
          LET ended == Ended(t, IF fails THEN "failed" ELSE "loaded") IN
          /\ task' = IF set /\ task[t].on THEN Orphaned(ended, {"stat"}) ELSE ended
          /\ doc' = IF ~task[t].on THEN doc
                    ELSE [doc EXCEPT !.listed = @ \/ set,
                                     !.fresh = @ \/ set,
                                     !.stats = IF set THEN {} ELSE @,
                                     !.statErrors = IF set THEN {} ELSE @,
                                     !.listError = @ \/ fails]
  BY DEF RunChildren
<1> DEFINE ended == Ended(t, IF fails THEN "failed" ELSE "loaded")
<1>4. /\ ended \in [Tasks -> TaskObjects]
      /\ ended[t].status = "posted" /\ ended[t].result \in {"loaded", "failed"}
      /\ \A u \in Tasks : /\ u # t => ended[u] = task[u]
                          /\ ended[u].kind = task[u].kind
                          /\ ended[u].on = task[u].on
                          /\ ended[u].cancelled = task[u].cancelled
  BY <1>0, EndedType
<1>5. task' = IF set /\ task[t].on THEN Orphaned(ended, {"stat"}) ELSE ended
  BY <1>3
<1> HIDE DEF ended
<1>6. /\ task' \in [Tasks -> TaskObjects]
      /\ \A u \in Tasks : /\ u # t => task'[u].status = task[u].status
                          /\ u # t => task'[u].result = task[u].result
                          /\ task'[u].kind = task[u].kind
                          /\ task'[u].cancelled = task[u].cancelled
                          /\ task'[u].on => task[u].on
      /\ task'[t].status = "posted" /\ task'[t].result \in {"loaded", "failed"}
  BY <1>4, <1>5, OrphanedType
<1>7. /\ doc' \in Documents
      /\ doc.listed => doc'.listed
      /\ doc'.stats # {} => doc'.listed
  BY <1>0, <1>3 DEF Shape, Documents
<1>8. Progress(t)
  BY <1>2, <1>6, <1>7 DEF Progress
<1> QED BY <1>0, <1>8, ProgressInv

LEMMA RunStatInv ==
    ASSUME LoadingInv, NEW t \in Tasks, RunStat(t)
    PROVE  LoadingInv'
<1>0. LoadingInv /\ Shape /\ TaskOK(t) /\ task[t] \in TaskObjects
  BY ShapeOf DEF LoadingInv, Shape
<1>1. /\ task[t].status = "running" /\ task[t].kind = "stat" /\ task[t].result = "null"
      /\ UNCHANGED <<docError, latest, call, cursor, notified>>
  BY <1>0 DEF RunStat, TaskOK
<1>2. PICK f \in task[t].todo :
        LET rest == [task[t] EXCEPT !.todo = @ \ {f}]
            end  == [rest EXCEPT !.status = "posted", !.result = "loaded"] IN
        \/ /\ doc' = StatLoaded(t, f)
           /\ task' = [task EXCEPT ![t] = IF @.cancelled \/ rest.todo = {} THEN end ELSE rest]
        \/ /\ doc' = IF task[t].on THEN [doc EXCEPT !.statErrors = @ \cup {f}] ELSE doc
           /\ task' = [task EXCEPT ![t] = IF rest.todo = {} THEN end ELSE rest]
  BY DEF RunStat
<1> DEFINE rest == [task[t] EXCEPT !.todo = @ \ {f}]
           end  == [rest EXCEPT !.status = "posted", !.result = "loaded"]
<1>3. /\ rest \in TaskObjects /\ rest.status = "running" /\ rest.result = "null"
      /\ rest.kind = task[t].kind /\ rest.on = task[t].on /\ rest.cancelled = task[t].cancelled
  BY <1>0, <1>1 DEF TaskObjects
<1>4. /\ end \in TaskObjects /\ end.status = "posted" /\ end.result = "loaded"
      /\ end.kind = task[t].kind /\ end.on = task[t].on /\ end.cancelled = task[t].cancelled
  <2> HIDE DEF rest
  <2> QED BY <1>3 DEF TaskObjects, Statuses
<1>5. task' = [task EXCEPT ![t] = rest] \/ task' = [task EXCEPT ![t] = end]
  <2> HIDE DEF end
  <2> QED BY <1>2 DEF end
<1>6. /\ task' \in [Tasks -> TaskObjects] /\ task'[t] \in {rest, end}
      /\ \A u \in Tasks : u # t => task'[u] = task[u]
  <2> HIDE DEF rest, end
  <2> QED BY <1>0, <1>3, <1>4, <1>5 DEF Shape
<1>7. /\ doc' \in Documents /\ doc'.cached = doc.cached /\ doc'.fresh = doc.fresh
      /\ doc'.listed = doc.listed /\ (doc'.stats # {} => doc.listed)
  <2>1. f \in Files /\ (task[t].on => doc.listed)
    BY <1>0, <1>1 DEF TaskObjects, TaskOK
  <2>2. CASE doc' = StatLoaded(t, f)
    BY <1>0, <2>1, <2>2 DEF StatLoaded, Shape, Documents
  <2>3. CASE doc' = IF task[t].on THEN [doc EXCEPT !.statErrors = @ \cup {f}] ELSE doc
    BY <1>0, <2>1, <2>3 DEF Shape, Documents
  <2> QED BY <1>2, <2>2, <2>3
<1> HIDE DEF rest, end
<1>8. Progress(t)
  BY <1>1, <1>3, <1>4, <1>6, <1>7 DEF Progress
<1> QED BY <1>0, <1>8, ProgressInv

LEMMA ReportInv ==
    ASSUME LoadingInv, NEW t \in Tasks, Report(t)
    PROVE  LoadingInv'
<1> DEFINE loaded == task[t].kind = "document" /\ task[t].result = "loaded"
<1>0. LoadingInv /\ Shape /\ TaskOK(t) /\ task[t] \in TaskObjects
  BY ShapeOf DEF LoadingInv, Shape
<1>1. /\ task[t].status = "posted" /\ UNCHANGED <<latest, call, cursor>>
      /\ docError' \in BOOLEAN
      /\ doc' = IF loaded THEN FreshDoc ELSE doc
  BY DEF Report
<1>2. /\ notified' \in [Clients -> BOOLEAN]
      /\ Tells(t) => \A c \in Clients : cursor[c].open => notified'[c]
      /\ ~Tells(t) => notified' = notified
  BY <1>0 DEF Report, Notify, Shape, Cursors
<1>3. /\ task' \in [Tasks -> TaskObjects] /\ task'[t].status = "reported"
      /\ \A u \in Tasks : /\ u # t => task'[u].status = task[u].status
                          /\ task'[u].kind = task[u].kind
                          /\ task'[u].result = task[u].result
                          /\ task'[u].cancelled = task[u].cancelled
                          /\ task'[u].on => task[u].on
                          /\ loaded /\ task'[u].kind = "stat" => ~task'[u].on
  <2> DEFINE reported == [task EXCEPT ![t].status = "reported"]
  <2>1. /\ reported \in [Tasks -> TaskObjects] /\ reported[t].status = "reported"
        /\ \A u \in Tasks : u # t => reported[u] = task[u]
        /\ reported[t].kind = task[t].kind /\ reported[t].result = task[t].result
        /\ reported[t].cancelled = task[t].cancelled /\ reported[t].on = task[t].on
    <3>1. [task[t] EXCEPT !.status = "reported"] \in TaskObjects
      BY <1>0 DEF TaskObjects, Statuses
    <3> QED BY <1>0, <3>1 DEF Shape, TaskObjects
  <2>2. task' = IF loaded THEN Orphaned(reported, {"children", "stat"}) ELSE reported
    BY DEF Report
  <2> HIDE DEF reported
  <2>3. CASE loaded
    <3> DEFINE alone == Orphaned(reported, {"children", "stat"})
    <3>1. /\ alone \in [Tasks -> TaskObjects]
          /\ \A u \in Tasks : /\ alone[u].kind = reported[u].kind
                              /\ alone[u].status = reported[u].status
                              /\ alone[u].result = reported[u].result
                              /\ alone[u].cancelled = reported[u].cancelled
                              /\ alone[u].on => /\ reported[u].on
                                              /\ reported[u].kind \notin {"children", "stat"}
      BY <2>1, OrphanedType
    <3>2. task' = alone
      BY <2>2, <2>3
    <3> HIDE DEF alone
    <3> QED BY <2>1, <3>1, <3>2
  <2>4. CASE ~loaded
    <3>1. task' = reported
      BY <2>2, <2>4
    <3> HIDE DEF loaded
    <3> QED BY <2>1, <2>4, <3>1
  <2> QED BY <2>3, <2>4
<1>4. /\ doc' \in Documents /\ (doc'.stats # {} => doc'.listed)
      /\ doc'.listed => doc.listed
      /\ ~loaded => doc' = doc
      /\ loaded => doc'.cached /\ doc'.fresh /\ ~doc'.listed
  BY <1>0, <1>1, DocType DEF Shape
<1>5. Shape'
  BY <1>0, <1>1, <1>2, <1>3, <1>4 DEF Shape
<1>6. LoadingInv'
  <2>1. ASSUME NEW u \in Tasks PROVE TaskOK(u)'
    <3>1. TaskOK(u)
      BY <1>0 DEF LoadingInv
    <3> QED BY <1>1, <1>3, <1>4, <3>1 DEF TaskOK
  <2>2. ASSUME NEW d \in Clients PROVE ClientOK(d)'
    <3>1. ClientOK(d)
      BY <1>0 DEF LoadingInv
    <3>2. call[d].task \in Tasks \cup {NoTask} /\ cursor[d].task \in Tasks \cup {NoTask}
      BY <1>0, CallType DEF Shape, Cursors
    <3> QED BY <1>1, <1>3, <3>1, <3>2 DEF ClientOK
  <2>3. ASSUME NEW d \in Clients, NEW e \in Clients PROVE Apart(d, e)'
    BY <1>0, <1>1 DEF LoadingInv, Apart
  <2>4. latest' # NoTask => task'[latest'].status \in Unended
    BY <1>0, <1>1, <1>3 DEF LoadingInv, Unended, Shape
  <2> QED BY <1>5, <2>1, <2>2, <2>3, <2>4, TypeOfPrimed DEF LoadingInv
<1> QED BY <1>6

LEMMA FinishInv ==
    ASSUME LoadingInv, NEW t \in Tasks, Finish(t)
    PROVE  LoadingInv'
<1>0. LoadingInv /\ Shape
  BY ShapeOf DEF LoadingInv
<1>1. /\ task[t].status = "reported" /\ UNCHANGED <<doc, docError, notified>>
      /\ task' = [task EXCEPT ![t] = Done]
      /\ latest' = IF latest = t THEN NoTask ELSE latest
  BY DEF Finish, Forget
<1>2. /\ task' \in [Tasks -> TaskObjects] /\ task'[t] = Done
      /\ \A u \in Tasks : u # t => task'[u] = task[u]
  BY <1>0, <1>1, DoneType DEF Shape
<1>3. /\ call' \in [Clients -> Calls \cup {NoCall}]
      /\ \A d \in Clients : /\ call'[d].at = call[d].at
                            /\ call'[d].task = IF call[d].task = t THEN NoTask ELSE call[d].task
  <2>1. call' = [d \in Clients |-> IF call[d].task = t THEN [call[d] EXCEPT !.task = NoTask] ELSE call[d]]
    BY DEF Finish, Forget
  <2>2. ASSUME NEW d \in Clients, call[d].task = t
        PROVE  LET k == [call[d] EXCEPT !.task = NoTask] IN
               k \in Calls /\ k.at = call[d].at /\ k.task = NoTask
    <3>1. call[d] \in Calls
      BY <1>0, <2>2, NoCallType DEF Shape
    <3> QED BY <3>1 DEF Calls
  <2> QED BY <1>0, <2>1, <2>2 DEF Shape
<1>4. /\ cursor' \in [Clients -> Cursors]
      /\ \A d \in Clients : /\ cursor'[d].open = cursor[d].open /\ cursor'[d].loading = cursor[d].loading
                            /\ cursor'[d].task = IF cursor[d].task = t THEN NoTask ELSE cursor[d].task
                            /\ cursor[d].task # t => cursor'[d] = cursor[d]
  <2>1. cursor' = [d \in Clients |-> IF cursor[d].task = t THEN [cursor[d] EXCEPT !.task = NoTask]
                                                           ELSE cursor[d]]
    BY DEF Finish, Forget
  <2>2. ASSUME NEW d \in Clients, cursor[d].task = t
        PROVE  LET k == [cursor[d] EXCEPT !.task = NoTask] IN
               /\ k \in Cursors /\ k.open = cursor[d].open /\ k.loading = cursor[d].loading
               /\ k.task = NoTask
    BY <1>0 DEF Shape, Cursors
  <2> QED BY <1>0, <2>1, <2>2 DEF Shape
<1>5. Shape'
  BY <1>0, <1>1, <1>2, <1>3, <1>4 DEF Shape
<1>6. LoadingInv'
  <2>1. ASSUME NEW u \in Tasks PROVE TaskOK(u)'
    <3>1. TaskOK(u)
      BY <1>0 DEF LoadingInv
    <3>2. CASE u = t
      BY <1>1, <1>2, <3>2, DoneType DEF TaskOK
    <3>3. CASE u # t
      BY <1>1, <1>2, <3>1, <3>3 DEF TaskOK
    <3> QED BY <3>2, <3>3
  <2>2. ASSUME NEW d \in Clients PROVE ClientOK(d)'
    <3>1. ClientOK(d)
      BY <1>0 DEF LoadingInv
    <3>2. call[d].task \in Tasks \cup {NoTask} /\ cursor[d].task \in Tasks \cup {NoTask}
      BY <1>0, CallType DEF Shape, Cursors
    <3>3. ~cursor[d].open => cursor[d].task # t
      BY <1>0, <3>1, ClosedType DEF ClientOK, Shape
    <3> QED BY <1>0, <1>1, <1>2, <1>3, <1>4, <3>1, <3>2, <3>3 DEF ClientOK, Shape
  <2>3. ASSUME NEW d \in Clients, NEW e \in Clients PROVE Apart(d, e)'
    <3>1. Apart(d, e)
      BY <1>0 DEF LoadingInv
    <3> QED BY <1>0, <1>3, <1>4, <3>1 DEF Apart, Shape
  <2>4. latest' # NoTask => task'[latest'].status \in Unended
    BY <1>0, <1>1, <1>2 DEF LoadingInv, Shape
  <2> QED BY <1>5, <2>1, <2>2, <2>3, <2>4, TypeOfPrimed DEF LoadingInv
<1> QED BY <1>6

-------------------------------------------------------------------------------
LEMMA LoadInit ==
    ASSUME Init
    PROVE  LoadingInv
<1>1. \A t \in Tasks : task[t] = Done
  BY DEF Init
<1>2. \A c \in Clients : call[c] = NoCall /\ cursor[c] = Closed
  BY DEF Init
<1>3. Shape
  BY DoneType, ClosedType, DocType, LoadingAssumption DEF Init, Shape
<1>4. \A t \in Tasks : TaskOK(t)
  BY <1>1, DoneType DEF TaskOK
<1>5. \A c \in Clients : ClientOK(c)
  BY <1>2, ClosedType, NoCallType DEF ClientOK
<1>6. \A c, d \in Clients : Apart(c, d)
  BY <1>2, ClosedType, NoCallType DEF Apart
<1> QED BY <1>3, <1>4, <1>5, <1>6, TypeOf DEF LoadingInv, Init

LEMMA LoadStep ==
    ASSUME LoadingInv, [Next]_vars
    PROVE  LoadingInv'
<1>1. ASSUME NEW c \in Clients,
             Query(c) \/ QueryThrows(c) \/ RunTask(c) \/ Return(c) \/ Leave(c)
      PROVE  LoadingInv'
  BY <1>1, QueryInv, QueryThrowsInv, RunTaskInv, ReturnInv, LeaveInv
<1>2. ASSUME NEW t \in Tasks,
             \/ Start(t) \/ RunDocument(t) \/ RunChildren(t) \/ RunStat(t) \/ Report(t) \/ Finish(t)
      PROVE  LoadingInv'
  BY <1>2, StartInv, RunDocumentInv, RunChildrenInv, RunStatInv, ReportInv, FinishInv
<1>3. CASE Change \/ Expire
  BY <1>3, ChangeInv, ExpireInv
<1>4. CASE UNCHANGED vars
  BY <1>4 DEF vars, LoadingInv, TypeOK, TaskOK, ClientOK, Apart
<1> QED BY <1>1, <1>2, <1>3, <1>4 DEF Next

LEMMA LoadInvariant == Spec => []LoadingInv
BY LoadInit, LoadStep, PTL DEF Spec

-------------------------------------------------------------------------------
(* Variables keep their types; no cursor waits for the task that its client*)
(* has just built (queryChildDocuments), and stats belong to a listed      *)
(* folder (DocumentMetadata).                                              *)
THEOREM TypeCorrect == Spec => []TypeOK
<1>1. LoadingInv => TypeOK
  BY DEF LoadingInv
<1> QED BY <1>1, LoadInvariant, PTL

(* TaskManager.runTask keeps its promise: of the tasks for a folder at most*)
(* one is on the executor, whoever queries and cancels.                    *)
THEOREM OneTaskAtATime == Spec => []OneUpdateAtATime
<1>1. LoadingInv => OneUpdateAtATime
  <2> SUFFICES ASSUME LoadingInv PROVE OneUpdateAtATime
    OBVIOUS
  <2> DEFINE S == {t \in Tasks : task[t].status \in {"queued", "running"}}
  <2>1. S \subseteq {latest}
    BY DEF LoadingInv, TaskOK
  <2>2. IsFiniteSet({latest}) /\ Cardinality({latest}) = 1
    BY FS_Singleton
  <2>3. IsFiniteSet(S) /\ Cardinality(S) <= Cardinality({latest})
    BY <2>1, <2>2, FS_Subset
  <2> QED BY <2>2, <2>3 DEF OneUpdateAtATime
<1> QED BY <1>1, LoadInvariant, PTL

(* A task ends, and a cursor that holds it is open.                        *)
Heard(t, c) ==
    task[t].status = "posted" /\ task'[t].status = "reported" /\ cursor[c].task = t
        => notified'[c]

(* Only the report of a task takes it from posted to reported.             *)
LEMMA OnlyReportReports ==
    ASSUME LoadingInv, [Next]_vars, NEW t \in Tasks,
           task[t].status = "posted", task'[t].status = "reported"
    PROVE  Report(t)
<1>0. Shape /\ task[t] \in TaskObjects
  BY ShapeOf DEF LoadingInv, Shape
<1>1. ASSUME NEW c \in Clients, QueryThrows(c) \/ Return(c) \/ Leave(c) PROVE FALSE
  <2>1. task' = CloseCursor(c, task)
    BY <1>1 DEF QueryThrows, Return, Leave
  <2> QED BY <1>0, <2>1, Closing
<1>2. ASSUME NEW c \in Clients, Query(c) PROVE FALSE
  <2>1. CASE UNCHANGED task
    BY <2>1
  <2>2. CASE Free # {} /\ task' = [task EXCEPT ![New] = QueryNeeds]
    <3>1. New \in Free
      BY <2>2 DEF New
    <3>2. New # t
      BY <3>1, DoneType DEF Free
    <3> QED BY <1>0, <2>2, <3>2 DEF Shape
  <2> QED BY <1>2, <2>1, <2>2 DEF Query
<1>3. ASSUME NEW c \in Clients, RunTask(c) PROVE FALSE
  <2>1. call[c].task # t
    BY <1>3 DEF RunTask, LoadingInv, ClientOK
  <2>2. task'[t] = task[t]
    BY <1>0, <1>3, <2>1 DEF RunTask, Shape
  <2> QED BY <2>2
<1>4. ASSUME NEW u \in Tasks, Start(u) \/ RunDocument(u) \/ RunChildren(u) \/ RunStat(u)
      PROVE  FALSE
  <2>1. u # t
    BY <1>4 DEF Start, RunDocument, RunChildren, RunStat
  <2>2. CASE Start(u) \/ RunStat(u)
    <3>1. task'[t] = task[t]
      BY <1>0, <2>1, <2>2 DEF Start, RunStat, Shape
    <3> QED BY <3>1
  <2>3. ASSUME NEW result \in {"loaded", "failed"},
               task' = Ended(u, result) \/ task' = Orphaned(Ended(u, result), {"stat"})
        PROVE  FALSE
    <3>1. Ended(u, result) \in [Tasks -> TaskObjects] /\ Ended(u, result)[t] = task[t]
      BY <1>0, <2>1, EndedType
    <3> QED BY <2>3, <3>1, OrphanedType
  <2>4. CASE RunDocument(u)
    BY <2>3, <2>4 DEF RunDocument
  <2>5. CASE RunChildren(u)
    BY <2>3, <2>5 DEF RunChildren
  <2> QED BY <1>4, <2>2, <2>4, <2>5
<1>5. ASSUME NEW u \in Tasks, Report(u), u # t PROVE FALSE
  <2> DEFINE reported == [task EXCEPT ![u].status = "reported"]
  <2>1. reported \in [Tasks -> TaskObjects] /\ reported[t] = task[t]
    <3>1. [task[u] EXCEPT !.status = "reported"] \in TaskObjects
      BY <1>0 DEF Shape, TaskObjects, Statuses
    <3> QED BY <1>0, <1>5, <3>1 DEF Shape
  <2>2. task' = Orphaned(reported, {"children", "stat"}) \/ task' = reported
    BY <1>5 DEF Report
  <2> HIDE DEF reported
  <2> QED BY <2>1, <2>2, OrphanedType
<1>6. ASSUME NEW u \in Tasks, Finish(u) PROVE FALSE
  <2>1. task' = [task EXCEPT ![u] = Done]
    BY <1>6 DEF Finish, Forget
  <2> QED BY <1>0, <2>1, DoneType DEF Shape
<1>7. CASE Change \/ Expire \/ UNCHANGED vars
  BY <1>7 DEF Change, Expire, vars
<1> QED BY <1>1, <1>2, <1>3, <1>4, <1>5, <1>6, <1>7 DEF Next

(* Whoever shows the cursor that holds a task hears of its end: nobody     *)
(* else's close cancels that task (DocumentCursor.close,                   *)
(* LoadDocumentTask and LoadChildrenTask.onCancelled).                     *)
THEOREM HoldersHear == Spec => HolderHears
<1>1. LoadingInv /\ [Next]_vars
        => [\A t \in Tasks, c \in Clients : Heard(t, c)]_vars
  <2> SUFFICES ASSUME LoadingInv, [Next]_vars, NEW t \in Tasks, NEW c \in Clients,
                      task[t].status = "posted", task'[t].status = "reported",
                      cursor[c].task = t
               PROVE  notified'[c]
    BY DEF Heard
  <2>1. Report(t)
    BY OnlyReportReports
  <2>2. t # NoTask /\ ~task[t].cancelled /\ cursor[c].open
    BY ShapeOf, LoadingAssumption, ClosedType DEF LoadingInv, ClientOK
  <2>3. notified' = [d \in Clients |-> notified[d] \/ cursor[d].open]
    BY <2>1, <2>2 DEF Report, Tells, Notify
  <2> QED BY <2>2, <2>3
<1> QED BY <1>1, LoadInvariant, PTL DEF Spec, HolderHears, Heard
===============================================================================
