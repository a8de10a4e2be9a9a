----------------------------- MODULE DocumentLoading -----------------------------
(***************************************************************************)
(* How one folder gets on the screen.  queryChildDocuments answers at once *)
(* with what the DocumentCache holds and, if something is missing, starts  *)
(* an AsyncTask through the TaskManager and marks the cursor as loading.   *)
(* The task runs on a pool thread, reports on the main thread, notifies    *)
(* the folder's uri, and the clients whose cursors listen query again:     *)
(* first the folder itself is loaded, then its children, then their stats. *)
(*                                                                         *)
(* Queries come in on binder threads, several at once.  Closing a cursor   *)
(* cancels the task it holds, for whomever else waits for that task.       *)
(***************************************************************************)
EXTENDS Naturals, FiniteSets

CONSTANTS Clients,      \* the clients that list the folder
          Files,        \* the files in it
          Tasks         \* the AsyncTask objects the heap may hold

VARIABLES doc,       \* the folder's DocumentMetadata in the cache
          docError,  \* is there an exception for the folder in mExceptionCache?
          task,      \* task[t]: an AsyncTask
          latest,    \* TaskManager.mTasks for the folder's uri, or NoTask
          call,      \* call[c]: the queryChildDocuments c is in, or NoCall
          cursor,    \* cursor[c]: the cursor c shows, or Closed
          notified   \* notified[c]: has its cursor been notified?

vars == <<doc, docError, task, latest, call, cursor, notified>>

NoTask == "no task"

ASSUME LoadingAssumption == NoTask \notin Tasks

(* DocumentMetadata: mChildren is null or lists the files; stats and       *)
(* statErrors say for which of them mStat and mLastStatException are set;  *)
(* the time stamp only says whether the entry has expired.                 *)
Documents == [cached : BOOLEAN, fresh : BOOLEAN, listed : BOOLEAN, listError : BOOLEAN,
              stats : SUBSET Files, statErrors : SUBSET Files]
Absent   == [cached |-> FALSE, fresh |-> FALSE, listed |-> FALSE, listError |-> FALSE,
             stats |-> {}, statErrors |-> {}]
FreshDoc == [Absent EXCEPT !.cached = TRUE, !.fresh = TRUE]

(* An AsyncTask.  "on" says whether the DocumentMetadata it was built for  *)
(* is still the one in the cache, "todo" which files a LoadStatTask has    *)
(* left, "status" how far the framework has got with it:                   *)
(*   new       PENDING: built, or ignored by the TaskManager               *)
(*   queued    given to the executor                                       *)
(*   running   in doInBackground                                           *)
(*   posted    the result is on its way to the main thread                 *)
(*   reported  its callbacks have run, but getStatus() is still RUNNING    *)
(*   finished  FINISHED                                                    *)
Kinds    == {"document", "children", "stat"}
Statuses == {"new", "queued", "running", "posted", "reported", "finished"}
TaskObjects == [kind : Kinds, status : Statuses, cancelled : BOOLEAN, on : BOOLEAN,
                result : {"null", "failed", "loaded"}, todo : SUBSET Files]
NewTask(kind, todo) ==
    [kind |-> kind, status |-> "new", cancelled |-> FALSE, on |-> kind # "document",
     result |-> "null", todo |-> todo]

(* A task that is FINISHED, or was never there.  Nobody asks anything of   *)
(* it but its status, so the model forgets who refers to it.               *)
Done == [NewTask("document", {}) EXCEPT !.status = "finished"]

Calls  == [at : {"decided", "started", "complete"}, task : Tasks \cup {NoTask}]
NoCall == [at |-> "none", task |-> NoTask]

Cursors == [open : BOOLEAN, loading : BOOLEAN, task : Tasks \cup {NoTask}]
Closed  == [open |-> FALSE, loading |-> FALSE, task |-> NoTask]

(* A task the executor or the main thread has not done with. *)
Working == {"queued", "running", "posted"}

Calling(c) == call[c].at # "none"

-------------------------------------------------------------------------------
Init ==
    /\ doc = Absent
    /\ docError = FALSE
    /\ task = [t \in Tasks |-> Done]
    /\ latest = NoTask
    /\ call = [c \in Clients |-> NoCall]
    /\ cursor = [c \in Clients |-> Closed]
    /\ notified = [c \in Clients |-> FALSE]

(* notifyChange reaches the clients with a cursor. *)
Notify == notified' = [c \in Clients |-> notified[c] \/ cursor[c].open]

(* AsyncTask.cancel(false), which DocumentCursor.close calls unless the    *)
(* task is FINISHED.  A task that does not run yet will never run and      *)
(* posts null; one that runs is not interrupted.                           *)
Cancelled(t) ==
    [task[t] EXCEPT !.cancelled = TRUE,
                    !.status = IF @ \in {"new", "queued"} THEN "posted" ELSE @]
CloseCursor(c, tasks) ==
    IF cursor[c].task = NoTask THEN tasks
                               ELSE [tasks EXCEPT ![cursor[c].task] = Cancelled(cursor[c].task)]

(* A client lists the folder, or lists it again after a notification, also *)
(* before the task that sent it is FINISHED.                               *)
MayQuery(c) ==
    /\ ~Calling(c)
    /\ cursor[c].open => notified[c]

(* A recorded failure is thrown to the caller, once; the client closes the *)
(* cursor it had.                                                          *)
QueryThrows(c) ==
    /\ MayQuery(c)
    /\ \/ /\ ~doc.cached
          /\ docError
          /\ docError' = FALSE
          /\ UNCHANGED doc
       \/ /\ doc.cached
          /\ doc.listError
          /\ doc' = [doc EXCEPT !.listError = FALSE]
          /\ UNCHANGED docError
    /\ task' = CloseCursor(c, task)
    /\ cursor' = [cursor EXCEPT ![c] = Closed]
    /\ notified' = [notified EXCEPT ![c] = FALSE]
    /\ UNCHANGED <<latest, call>>

(* The files without a stat.  Asking whether the last attempt failed also  *)
(* forgets it, so the next query tries again.                              *)
NeedStat == IF doc.listed THEN Files \ doc.stats ELSE {}
ToStat   == NeedStat \ doc.statErrors

(* queryChildDocuments looks at the cache and builds the task it needs.    *)
QueryNeeds ==
    IF ~doc.cached THEN NewTask("document", {})
    ELSE IF ~doc.listed \/ ~doc.fresh THEN NewTask("children", {})
    ELSE NewTask("stat", ToStat)

(* Which of the free objects a new task gets makes no difference.  The     *)
(* heap's size is a bound of the model: a query for which it has no room   *)
(* left is not made.                                                       *)
Free == {t \in Tasks : task[t] = Done}
New  == CHOOSE t \in Free : TRUE

Query(c) ==
    /\ MayQuery(c)
    /\ ~(~doc.cached /\ docError)
    /\ ~doc.listError
    /\ doc' = [doc EXCEPT !.statErrors = @ \ NeedStat]
    /\ notified' = [notified EXCEPT ![c] = FALSE]
    /\ IF QueryNeeds.kind = "stat" /\ QueryNeeds.todo = {}
       THEN /\ call' = [call EXCEPT ![c] = [at |-> "complete", task |-> NoTask]]
            /\ UNCHANGED task
       ELSE /\ Free # {}
            /\ task' = [task EXCEPT ![New] = QueryNeeds]
            /\ call' = [call EXCEPT ![c] = [at |-> "decided", task |-> New]]
    /\ UNCHANGED <<docError, latest, cursor>>

(* Mutation of MayRun: a task that has been cancelled no longer counts. *)
MayRunBesideCancelled == latest = NoTask \/ task[latest].cancelled

(* TaskManager.runTask ignores a task while the latest one for the uri is  *)
(* not FINISHED.                                                           *)
MayRun == latest = NoTask

RunTask(c) ==
    /\ call[c].at = "decided"
    /\ IF MayRun
       THEN /\ latest' = call[c].task
            /\ task' = [task EXCEPT ![call[c].task].status = "queued"]
       ELSE UNCHANGED <<latest, task>>
    /\ call' = [call EXCEPT ![c].at = "started"]
    /\ UNCHANGED <<doc, docError, cursor, notified>>

(* setNotificationUri, and the client replaces the cursor it had: closing  *)
(* that one may cancel the very task the new cursor waits for.             *)
Return(c) ==
    /\ call[c].at \in {"started", "complete"}
    /\ task' = CloseCursor(c, task)
    /\ cursor' = [cursor EXCEPT ![c] = [open |-> TRUE, loading |-> call[c].at = "started",
                                        task |-> call[c].task]]
    /\ call' = [call EXCEPT ![c] = NoCall]
    /\ UNCHANGED <<doc, docError, latest, notified>>

(* The client goes to another folder (external). *)
Leave(c) ==
    /\ cursor[c].open
    /\ ~Calling(c)
    /\ task' = CloseCursor(c, task)
    /\ cursor' = [cursor EXCEPT ![c] = Closed]
    /\ notified' = [notified EXCEPT ![c] = FALSE]
    /\ UNCHANGED <<doc, docError, latest, call>>

(* A file is created, renamed or deleted: the provider notifies the        *)
(* folder.  What that does to the cache is left to the next module.        *)
Change ==
    /\ Notify
    /\ UNCHANGED <<doc, docError, task, latest, call, cursor>>

(* CACHE_EXPIRATION has passed. *)
Expire ==
    /\ doc.cached
    /\ doc.fresh
    /\ doc' = [doc EXCEPT !.fresh = FALSE]
    /\ UNCHANGED <<docError, task, latest, call, cursor, notified>>

-------------------------------------------------------------------------------
(* The pool thread takes the task up. *)
Start(t) ==
    /\ task[t].status = "queued"
    /\ task' = [task EXCEPT ![t].status = "running"]
    /\ UNCHANGED <<doc, docError, latest, call, cursor, notified>>

Ended(t, result) == [task EXCEPT ![t].status = "posted", ![t].result = result]

(* The tasks of these kinds were built for objects that are not in the     *)
(* cache any more.                                                         *)
Orphaned(tasks, kinds) ==
    [u \in Tasks |-> IF tasks[u].kind \in kinds THEN [tasks[u] EXCEPT !.on = FALSE]
                                                ELSE tasks[u]]

(* LoadDocumentTask.run: the result is not shared before onSucceeded. *)
RunDocument(t) ==
    /\ task[t].status = "running"
    /\ task[t].kind = "document"
    /\ \E result \in {"loaded", "failed"} : task' = Ended(t, result)
    /\ UNCHANGED <<doc, docError, latest, call, cursor, notified>>

(* LoadChildrenTask.run: loadChildren changes the shared metadata itself;  *)
(* the new children have no stats.  It may fail before they are set, and   *)
(* also after that, when the folder is closed.                             *)
RunChildren(t) ==
    /\ task[t].status = "running"
    /\ task[t].kind = "children"
    /\ \E set, fails \in BOOLEAN :
          LET ended == Ended(t, IF fails THEN "failed" ELSE "loaded") IN
          /\ set \/ fails
          /\ task' = IF set /\ task[t].on THEN Orphaned(ended, {"stat"}) ELSE ended
          /\ doc' = IF ~task[t].on THEN doc
                    ELSE [doc EXCEPT !.listed = @ \/ set,
                                     !.fresh = @ \/ set,
                                     !.stats = IF set THEN {} ELSE @,
                                     !.statErrors = IF set THEN {} ELSE @,
                                     !.listError = @ \/ fails]
    /\ UNCHANGED <<docError, latest, call, cursor, notified>>

(* Mutation of StatLoaded: the stat goes to whatever the cache holds now. *)
StatLoadedAnyway(t, f) == [doc EXCEPT !.stats = @ \cup {f}]

(* DocumentMetadata.loadStat: the child objects may have been replaced.    *)
StatLoaded(t, f) == IF task[t].on THEN [doc EXCEPT !.stats = @ \cup {f}] ELSE doc

(* LoadStatTask.doInBackground, one file: a failure is only remembered; a  *)
(* cancelled task stops after the next success.                            *)
RunStat(t) ==
    /\ task[t].status = "running"
    /\ task[t].kind = "stat"
    /\ \E f \in task[t].todo :
          LET rest == [task[t] EXCEPT !.todo = @ \ {f}]
              end  == [rest EXCEPT !.status = "posted", !.result = "loaded"] IN
          \/ /\ doc' = StatLoaded(t, f)
             /\ task' = [task EXCEPT ![t] = IF @.cancelled \/ rest.todo = {} THEN end ELSE rest]
          \/ /\ doc' = IF task[t].on THEN [doc EXCEPT !.statErrors = @ \cup {f}] ELSE doc
             /\ task' = [task EXCEPT ![t] = IF rest.todo = {} THEN end ELSE rest]
    /\ UNCHANGED <<docError, latest, call, cursor, notified>>

(* Mutation of Tells: a load that failed is not reported. *)
TellsSuccess(t) == task[t].kind = "stat" \/ task[t].result = "loaded"

(* Who hears of the end of a task: onPostExecute always calls back; the    *)
(* onCancelled of the document and children tasks only if there is a       *)
(* result, which a failed or never started task does not have.             *)
Tells(t) == ~task[t].cancelled \/ task[t].kind = "stat" \/ task[t].result = "loaded"

(* onPostExecute or onCancelled on the main thread. *)
Report(t) ==
    /\ task[t].status = "posted"
    /\ IF task[t].kind = "document" /\ task[t].result = "loaded"
       THEN doc' = FreshDoc
       ELSE UNCHANGED doc
    /\ docError' = (\/ docError
                    \/ /\ task[t].kind = "document"
                       /\ task[t].result = "failed"
                       /\ ~task[t].cancelled)
    /\ IF Tells(t) THEN Notify ELSE UNCHANGED notified
    /\ LET reported == [task EXCEPT ![t].status = "reported"] IN
       task' = IF task[t].kind = "document" /\ task[t].result = "loaded"
               THEN Orphaned(reported, {"children", "stat"}) ELSE reported
    /\ UNCHANGED <<latest, call, cursor>>

Forget(t) ==
    /\ task' = [task EXCEPT ![t] = Done]
    /\ latest' = IF latest = t THEN NoTask ELSE latest
    /\ LET Without(r) == IF r.task = t THEN [r EXCEPT !.task = NoTask] ELSE r IN
       /\ call' = [c \in Clients |-> Without(call[c])]
       /\ cursor' = [c \in Clients |-> Without(cursor[c])]

(* Mutation of Finish: the status of a cancelled task is left as it is. *)
FinishUnlessCancelled(t) ==
    /\ task[t].status = "reported"
    /\ ~task[t].cancelled
    /\ Forget(t)
    /\ UNCHANGED <<doc, docError, notified>>

(* AsyncTask.finish sets FINISHED after the callback (external). *)
Finish(t) ==
    /\ task[t].status = "reported"
    /\ Forget(t)
    /\ UNCHANGED <<doc, docError, notified>>

Work(t) == Start(t) \/ RunDocument(t) \/ RunChildren(t) \/ RunStat(t) \/ Report(t) \/ Finish(t)

Next ==
    \/ \E c \in Clients : Query(c) \/ QueryThrows(c) \/ RunTask(c) \/ Return(c) \/ Leave(c)
    \/ \E t \in Tasks : \/ Start(t)
                        \/ RunDocument(t)
                        \/ RunChildren(t)
                        \/ RunStat(t)
                        \/ Report(t)
                        \/ Finish(t)
    \/ Change
    \/ Expire

Spec == Init /\ [][Next]_vars

(* The executor starts every task, every operation on the server ends, the *)
(* main thread handles its messages and a binder thread goes on with its   *)
(* query.  Clients owe the provider nothing.                               *)
Fairness == /\ \A t \in Tasks : WF_vars(Work(t))
            /\ \A c \in Clients : WF_vars(RunTask(c) \/ Return(c))
FairSpec == Spec /\ Fairness

-------------------------------------------------------------------------------
TypeOK ==
    /\ doc \in Documents
    /\ docError \in BOOLEAN
    /\ task \in [Tasks -> TaskObjects]
    /\ latest \in Tasks \cup {NoTask}
    /\ call \in [Clients -> Calls \cup {NoCall}]
    /\ cursor \in [Clients -> Cursors]
    /\ notified \in [Clients -> BOOLEAN]
    /\ \A c \in Clients : call[c].task # NoTask => call[c].task # cursor[c].task
    /\ doc.stats # {} => doc.listed

(* "Ignore this task ... to avoid running multiple updates at the same     *)
(* time": of the tasks for one folder at most one has begun and not ended, *)
(* even if that one is cancelled and a new query needs another.            *)
OneUpdateAtATime ==
    Cardinality({t \in Tasks : task[t].status \in {"queued", "running"}}) <= 1

(* Whoever shows the cursor that holds the task doing the work hears of    *)
(* its end, whether it succeeds or fails and whatever other clients do     *)
(* with their cursors: no close but its own cancels the task.              *)
HolderHears ==
    [][\A t \in Tasks, c \in Clients :
          task[t].status = "posted" /\ task'[t].status = "reported" /\ cursor[c].task = t
              => notified'[c]]_vars

(* "If it failed we still should notify the remote side that the loading   *)
(* failed": every client that waits hears of the end of a failed load.     *)
(* The code does not keep this for a load that somebody has cancelled.     *)
FailureIsTold ==
    [][\A t \in Tasks, c \in Clients :
          ( /\ task[t].kind = "children"
            /\ task[t].result = "failed"
            /\ task[t].status = "posted" /\ task'[t].status = "reported"
            /\ cursor[c].loading )
              => notified'[c]]_vars

(* Every task given to the executor becomes FINISHED, also when it is      *)
(* cancelled or fails; otherwise the TaskManager would ignore every later  *)
(* task for the folder.                                                    *)
TasksFinish ==
    \A t \in Tasks : (task[t].status = "queued") ~> (task[t].status = "finished")
===============================================================================
