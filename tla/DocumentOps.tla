------------------------------- MODULE DocumentOps -------------------------------
(***************************************************************************)
(* The operations of SambaDocumentsProvider that change documents: create, *)
(* rename, move and delete, with the queries and loads that fill the       *)
(* DocumentCache.  Each talks to the server first and changes the cache    *)
(* afterwards, on threads of their own and without a lock, so between the  *)
(* two any other operation may come; and other machines use the share too. *)
(*                                                                         *)
(* A call that fails before it has changed anything on the server leaves   *)
(* no trace and is not a step.  Stats are left out (see DocumentLoading),  *)
(* and so is the time stamp: an entry may always have expired.             *)
(***************************************************************************)
EXTENDS Naturals, SequencesExt

CONSTANTS Names,     \* of documents
          Paths,     \* the documents, as sequences of names; <<>> is the share
          Depth,     \* bound: folders lie above this depth
          Changes,   \* bound: how many documents are created, renamed and deleted
          Threads,   \* binder threads and AsyncTasks
          Others     \* may other machines change the share?

VARIABLES remote,    \* remote[u]: what the server has at u
          cache,     \* cache[u]: the DocumentMetadata in the DocumentCache, or NoDoc
          job,       \* job[t]: the operation thread t is in, or NoJob
          excused,   \* folders whose listing may differ from the server (see below)
          changes    \* how many operations have begun

vars == <<remote, cache, job, excused, changes>>

ASSUME PathsAssumption ==
    /\ <<>> \in Paths
    /\ Paths \subseteq Seq(Names)
    /\ \A u \in Paths : \A n \in 0..Len(u) : SubSeq(u, 1, n) \in Paths
    /\ {Depth, Changes} \subseteq Nat
    /\ Others \in BOOLEAN

(* buildParentUri.  The parent of a share is its server, which has no row. *)
Parent(u) == IF u = <<>> THEN <<>> ELSE Front(u)
Kids(u)   == {v \in Paths : v # <<>> /\ Parent(v) = u}
Under(u)  == {v \in Paths : IsPrefix(u, v)}

Kinds   == {"none", "file", "dir"}
Entries == [uri : Paths, kind : {"file", "dir"}]
Entry(u, kind) == [uri |-> u, kind |-> kind]

(* What readDir finds in a folder on the server. *)
OnServer(u) == {Entry(v, remote[v]) : v \in {w \in Kids(u) : remote[w] # "none"}}

(* DocumentMetadata: mChildren is null unless listed.  The children are    *)
(* the documents mChildren maps their uris to.                             *)
Docs  == [kind : Kinds, listed : BOOLEAN, children : SUBSET Entries]
NoDoc == [kind |-> "none", listed |-> FALSE, children |-> {}]
NewDoc(kind) == [NoDoc EXCEPT !.kind = kind]
Cached(u) == cache[u] # NoDoc

(* A job.  "late" is a history variable: since it talked to the server,    *)
(* somebody else has changed what it is about.  A load has the metadata    *)
(* object it works on: uri is the object's mUri, and "on" says whether it  *)
(* is in the cache; "got" are the children it has read.  A delete has the  *)
(* folders it is in, each with the children it has still to delete, and    *)
(* in "to" what it has just deleted on the server.  "existed" says whether *)
(* a file was there before it was created.                                 *)
Frames == [uri : Paths, rest : SUBSET Entries]
NoJob  == [what |-> "none", at |-> "idle", uri |-> <<>>, to |-> <<>>, kind |-> "none",
           on |-> FALSE, got |-> {}, folders |-> <<>>, existed |-> FALSE, late |-> FALSE]
Job(what, at, u) == [NoJob EXCEPT !.what = what, !.at = at, !.uri = u, !.to = u]

Free(t) == job[t].what = "none"
Is(t, what, at) == job[t].at = at /\ job[t].what = what

-------------------------------------------------------------------------------
(* The share with any tree in it: a document lies in folders all the way   *)
(* up.  The process has just started.                                      *)
Trees == {r \in [Paths -> Kinds] :
            /\ r[<<>>] = "dir"
            /\ \A u \in Paths : /\ r[u] = "dir" => Len(u) < Depth
                                /\ r[u] # "dir" => \A v \in Under(u) \ {u} : r[v] = "none"}

Init ==
    /\ remote \in Trees
    /\ cache = [u \in Paths |-> NoDoc]
    /\ job = [t \in Threads |-> NoJob]
    /\ excused = {}
    /\ changes = 0

(* DocumentCache.put: also into the parent's children, if it has any.      *)
Put(docs, u, doc) ==
    [p \in Paths |->
        IF p = u THEN doc
        ELSE IF p = Parent(u) /\ docs[p].listed
        THEN [docs[p] EXCEPT !.children = {e \in @ : e.uri # u} \cup {Entry(u, doc.kind)}]
        ELSE docs[p]]

(* Mutation of Drop: the parent keeps the child. *)
DropHere(docs, u) == [docs EXCEPT ![u] = NoDoc]

(* DocumentCache.remove *)
Drop(docs, u) ==
    [p \in Paths |->
        IF p = u THEN NoDoc
        ELSE IF p = Parent(u) THEN [docs[p] EXCEPT !.children = {e \in @ : e.uri # u}]
        ELSE docs[p]]

(* Mutation of Displaced: a load is taken to work on the cache's object.   *)
DisplacedNone(jobs, us) == jobs

(* The cache gets other objects, or none, at us: a load of one of those    *)
(* goes on with an object nobody sees.                                     *)
Displaced(jobs, us) ==
    [t \in Threads |->
        IF jobs[t].on /\ jobs[t].uri \in us
        THEN [jobs[t] EXCEPT !.on = FALSE,
                             !.got = IF jobs[t].at = "listed" /\ cache[jobs[t].uri].listed
                                     THEN @ \cap cache[jobs[t].uri].children ELSE @]
        ELSE jobs[t]]

(* Has job j heard from the server, and is a change at x one of what it    *)
(* was told?  A load is about the children of its folder, the others about *)
(* documents and what is in them.                                          *)
About(j, x) ==
    IF j.what = "load"
    THEN j.at \in {"read", "listed"} /\ (Parent(x) = j.uri \/ IsPrefix(x, j.uri))
    ELSE /\ j.at \in {"done", "notFound"}
         /\ \E y \in {j.uri, j.to} : IsPrefix(y, x) \/ IsPrefix(x, y)

(* Jobs after somebody has changed xs on the server. *)
Overtaken(jobs, xs) ==
    [t \in Threads |-> IF \E x \in xs : About(jobs[t], x)
                       THEN [jobs[t] EXCEPT !.late = TRUE] ELSE jobs[t]]

Starts(t, j, xs) == job' = [Overtaken(job, xs) EXCEPT ![t] = j]
Ends(t, jobs)    == job' = [jobs EXCEPT ![t] = NoJob]

(* Excuse the listings of us, as long as the cache has them, ...           *)
Excuse(us) == excused' = {u \in excused \cup us : cache'[u].listed}

(* ... and those that a late job may have spoiled. *)
Spoiled(t) == IF job[t].late THEN {Parent(job[t].uri), Parent(job[t].to)} ELSE {}

-------------------------------------------------------------------------------
(* createDocument, on the server: createFile truncates a file that is      *)
(* there, mkdir refuses whatever is there.                                 *)
CreateOnServer(t) ==
    /\ Free(t)
    /\ changes < Changes
    /\ changes' = changes + 1
    /\ \E u \in Paths \ {<<>>}, kind \in {"file", "dir"} :
          /\ remote[Parent(u)] = "dir"
          /\ kind = "dir" => Len(u) < Depth
          /\ remote[u] = "none" \/ (kind = "file" /\ remote[u] = "file")
          /\ remote' = [remote EXCEPT ![u] = kind]
          /\ Starts(t, [Job("create", "done", u) EXCEPT !.kind = kind,
                                                        !.existed = remote[u] # "none"],
                    IF remote[u] = "none" THEN {u} ELSE {})
    /\ UNCHANGED <<cache, excused>>

(* ... and in the cache.  An entry that is there is taken for the file     *)
(* that was truncated, and its parent is not told; an entry nobody removed *)
(* when its document disappeared makes the parent's listing incomplete.    *)
CreateInCache(t) ==
    /\ Is(t, "create", "done")
    /\ LET u == job[t].uri IN
       IF Cached(u)
       THEN /\ cache' = [cache EXCEPT ![u].listed = FALSE, ![u].children = {}]
            /\ Excuse(Spoiled(t) \cup (IF job[t].existed THEN {} ELSE {Parent(u)}))
            /\ Ends(t, job)
       ELSE /\ cache' = Put(cache, u, NewDoc(job[t].kind))
            /\ Excuse(Spoiled(t))
            /\ Ends(t, job)
    /\ UNCHANGED <<remote, changes>>

(* queryDocument and LoadDocumentTask: a document that is not in the cache *)
(* is looked up on the server ...                                          *)
QueryOnServer(t) ==
    /\ Free(t)
    /\ \E u \in Paths :
          /\ ~Cached(u)
          /\ remote[u] # "none"
          /\ Starts(t, [Job("query", "done", u) EXCEPT !.kind = remote[u]], {})
    /\ UNCHANGED <<remote, cache, excused, changes>>

(* ... and then put into it. *)
QueryInCache(t) ==
    /\ Is(t, "query", "done")
    /\ cache' = Put(cache, job[t].uri, NewDoc(job[t].kind))
    /\ Excuse(Spoiled(t))
    /\ Ends(t, Displaced(job, {job[t].uri}))
    /\ UNCHANGED <<remote, changes>>

-------------------------------------------------------------------------------
(* Where p goes when "from" becomes "to", and the server after that.       *)
Moved(p, from, to) == to \o SubSeq(p, Len(from) + 1, Len(p))
Renamed(from, to) ==
    [p \in Paths |->
        IF IsPrefix(to, p) /\ Moved(p, to, from) \in Paths THEN remote[Moved(p, to, from)]
        ELSE IF IsPrefix(from, p) \/ IsPrefix(to, p) THEN "none"
        ELSE remote[p]]

(* renameDocument gives a document another name in its folder,             *)
(* moveDocument moves it to another folder under its name; neither takes a *)
(* share.  The server refuses a target that exists.  Everything that is    *)
(* moved must have a place in Paths, and folders one above Depth.          *)
RenameOnServer(t) ==
    /\ Free(t)
    /\ changes < Changes
    /\ changes' = changes + 1
    /\ \E u, to \in Paths \ {<<>>} :
          /\ Parent(u) = Parent(to) \/ Last(u) = Last(to)
          /\ remote[u] # "none"
          /\ remote[to] = "none"
          /\ remote[Parent(to)] = "dir"
          /\ ~IsPrefix(u, to)
          /\ \A v \in Under(u) :
                /\ remote[v] # "none" => Moved(v, u, to) \in Paths
                /\ remote[v] = "dir" => Len(Moved(v, u, to)) < Depth
          /\ remote' = Renamed(u, to)
          /\ Starts(t, [Job("rename", "done", u) EXCEPT !.to = to], {u, to})
    /\ UNCHANGED <<cache, excused>>

Shown(u) == {e.uri : e \in cache[u].children}

(* The object in the cache gets the new uri, is removed from its old place *)
(* and put into the new one.  It keeps its children, under their old uris, *)
(* which stay in the cache as well; a document that is not in the cache    *)
(* does not get into the listing of its new folder, nor, if a load that    *)
(* failed has listed it, out of that of its old one.  What is in a folder  *)
(* that is moved keeps its entries and listings under the old uris, even   *)
(* when the folder itself is not in the cache.                             *)
RenameInCache(t) ==
    /\ Is(t, "rename", "done")
    /\ LET u    == job[t].uri
           to   == job[t].to
           jobs == Displaced(job, {to}) IN
       IF Cached(u)
       THEN /\ cache' = Put(Drop(cache, u), to, cache[u])
            /\ Ends(t, [s \in Threads |-> IF jobs[s].on /\ jobs[s].uri = u
                                          THEN [jobs[s] EXCEPT !.uri = to, !.to = to, !.late = TRUE] ELSE jobs[s]])
            /\ Excuse(Spoiled(t) \cup Under(u) \cup {to})
       ELSE /\ UNCHANGED cache
            /\ Ends(t, job)
            /\ Excuse(Spoiled(t) \cup Under(u) \cup {Parent(to)}
                         \cup {p \in {Parent(u)} : u \in Shown(p)})
    /\ UNCHANGED <<remote, changes>>

-------------------------------------------------------------------------------
(* deleteDocument asks the server what the document is.  It is offered for *)
(* every row, that of a share included.                                    *)
DeleteLooks(t) ==
    /\ Free(t)
    /\ changes < Changes
    /\ changes' = changes + 1
    /\ \E u \in Paths :
          \/ /\ remote[u] = "none"
             /\ job' = [job EXCEPT ![t] = Job("delete", "notFound", u)]
          \/ /\ remote[u] = "file"
             /\ job' = [job EXCEPT ![t] = Job("delete", "unlink", u)]
          \/ /\ remote[u] = "dir"
             /\ job' = [job EXCEPT ![t] = Job("delete", "enter", u)]
    /\ UNCHANGED <<remote, cache, excused>>

(* A call for something that is not there throws FileNotFoundException.    *)
NotFound(t) ==
    /\ remote[job[t].to] = "none"
    /\ job' = [job EXCEPT ![t].at = "notFound", ![t].late = FALSE]
    /\ UNCHANGED <<remote, cache, excused, changes>>

(* How t goes on in the innermost of these folders: with any of the        *)
(* children that are left, or, when there is none, with the folder itself. *)
GoingOn(t, folders) ==
    LET top == Last(folders) IN
    IF top.rest = {}
    THEN {[job[t] EXCEPT !.at = "rmdir", !.to = top.uri, !.folders = Front(folders)]}
    ELSE {[job[t] EXCEPT !.at = IF e.kind = "dir" THEN "enter" ELSE "unlink",
                         !.to = e.uri,
                         !.folders = Front(folders) \o <<[top EXCEPT !.rest = @ \ {e}]>>] :
             e \in top.rest}

(* recursiveDeleteFolder begins with the children the server has now.      *)
DeleteEnters(t) ==
    /\ Is(t, "delete", "enter")
    /\ LET u == job[t].to IN
       \/ /\ remote[u] = "dir"
          /\ \E j \in GoingOn(t, Append(job[t].folders, [uri |-> u, rest |-> OnServer(u)])) :
                job' = [job EXCEPT ![t] = j]
          /\ UNCHANGED <<remote, cache, excused, changes>>
       \/ NotFound(t)

(* unlink or rmdir.  The server refuses to remove a share, a folder that   *)
(* is not empty, or something of the other kind.                           *)
DeleteOnServer(t) ==
    /\ job[t].what = "delete"
    /\ LET u == job[t].to IN
       \/ /\ job[t].at \in {"unlink", "rmdir"}
          /\ NotFound(t)
       \/ /\ \/ job[t].at = "unlink" /\ remote[u] = "file"
             \/ job[t].at = "rmdir" /\ remote[u] = "dir" /\ u # <<>> /\ OnServer(u) = {}
          /\ remote' = [remote EXCEPT ![u] = "none"]
          /\ job' = [Overtaken(job, {u}) EXCEPT ![t] = [job[t] EXCEPT !.at = "done", !.late = FALSE]]
          /\ UNCHANGED <<cache, excused, changes>>

(* Whenever the server refuses or does not answer, the operation ends.     *)
DeleteFails(t) ==
    /\ job[t].what = "delete"
    /\ job[t].at \in {"enter", "unlink", "rmdir"}
    /\ Ends(t, job)
    /\ UNCHANGED <<remote, cache, excused, changes>>

(* What has been deleted leaves the cache, at once.                        *)
DeleteInCache(t) ==
    /\ Is(t, "delete", "done")
    /\ cache' = Drop(cache, job[t].to)
    /\ Excuse(Spoiled(t))
    /\ LET jobs == Displaced(job, {job[t].to}) IN
       IF job[t].folders = <<>>
       THEN Ends(t, jobs)
       ELSE \E j \in GoingOn(t, job[t].folders) : job' = [jobs EXCEPT ![t] = j]
    /\ UNCHANGED <<remote, changes>>

(* The catch clause for FileNotFoundException: whichever document was not  *)
(* found, the one to delete is taken out of the cache.                     *)
DeleteCatches(t) ==
    /\ Is(t, "delete", "notFound")
    /\ cache' = Drop(cache, job[t].uri)
    /\ Excuse(Spoiled(t) \cup (IF job[t].to = job[t].uri THEN {} ELSE {Parent(job[t].uri)}))
    /\ Ends(t, Displaced(job, {job[t].uri}))
    /\ UNCHANGED <<remote, changes>>

-------------------------------------------------------------------------------
(* A query of a folder that is not listed, or has expired, builds a        *)
(* LoadChildrenTask; the TaskManager lets one task run for each uri.       *)
LoadStarts(t) ==
    /\ Free(t)
    /\ \E u \in Paths :
          /\ cache[u].kind = "dir"
          /\ \A s \in Threads : ~(job[s].what = "load" /\ job[s].uri = u)
          /\ job' = [job EXCEPT ![t] = [Job("load", "queued", u) EXCEPT !.on = TRUE]]
    /\ UNCHANGED <<remote, cache, excused, changes>>

(* loadChildren: read the folder the object stands for now ...             *)
LoadReads(t) ==
    /\ Is(t, "load", "queued")
    /\ IF remote[job[t].uri] = "dir"
       THEN job' = [job EXCEPT ![t].at = "read", ![t].got = OnServer(job[t].uri),
                               ![t].late = FALSE]
       ELSE Ends(t, job)
    /\ UNCHANGED <<remote, cache, excused, changes>>

LoadFails(t) ==
    /\ Is(t, "load", "queued")
    /\ Ends(t, job)
    /\ UNCHANGED <<remote, cache, excused, changes>>

(* ... and replace its children.  Until it reports, the job is in progress.*)
LoadSets(t) ==
    /\ Is(t, "load", "read")
    /\ LET u == job[t].uri IN
       IF job[t].on
       THEN /\ cache' = [cache EXCEPT ![u].listed = TRUE, ![u].children = job[t].got]
            /\ excused' = excused \ {u}
       ELSE UNCHANGED <<cache, excused>>
    /\ job' = [job EXCEPT ![t].at = "listed"]
    /\ UNCHANGED <<remote, changes>>

(* LoadChildrenTask.onFinish, on the main thread: every child it has       *)
(* listed, and nobody has taken out of the list since, gets into the cache.*)
Listed(t) ==
    LET u == job[t].uri IN
    IF job[t].on /\ cache[u].listed THEN job[t].got \cap cache[u].children ELSE job[t].got

PutAll(docs, es) ==
    [p \in Paths |->
        IF \E e \in es : e.uri = p THEN NewDoc((CHOOSE e \in es : e.uri = p).kind)
        ELSE IF docs[p].listed
        THEN LET new == {e \in es : Parent(e.uri) = p} IN
             [docs[p] EXCEPT !.children = {e \in @ : \A n \in new : n.uri # e.uri} \cup new]
        ELSE docs[p]]

LoadReports(t) ==
    /\ Is(t, "load", "listed")
    /\ cache' = PutAll(cache, Listed(t))
    /\ Ends(t, Displaced(job, {e.uri : e \in Listed(t)}))
    /\ Excuse(IF job[t].late THEN {job[t].uri} \cup {Parent(e.uri) : e \in Listed(t)} ELSE {})
    /\ UNCHANGED <<remote, changes>>

(* The folder cannot be closed: onFailed, after the children are set.      *)
LoadCannotClose(t) ==
    /\ Is(t, "load", "listed")
    /\ Ends(t, job)
    /\ cache' = cache
    /\ Excuse(IF job[t].late THEN {job[t].uri} ELSE {})
    /\ UNCHANGED <<remote, changes>>

-------------------------------------------------------------------------------
(* Another machine creates or deletes a document (external).               *)
OtherMachine ==
    /\ Others
    /\ changes < Changes
    /\ changes' = changes + 1
    /\ \E u \in Paths \ {<<>>}, kind \in Kinds :
          /\ (remote[u] = "none") # (kind = "none")
          /\ remote' = [remote EXCEPT ![u] = kind]
          /\ remote' \in Trees
          /\ job' = Overtaken(job, {u})
          /\ UNCHANGED cache
          /\ Excuse({Parent(u), u})

Next ==
    \/ \E t \in Threads :
          \/ CreateOnServer(t)
          \/ CreateInCache(t)
          \/ QueryOnServer(t)
          \/ QueryInCache(t)
          \/ RenameOnServer(t)
          \/ RenameInCache(t)
          \/ DeleteLooks(t)
          \/ DeleteEnters(t)
          \/ DeleteOnServer(t)
          \/ DeleteFails(t)
          \/ DeleteInCache(t)
          \/ DeleteCatches(t)
          \/ LoadStarts(t)
          \/ LoadReads(t)
          \/ LoadFails(t)
          \/ LoadSets(t)
          \/ LoadCannotClose(t)
          \/ LoadReports(t)
    \/ OtherMachine

Spec == Init /\ [][Next]_vars

-------------------------------------------------------------------------------
Ats == {"idle", "done", "notFound", "unlink", "enter", "rmdir", "queued", "read",
        "listed"}
Jobs == [what : {"none", "create", "query", "rename", "delete", "load"}, at : Ats,
         uri : Paths, to : Paths, kind : Kinds, on : BOOLEAN, got : SUBSET Entries,
         folders : Seq(Frames), existed : BOOLEAN, late : BOOLEAN]

(* A load that works on an object of the cache works on a folder.          *)
TypeOK ==
    /\ remote \in Trees
    /\ cache \in [Paths -> Docs]
    /\ job \in [Threads -> Jobs]
    /\ excused \subseteq {u \in Paths : cache[u].listed}
    /\ changes \in 0..Changes
    /\ \A t \in Threads : job[t].on => cache[job[t].uri].kind = "dir"

(* What the UI shows of a folder is what the server has there, whatever    *)
(* sequence of operations and failures led to it, but for documents that   *)
(* somebody is working on, and for the excused folders: those that another *)
(* machine changed, that two operations changed at once, or that one of    *)
(* the known flaws spoiled, each until it is loaded again.                 *)
InProgress(u) ==
    \E t \in Threads :
        /\ job[t].what # "none"
        /\ \E y \in {job[t].uri, job[t].to} :
              u \in {y, Parent(y)} \/ (job[t].what = "rename" /\ u \in Under(y))

ListingExact ==
    \A u \in Paths :
        cache[u].listed /\ u \notin excused /\ ~InProgress(u)
            => Shown(u) = {e.uri : e \in OnServer(u)}

(* deleteDocument catches FileNotFoundException, says that the document    *)
(* "is not found. No need to delete it." and reports success: then the     *)
(* document should be gone.                                                *)
NotFoundMeansGone ==
    [][\A t \in Threads :
         job[t].at # "notFound" /\ job'[t].at = "notFound"
           => remote[job'[t].uri] = "none"]_vars
===============================================================================
