--------------------------- MODULE SambaSessionProofs ---------------------------
(***************************************************************************)
(* Proofs about SambaSession, for any threads, names and settings, and     *)
(* files of any size.                                                      *)
(***************************************************************************)
EXTENDS SambaSession, TLAPS

(***************************************************************************)
(* The native session.  Good says what TypeOK, OffsetsAgree and            *)
(* TruncationIsTold need to know of one thread to be inductive: an offset  *)
(* in the object that is behind the one of the descriptor, but never       *)
(* ahead of it, and a listing that is whole as long as its handle is valid.*)
(***************************************************************************)
Good(k) ==
    /\ k \in Threads
    /\ k.at = "using" => k.name \in Names
    /\ k.mOffset <= k.offset
    /\ k.at = "using" /\ "append" \notin k.flags => k.mOffset = k.offset
    /\ k.what = "load" /\ k.at = "reading" /\ k.handle = "open" => k.listed \cup k.left = k.whole
    /\ k.what = "load" /\ k.at = "listed" /\ k.handle = "open" => k.listed = k.whole
    /\ k.what = "load" /\ k.at = "returned" /\ k.outcome = "ok" => k.listed = k.whole

ThreadInv == \A u \in Users : Good(thread[u])

(* Freed memory is in reach only once an Init has failed. *)
MemoryInv == (context = "freed" => initFailed) /\ (undefined # {} => initFailed)

NativeInv == NativeTypeOK /\ ThreadInv /\ MemoryInv

(***************************************************************************)
(* The configuration.  A file that was not spoilt holds what was chosen,   *)
(* but for what the task has yet to write.                                 *)
(***************************************************************************)
ConfInv ==
    /\ ConfTypeOK
    /\ ~up => conf = {}
    /\ task.at = "queued" => task.what = "sync"
    /\ task.what = "flush" /\ task.at = "read" => conf = Defaults
    /\ task.at # "writing" => task.rest = {}
    /\ task.at \in {"writing", "written"} => home.exists
    /\ ~spoilt /\ home.exists => home.has \cup task.rest = chosen
    /\ up /\ ~Pending /\ ~spoilt => home.exists

(* The session knows the file as it was before the task began to write it. *)
LoadedInv ==
    /\ handler => up
    /\ handler /\ task.at \notin {"writing", "written"} => loaded = home

SessionInv == NativeInv /\ ConfInv /\ LoadedInv

-------------------------------------------------------------------------------
(***************************************************************************)
(* Calls.  A call changes one thread, perhaps the folder, and of the       *)
(* session at most what is undefined.                                      *)
(***************************************************************************)
FolderTypes ==
    /\ server \in [Names -> {"none", "file", "dir"}]
    /\ size \in [Names -> 0..MaxSize]

LEMMA NothingType == Nothing \in Threads
BY SessionAssumption DEF Nothing, Threads, Outcomes

LEMMA GoodReturn ==
    \A o \in Outcomes :
        Good([Nothing EXCEPT !.outcome = o]) /\ [Nothing EXCEPT !.outcome = o].handle = "none"
<1> SUFFICES ASSUME NEW o \in Outcomes
             PROVE  /\ Good([Nothing EXCEPT !.outcome = o])
                    /\ [Nothing EXCEPT !.outcome = o].handle = "none"
  OBVIOUS
<1> DEFINE k == [Nothing EXCEPT !.outcome = o]
<1>1. /\ k.what = "nothing" /\ k.at = "returned" /\ k.handle = "none" /\ k.mOffset = 0 /\ k.offset = 0
      /\ k \in Threads
  BY SessionAssumption DEF Nothing, Threads
<1> HIDE DEF k
<1>2. Good(k)
  BY <1>1 DEF Good
<1> QED BY <1>1, <1>2 DEF k

LEMMA SeenOutcome == \A err, denials : Seen(err, denials) \in Outcomes
BY DEF Seen, Outcomes

LEMMA OneThread ==
    ASSUME NativeInv, NEW u \in Users, NEW k, thread' = [thread EXCEPT ![u] = k],
           Good(k), k.handle = "open" => handler,
           UNCHANGED <<handler, context, loaded, initFailed, credential>>,
           UNCHANGED undefined \/ Uses(u),
           FolderTypes'
    PROVE  NativeInv'
<1>1. thread \in [Users -> Threads] /\ k \in Threads
  BY DEF NativeInv, NativeTypeOK, Good
<1>2. thread' \in [Users -> Threads] /\ thread'[u] = k /\ \A v \in Users \ {u} : thread'[v] = thread[v]
  BY <1>1
<1>3. undefined' \subseteq Undefined /\ MemoryInv'
  BY DEF NativeInv, NativeTypeOK, MemoryInv, Uses, Undefined
<1>4. \A v \in Users : thread'[v].handle = "open" => handler
  BY <1>2 DEF NativeInv, NativeTypeOK
<1>5. NativeTypeOK'
  BY <1>2, <1>3, <1>4 DEF NativeInv, NativeTypeOK, FolderTypes
<1>6. ThreadInv'
  <2>1. ASSUME NEW v \in Users PROVE Good(thread'[v])
    BY <1>2 DEF NativeInv, ThreadInv
  <2> QED BY <2>1 DEF ThreadInv
<1> QED BY <1>3, <1>5, <1>6 DEF NativeInv

LEMMA SameFolder ==
    ASSUME NativeInv, UNCHANGED folder
    PROVE  FolderTypes'
BY DEF NativeInv, NativeTypeOK, folder, FolderTypes

LEMMA ReturnsInv ==
    ASSUME NativeInv, NEW u \in Users, NEW o \in Outcomes, Returns(u, o), FolderTypes'
    PROVE  NativeInv'
<1> DEFINE k == [Nothing EXCEPT !.outcome = o]
<1>1. Good(k) /\ k.handle = "none"
  BY GoodReturn
<1> HIDE DEF k
<1>2. /\ thread' = [thread EXCEPT ![u] = k]
      /\ UNCHANGED <<handler, context, loaded, initFailed, credential>> /\ UNCHANGED undefined
  BY DEF Returns, session, k
<1> QED BY <1>1, <1>2, OneThread

LEMMA TreeCallInv ==
    ASSUME NativeInv, NEW u \in Users, TreeCall(u)
    PROVE  NativeInv'
<1>0. FolderTypes /\ MaxSize \in Nat
  BY SessionAssumption DEF NativeInv, NativeTypeOK, FolderTypes
<1>1. CASE NotInitialised(u)
  <2>1. Returns(u, "IllegalStateException") /\ UNCHANGED folder
    BY <1>1 DEF NotInitialised, Returns
  <2> QED BY <2>1, SameFolder, ReturnsInv DEF Outcomes
<1>2. ASSUME NEW n \in Names, Stat(u, n) PROVE NativeInv'
  <2>1. PICK o \in Outcomes : Returns(u, o) /\ UNCHANGED folder
    BY <1>2, SeenOutcome DEF Stat, ClientStat
  <2> QED BY <2>1, SameFolder, ReturnsInv
<1>3. ASSUME NEW n \in Names, CreateFile(u, n) PROVE NativeInv'
  <2>1. PICK err \in Errnos : ClientCreateFile(n, err) /\ Returns(u, Seen(err, {"EACCES"}))
    BY <1>3 DEF CreateFile
  <2>2. FolderTypes'
    <3>1. CASE UNCHANGED folder
      BY <3>1, SameFolder
    <3>2. CASE server' = [server EXCEPT ![n] = "file"] /\ size' = [size EXCEPT ![n] = 0]
      <4>1. server' \in [Names -> {"none", "file", "dir"}]
        BY <1>0, <3>2 DEF FolderTypes
      <4>2. size' \in [Names -> 0..MaxSize]
        BY <1>0, <3>2 DEF FolderTypes
      <4> QED BY <4>1, <4>2 DEF FolderTypes
    <3> QED BY <2>1, <3>1, <3>2 DEF ClientCreateFile
  <2> QED BY <2>1, <2>2, SeenOutcome, ReturnsInv
<1>4. ASSUME NEW n \in Names, Mkdir(u, n) PROVE NativeInv'
  <2>1. PICK err \in Errnos : ClientMkdir(n, err) /\ Returns(u, Seen(err, {"EACCES"}))
    BY <1>4 DEF Mkdir
  <2>2. FolderTypes'
    BY <1>0, <2>1 DEF ClientMkdir, FolderTypes, folder
  <2> QED BY <2>1, <2>2, SeenOutcome, ReturnsInv
<1>5. ASSUME NEW n \in Names, Unlink(u, n) PROVE NativeInv'
  <2>1. PICK err \in Errnos : ClientUnlink(n, err) /\ Returns(u, Seen(err, {"EACCES", "EPERM"}))
    BY <1>5 DEF Unlink
  <2>2. FolderTypes'
    BY <1>0, <2>1 DEF ClientUnlink, FolderTypes, folder
  <2> QED BY <2>1, <2>2, SeenOutcome, ReturnsInv
<1>6. ASSUME NEW n \in Names, Rmdir(u, n) PROVE NativeInv'
  <2>1. PICK err \in Errnos : ClientRmdir(n, err) /\ Returns(u, Seen(err, {"EACCES", "EPERM"}))
    BY <1>6 DEF Rmdir
  <2>2. FolderTypes'
    BY <1>0, <2>1 DEF ClientRmdir, FolderTypes, folder
  <2> QED BY <2>1, <2>2, SeenOutcome, ReturnsInv
<1>7. ASSUME NEW n \in Names, NEW to \in Names, Rename(u, n, to) PROVE NativeInv'
  <2>1. PICK err \in Errnos : ClientRename(n, to, err) /\ Returns(u, Seen(err, {"EACCES", "EPERM"}))
    BY <1>7 DEF Rename
  <2>2. FolderTypes'
    BY <1>0, <2>1 DEF ClientRename, FolderTypes, folder
  <2> QED BY <2>1, <2>2, SeenOutcome, ReturnsInv
<1> QED BY <1>1, <1>2, <1>3, <1>4, <1>5, <1>6, <1>7 DEF TreeCall

LEMMA OpenDirInv ==
    ASSUME NativeInv, NEW u \in Users, NEW what \in {"load", "browse"}, OpenDir(u, what)
    PROVE  NativeInv'
<1>1. PICK err \in Errnos :
        /\ UNCHANGED folder
        /\ IF err = "ok"
           THEN /\ thread' = [thread EXCEPT ![u] = [Nothing EXCEPT !.what = what, !.at = "reading",
                                  !.handle = "open", !.left = Children, !.whole = Children]]
                /\ UNCHANGED <<session, credential>>
           ELSE Returns(u, Seen(err, {"EACCES", "EPERM"}))
  BY DEF OpenDir, ClientOpenDir
<1>2. FolderTypes'
  BY <1>1, SameFolder
<1>3. CASE err = "ok"
  <2> DEFINE k == [Nothing EXCEPT !.what = what, !.at = "reading", !.handle = "open",
                                  !.left = Children, !.whole = Children]
  <2>1. /\ k.what = what /\ k.at = "reading" /\ k.mOffset = 0 /\ k.offset = 0
        /\ k.listed = {} /\ k.left = k.whole
    BY DEF Nothing
  <2>0. k \in Threads
    <3>1. Children \in SUBSET Names
      BY DEF Children
    <3> QED BY <3>1, NothingType DEF Threads, Outcomes
  <2> HIDE DEF k
  <2>2. Good(k)
    BY <2>0, <2>1 DEF Good
  <2>3. thread' = [thread EXCEPT ![u] = k] /\ UNCHANGED <<session, credential>> /\ handler
    BY <1>1, <1>3 DEF k, OpenDir, Calls
  <2> QED BY <1>2, <2>2, <2>3, OneThread DEF session
<1>4. CASE err # "ok"
  BY <1>1, <1>2, <1>4, SeenOutcome, ReturnsInv
<1> QED BY <1>3, <1>4

LEMMA ReadDirInv ==
    ASSUME NativeInv, NEW u \in Users, ReadDir(u)
    PROVE  NativeInv'
<1> DEFINE old == thread[u]
<1>1. old \in Threads /\ Good(old) /\ old.at = "reading" /\ FolderTypes'
      /\ (old.handle = "open" => handler)
  BY SameFolder DEF ReadDir, NativeInv, NativeTypeOK, ThreadInv
<1>2. PICK entry \in Names \cup {"null"} :
        /\ ClientReadDir(u, entry)
        /\ thread' = [thread EXCEPT ![u] =
              IF entry # "null"
              THEN [old EXCEPT !.left = @ \ {entry}, !.listed = @ \cup {entry}]
              ELSE IF old.what = "load"
              THEN [old EXCEPT !.at = "listed"]
              ELSE [old EXCEPT !.at = "returned", !.outcome = "ok", !.handle = "none"]]
  BY DEF ReadDir
<1>3. /\ UNCHANGED <<handler, context, loaded, initFailed, credential>> /\ Uses(u)
  BY DEF ReadDir, OnHandle
<1>4. CASE entry # "null"
  <2> DEFINE k == [old EXCEPT !.left = @ \ {entry}, !.listed = @ \cup {entry}]
  <2>1. /\ k \in Threads /\ k.what = old.what /\ k.at = "reading" /\ k.handle = old.handle
        /\ k.left = old.left \ {entry} /\ k.listed = old.listed \cup {entry} /\ k.whole = old.whole
        /\ k.mOffset = old.mOffset /\ k.offset = old.offset /\ entry \in old.left
    BY <1>1, <1>2, <1>4 DEF Threads, ClientReadDir
  <2>2. thread' = [thread EXCEPT ![u] = k]
    BY <1>2, <1>4
  <2> HIDE DEF k
  <2>3. Good(k)
    BY <1>1, <2>1 DEF Good
  <2> QED BY <1>1, <1>3, <2>1, <2>2, <2>3, OneThread
<1>5. CASE entry = "null" /\ old.what = "load"
  <2> DEFINE k == [old EXCEPT !.at = "listed"]
  <2>1. /\ k \in Threads /\ k.at = "listed" /\ k.handle = old.handle
        /\ k.listed = old.listed /\ k.whole = old.whole
        /\ k.mOffset = old.mOffset /\ k.offset = old.offset
    BY <1>1 DEF Threads
  <2>2. thread' = [thread EXCEPT ![u] = k]
    BY <1>2, <1>5
  <2>3. old.handle = "open" => old.left = {} \/ entry \in old.left
    BY <1>2 DEF ClientReadDir
  <2>4. old.handle = "open" => old.listed = old.whole
    BY <1>1, <1>5, <2>3, SessionAssumption DEF Good, Threads
  <2> HIDE DEF k
  <2>5. Good(k)
    BY <1>1, <2>1, <2>4 DEF Good
  <2> QED BY <1>1, <1>3, <2>1, <2>2, <2>5, OneThread
<1>6. CASE entry = "null" /\ old.what # "load"
  <2> DEFINE k == [old EXCEPT !.at = "returned", !.outcome = "ok", !.handle = "none"]
  <2>1. /\ k \in Threads /\ k.what # "load" /\ k.at = "returned" /\ k.handle = "none"
        /\ k.mOffset = old.mOffset /\ k.offset = old.offset
    BY <1>1, <1>6 DEF Threads, Outcomes
  <2>2. thread' = [thread EXCEPT ![u] = k]
    BY <1>2, <1>6
  <2> HIDE DEF k
  <2>3. Good(k)
    BY <1>1, <2>1 DEF Good
  <2> QED BY <1>1, <1>3, <2>1, <2>2, <2>3, OneThread
<1> QED BY <1>4, <1>5, <1>6

LEMMA CloseDirInv ==
    ASSUME NativeInv, NEW u \in Users, CloseDir(u)
    PROVE  NativeInv'
<1> DEFINE old == thread[u]
           k(err) == [old EXCEPT !.at = "returned", !.handle = "closed", !.outcome = Seen(err, {})]
<1>1. old \in Threads /\ Good(old) /\ old.at = "listed" /\ FolderTypes'
  BY SameFolder DEF CloseDir, NativeInv, NativeTypeOK, ThreadInv
<1>2. PICK err \in {"ok", "EBADF"} :
        /\ ClientCloseDir(u, err)
        /\ thread' = [thread EXCEPT ![u].at = "returned", ![u].handle = "closed",
                                    ![u].outcome = Seen(err, {})]
  BY DEF CloseDir
<1>3. thread' = [thread EXCEPT ![u] = k(err)]
  BY <1>2 DEF NativeInv, NativeTypeOK
<1>4. UNCHANGED <<handler, context, loaded, initFailed, credential>> /\ Uses(u)
  BY DEF CloseDir, OnHandle
<1>5. /\ k(err) \in Threads /\ k(err).what = old.what /\ k(err).at = "returned"
      /\ k(err).handle = "closed" /\ k(err).outcome = Seen(err, {})
      /\ k(err).listed = old.listed /\ k(err).whole = old.whole
      /\ k(err).mOffset = old.mOffset /\ k(err).offset = old.offset
  BY <1>1, SeenOutcome DEF Threads
<1>6. Seen(err, {}) = "ok" => old.handle = "open"
  BY <1>2 DEF Seen, ClientCloseDir
<1> HIDE DEF k
<1>7. Good(k(err))
  BY <1>1, <1>5, <1>6 DEF Good
<1> QED BY <1>1, <1>3, <1>4, <1>5, <1>7, OneThread

LEMMA OpenFileInv ==
    ASSUME NativeInv, NEW u \in Users, NEW n \in Names, NEW mode \in Modes, OpenFile(u, n, mode)
    PROVE  NativeInv'
<1> DEFINE flags == Flags(mode)
           offset == IF "append" \in Flags(mode) THEN size[n] ELSE 0
           k == [Nothing EXCEPT !.what = "file", !.at = "using", !.handle = "open",
                                !.name = n, !.flags = flags, !.offset = offset]
<1>0. FolderTypes /\ MaxSize \in Nat
  BY SessionAssumption DEF NativeInv, NativeTypeOK, FolderTypes
<1>1. PICK err \in Errnos :
        /\ IF Flags(mode) = {} THEN err = "EPERM" /\ UNCHANGED folder
                               ELSE ClientOpenFile(n, Flags(mode), err)
        /\ IF err = "ok" THEN thread' = [thread EXCEPT ![u] = k] /\ UNCHANGED <<session, credential>>
                         ELSE Returns(u, Seen(err, {"EACCES"}))
  BY DEF OpenFile
<1>2. FolderTypes'
  BY <1>0, <1>1 DEF ClientOpenFile, FolderTypes, folder
<1>3. CASE err = "ok"
  <2>1. /\ k.what = "file" /\ k.at = "using" /\ k.name = n /\ k.flags = Flags(mode)
        /\ k.mOffset = 0 /\ k.offset \in 0..MaxSize
        /\ "append" \notin Flags(mode) => k.offset = 0
    BY <1>0 DEF Nothing, FolderTypes
  <2>2. Flags(mode) \subseteq {"read", "write", "append", "trunc"}
    BY DEF Flags
  <2>3. k \in Threads
    <3>1. flags \in SUBSET {"read", "write", "append", "trunc"} /\ offset \in 0..MaxSize
      BY <1>0, <2>2 DEF FolderTypes
    <3> HIDE DEF flags, offset
    <3> QED BY <3>1, NothingType DEF Threads, Outcomes
  <2>4. thread' = [thread EXCEPT ![u] = k] /\ UNCHANGED <<session, credential>> /\ handler
    BY <1>1, <1>3 DEF OpenFile, Calls
  <2> HIDE DEF k
  <2>5. Good(k)
    BY <2>1, <2>3 DEF Good
  <2> QED BY <1>2, <2>4, <2>5, OneThread DEF session
<1>4. CASE err # "ok"
  BY <1>1, <1>2, <1>4, SeenOutcome, ReturnsInv
<1> QED BY <1>3, <1>4

(* A call on an open file leaves it with equal offsets, or as it was. *)
LEMMA OffsetsInv ==
    ASSUME NativeInv, NEW u \in Users, Using(u),
           NEW a \in 0..MaxSize, NEW b \in 0..MaxSize, NEW o \in {"ok", "IOException"},
           thread' = [thread EXCEPT ![u].offset = a, ![u].mOffset = b, ![u].outcome = o],
           b <= a, "append" \notin thread[u].flags => b = a,
           UNCHANGED <<handler, context, loaded, initFailed, credential>>,
           UNCHANGED undefined \/ Uses(u),
           FolderTypes'
    PROVE  NativeInv'
<1> DEFINE old == thread[u]
           k == [old EXCEPT !.offset = a, !.mOffset = b, !.outcome = o]
<1>1. /\ old \in Threads /\ Good(old) /\ old.at = "using"
      /\ old.handle = "open" => handler
  BY DEF Using, NativeInv, NativeTypeOK, ThreadInv
<1>2. thread' = [thread EXCEPT ![u] = k]
  BY DEF NativeInv, NativeTypeOK
<1>3. /\ k \in Threads /\ k.at = "using" /\ k.handle = old.handle /\ k.name = old.name
      /\ k.flags = old.flags /\ k.offset = a /\ k.mOffset = b
  BY <1>1 DEF Threads, Outcomes
<1> HIDE DEF k
<1>4. Good(k)
  BY <1>1, <1>3 DEF Good
<1> QED BY <1>1, <1>2, <1>3, <1>4, OneThread

(* What is known of the offsets of a file that is open. *)
LEMMA OpenOffsets ==
    ASSUME NativeInv, NEW u \in Users, Using(u)
    PROVE  /\ thread[u].name \in Names
           /\ thread[u].offset \in 0..MaxSize /\ thread[u].mOffset \in 0..MaxSize
           /\ thread[u].mOffset <= thread[u].offset
           /\ "append" \notin thread[u].flags => thread[u].mOffset = thread[u].offset
           /\ size[thread[u].name] \in 0..MaxSize
<1>1. thread[u] \in Threads /\ Good(thread[u]) /\ thread[u].at = "using"
  BY DEF Using, NativeInv, NativeTypeOK, ThreadInv
<1> QED BY <1>1 DEF Good, Threads, NativeInv, NativeTypeOK

LEMMA FailsInv ==
    ASSUME NativeInv, NEW u \in Users, Fails(u), OnHandle(u)
    PROVE  NativeInv'
<1> DEFINE a == thread[u].offset
           b == thread[u].mOffset
<1>1. /\ Using(u) /\ FolderTypes' /\ Uses(u)
      /\ UNCHANGED <<handler, context, loaded, initFailed, credential>>
  BY SameFolder DEF Fails, OnHandle
<1>2. thread' = [thread EXCEPT ![u].offset = a, ![u].mOffset = b, ![u].outcome = "IOException"]
  <2>1. thread[u] \in Threads /\ thread' = [thread EXCEPT ![u].outcome = "IOException"]
    BY DEF Fails, NativeInv, NativeTypeOK
  <2> QED BY <2>1 DEF Threads, NativeInv, NativeTypeOK
<1>3. /\ a \in 0..MaxSize /\ b \in 0..MaxSize /\ b <= a
      /\ "append" \notin thread[u].flags => b = a
  BY <1>1, OpenOffsets
<1> HIDE DEF a, b
<1> QED BY <1>1, <1>2, <1>3, OffsetsInv

LEMMA AdvancesInv ==
    ASSUME NativeInv, NEW u \in Users, Using(u), NEW n \in 0..MaxSize,
           thread[u].offset + n <= MaxSize, thread' = Advances(u, n), OnHandle(u), FolderTypes'
    PROVE  NativeInv'
<1> DEFINE a == thread[u].offset + n
           b == thread[u].mOffset + n
<1>1. /\ a \in 0..MaxSize /\ b \in 0..MaxSize /\ b <= a
      /\ "append" \notin thread[u].flags => b = a
  BY OpenOffsets, SessionAssumption
<1>2. thread' = [thread EXCEPT ![u].offset = a, ![u].mOffset = b, ![u].outcome = "ok"]
  <2>1. thread[u] \in Threads
    BY DEF NativeInv, NativeTypeOK
  <2> QED BY <2>1 DEF Advances, Threads, NativeInv, NativeTypeOK
<1>3. UNCHANGED <<handler, context, loaded, initFailed, credential>> /\ Uses(u)
  BY DEF OnHandle
<1> HIDE DEF a, b
<1> QED BY <1>1, <1>2, <1>3, OffsetsInv

LEMMA FileCallInv ==
    ASSUME NativeInv, NEW u \in Users, FileCall(u)
    PROVE  NativeInv'
<1>0. FolderTypes /\ MaxSize \in Nat
  BY SessionAssumption DEF NativeInv, NativeTypeOK, FolderTypes
<1>1. ASSUME NEW n \in Names, NEW mode \in Modes, OpenFile(u, n, mode) PROVE NativeInv'
  BY <1>1, OpenFileInv
<1>2. CASE Read(u)
  <2>1. CASE Fails(u)
    BY <1>2, <2>1, FailsInv DEF Read
  <2>2. ASSUME Valid(u), NEW n \in 0..MaxSize, ClientReadFile(u, n), thread' = Advances(u, n),
               UNCHANGED folder
        PROVE  NativeInv'
    <3>1. Using(u) /\ OnHandle(u) /\ FolderTypes'
      BY <1>2, <2>2, SameFolder DEF Read, Valid
    <3>2. thread[u].offset + n <= MaxSize
      BY <1>0, <2>2, <3>1, OpenOffsets DEF ClientReadFile
    <3> QED BY <2>2, <3>1, <3>2, AdvancesInv
  <2> QED BY <1>2, <2>1, <2>2 DEF Read
<1>3. CASE Write(u)
  <2>1. CASE Fails(u)
    BY <1>3, <2>1, FailsInv DEF Write
  <2>2. ASSUME Valid(u), NEW n \in 1..MaxSize, ClientWriteFile(u, n), thread' = Advances(u, n),
               UNCHANGED server
        PROVE  NativeInv'
    <3>1. Using(u) /\ OnHandle(u)
      BY <1>3, <2>2 DEF Write, Valid
    <3>2. thread[u].offset + n <= MaxSize /\ n \in 0..MaxSize
      BY <1>0, <2>2 DEF ClientWriteFile
    <3>3. Larger(size[thread[u].name], thread[u].offset + n) \in 0..MaxSize
      BY <1>0, <3>1, <3>2, OpenOffsets DEF Larger
    <3>4. FolderTypes'
      BY <1>0, <2>2, <3>1, <3>3, OpenOffsets DEF ClientWriteFile, FolderTypes
    <3> QED BY <2>2, <3>1, <3>2, <3>4, AdvancesInv
  <2> QED BY <1>3, <2>1, <2>2 DEF Write
<1>4. CASE Fstat(u)
  <2>1. CASE Fails(u)
    BY <1>4, <2>1, FailsInv DEF Fstat
  <2>2. CASE Valid(u) /\ thread' = [thread EXCEPT ![u].outcome = "ok"] /\ UNCHANGED folder
    <3>1. Using(u) /\ OnHandle(u) /\ FolderTypes'
      BY <1>4, <2>2, SameFolder DEF Fstat, Valid
    <3>2. thread[u] \in Threads
      BY DEF NativeInv, NativeTypeOK
    <3>3. thread' = Advances(u, 0)
      <4>1. thread[u].offset + 0 = thread[u].offset /\ thread[u].mOffset + 0 = thread[u].mOffset
        BY <1>0, <3>1, OpenOffsets
      <4>2. [thread EXCEPT ![u].outcome = "ok"]
            = [thread EXCEPT ![u].offset = thread[u].offset, ![u].mOffset = thread[u].mOffset,
                             ![u].outcome = "ok"]
        BY <3>2 DEF Threads, NativeInv, NativeTypeOK
      <4> QED BY <2>2, <4>1, <4>2 DEF Advances
    <3> QED BY <1>0, <3>1, <3>3, OpenOffsets, AdvancesInv
  <2> QED BY <1>4, <2>1, <2>2 DEF Fstat
<1>5. CASE CloseFile(u)
  <2>1. PICK err \in {"ok", "EBADF", "other"} :
          thread' = [thread EXCEPT ![u] = [Nothing EXCEPT !.outcome = Seen(err, {})]]
    BY <1>5 DEF CloseFile
  <2> DEFINE k == [Nothing EXCEPT !.outcome = Seen(err, {})]
  <2>2. Good(k) /\ k.handle = "none"
    BY SeenOutcome, GoodReturn
  <2>3. thread' = [thread EXCEPT ![u] = k]
    BY <2>1
  <2> HIDE DEF k
  <2>4. FolderTypes' /\ Uses(u) /\ UNCHANGED <<handler, context, loaded, initFailed, credential>>
    BY <1>5, SameFolder DEF CloseFile, OnHandle
  <2> QED BY <2>2, <2>3, <2>4, OneThread
<1>6. ASSUME NEW to \in 0..MaxSize, Seek(u, to) PROVE NativeInv'
  <2>0. FolderTypes'
    BY <1>6, SameFolder DEF Seek
  <2>1. CASE Fails(u) /\ OnHandle(u)
    BY <2>1, FailsInv
  <2>2. CASE Valid(u) /\ OnHandle(u) /\ ClientSeekFile(u, to)
    <3>1. /\ Using(u) /\ Uses(u) /\ to <= to
          /\ UNCHANGED <<handler, context, loaded, initFailed, credential>>
      BY <1>0, <2>2 DEF Valid, OnHandle
    <3>2. thread' = [thread EXCEPT ![u].offset = to, ![u].mOffset = to, ![u].outcome = "ok"]
      BY <2>2 DEF ClientSeekFile
    <3> QED BY <2>0, <3>1, <3>2, OffsetsInv
  <2>3. CASE Using(u) /\ thread' = [thread EXCEPT ![u].outcome = "ok"]
             /\ UNCHANGED <<session, credential>>
    <3> DEFINE a == thread[u].offset
               b == thread[u].mOffset
    <3>1. thread[u] \in Threads
      BY DEF NativeInv, NativeTypeOK
    <3>2. thread' = [thread EXCEPT ![u].offset = a, ![u].mOffset = b, ![u].outcome = "ok"]
      BY <2>3, <3>1 DEF Threads, NativeInv, NativeTypeOK
    <3>3. /\ a \in 0..MaxSize /\ b \in 0..MaxSize /\ b <= a
          /\ "append" \notin thread[u].flags => b = a
      BY <2>3, OpenOffsets
    <3>4. UNCHANGED <<handler, context, loaded, initFailed, credential>> /\ UNCHANGED undefined
      BY <2>3 DEF session
    <3> HIDE DEF a, b
    <3> QED BY <2>0, <2>3, <3>2, <3>3, <3>4, OffsetsInv
  <2> QED BY <1>6, <2>1, <2>2, <2>3 DEF Seek
<1> QED BY <1>1, <1>2, <1>3, <1>4, <1>5, <1>6 DEF FileCall

LEMMA CallInv ==
    ASSUME NativeInv, Call
    PROVE  NativeInv'
BY TreeCallInv, OpenDirInv, ReadDirInv, CloseDirInv, FileCallInv DEF Call, FolderCall

-------------------------------------------------------------------------------
(***************************************************************************)
(* Resets, credentials and the end of the process.                         *)
(***************************************************************************)
LEMMA ResetInv ==
    ASSUME NativeInv, NEW c \in Configurations, Reset(c)
    PROVE  NativeInv'
<1>1. /\ handler' \in BOOLEAN /\ context' \in {"none", "live", "freed"} /\ initFailed' \in BOOLEAN
      /\ loaded' \in Configurations /\ undefined' \subseteq Undefined
      /\ handler' => context' = "live"
      /\ MemoryInv'
  BY SessionAssumption
     DEF NativeInv, NativeTypeOK, MemoryInv, Reset, ClientInit, SetsContext, Undefined
<1>2. /\ credential' \in Credentials
      /\ server' \in [Names -> {"none", "file", "dir"}] /\ size' \in [Names -> 0..MaxSize]
  BY DEF NativeInv, NativeTypeOK, Reset, folder
<1>3. ASSUME NEW u \in Users
      PROVE  Good(thread'[u]) /\ thread'[u].handle # "open"
  <2>1. /\ thread[u] \in Threads /\ Good(thread[u])
        /\ thread[u].handle = "open" => handler
    BY DEF NativeInv, NativeTypeOK, ThreadInv
  <2>2. CASE handler /\ thread[u].handle = "open"
    <3> DEFINE k == [thread[u] EXCEPT !.handle = "stale"]
    <3>1. thread'[u] = k
      BY <2>2 DEF Reset, ClientDestroyed
    <3>2. /\ k \in Threads /\ k.handle = "stale" /\ k.what = thread[u].what /\ k.at = thread[u].at
          /\ k.name = thread[u].name /\ k.flags = thread[u].flags
          /\ k.offset = thread[u].offset /\ k.mOffset = thread[u].mOffset
          /\ k.outcome = thread[u].outcome
          /\ k.listed = thread[u].listed /\ k.left = thread[u].left /\ k.whole = thread[u].whole
      BY <2>1 DEF Threads, Outcomes
    <3> HIDE DEF k
    <3>3. Good(k)
      BY <2>1, <3>2 DEF Good
    <3> QED BY <3>1, <3>2, <3>3
  <2>3. CASE ~(handler /\ thread[u].handle = "open")
    <3>1. thread'[u] = thread[u]
      BY <2>3 DEF Reset, ClientDestroyed
    <3> QED BY <2>1, <2>3, <3>1
  <2> QED BY <2>2, <2>3
<1>4. thread' \in [Users -> Threads]
  <2>1. thread' = [u \in Users |-> thread'[u]]
    BY DEF Reset, ClientDestroyed, NativeInv, NativeTypeOK
  <2>2. \A u \in Users : thread'[u] \in Threads
    BY <1>3 DEF Good
  <2> QED BY <2>1, <2>2
<1> QED BY <1>1, <1>2, <1>3, <1>4 DEF NativeInv, NativeTypeOK, ThreadInv

LEMMA GoodNothing == Good(Nothing) /\ Nothing.handle = "none"
<1>1. /\ Nothing.what = "nothing" /\ Nothing.at = "returned" /\ Nothing.handle = "none"
      /\ Nothing.mOffset = 0 /\ Nothing.offset = 0
  BY DEF Nothing
<1> QED BY <1>1, NothingType DEF Good

LEMMA NativeInitInv ==
    ASSUME NativeInit
    PROVE  NativeInv
<1>1. thread \in [Users -> Threads] /\ ThreadInv /\ \A u \in Users : thread[u].handle = "none"
  BY GoodNothing, NothingType DEF NativeInit, ThreadInv
<1>2. size \in [Names -> 0..MaxSize]
  BY SessionAssumption DEF NativeInit
<1> QED BY <1>1, <1>2, SessionAssumption
        DEF NativeInit, NativeInv, NativeTypeOK, MemoryInv, Credentials, Undefined

LEMMA ProcessEndsInv ==
    ASSUME NativeInv, ProcessEnds
    PROVE  NativeInv'
<1>1. /\ thread' \in [Users -> Threads] /\ ThreadInv'
      /\ \A u \in Users : thread'[u].handle = "none"
  BY GoodNothing, NothingType DEF ProcessEnds, ThreadInv
<1> QED BY <1>1, SessionAssumption
        DEF ProcessEnds, NativeInv, NativeTypeOK, MemoryInv, Credentials, Undefined, folder

LEMMA CredentialInv ==
    ASSUME NativeInv, PutCredential \/ RemoveCredential
    PROVE  NativeInv'
BY DEF PutCredential, RemoveCredential, session, folder, Credentials,
       NativeInv, NativeTypeOK, ThreadInv, MemoryInv

LEMMA NativeStutter ==
    ASSUME NativeInv, UNCHANGED nativeVars
    PROVE  NativeInv'
BY DEF nativeVars, session, folder, NativeInv, NativeTypeOK, ThreadInv, MemoryInv

-------------------------------------------------------------------------------
(***************************************************************************)
(* The configuration, which its own steps alone change.                    *)
(***************************************************************************)
LEMMA FileType ==
    /\ NoFile \in Files /\ NoFile.exists = FALSE
    /\ \A f \in Files : f.exists \in BOOLEAN /\ f.has \subseteq Options
<1>1. \A f \in [exists : {TRUE}, has : SUBSET Options] : f.exists \in BOOLEAN /\ f.has \subseteq Options
  OBVIOUS
<1>2. NoFile.exists = FALSE /\ NoFile.has = {}
  BY DEF NoFile
<1> QED BY <1>1, <1>2 DEF Files

LEMMA TaskType ==
    /\ NoTask \in Tasks /\ NoTask.what = "none" /\ NoTask.at = "ended" /\ NoTask.rest = {}
    /\ \A k \in Tasks : /\ k.rest \subseteq Options
                       /\ k # NoTask => k.what \in {"sync", "flush"}
<1>1. NoTask.what = "none" /\ NoTask.at = "ended" /\ NoTask.rest = {}
  BY DEF NoTask
<1> QED BY <1>1 DEF Tasks

LEMMA ConfInitInv ==
    ASSUME ConfInit
    PROVE  ConfInv
<1>1. {home, ext} \subseteq Files /\ home.exists = FALSE /\ newer \in BOOLEAN
  BY FileType DEF ConfInit
<1>2. task = NoTask /\ task \in Tasks /\ task.what = "none" /\ task.at = "ended" /\ task.rest = {}
  BY TaskType DEF ConfInit
<1> QED BY <1>1, <1>2, ConfigurationAssumption DEF ConfInit, ConfInv, ConfTypeOK, Pending

LEMMA EditExternalInv ==
    ASSUME ConfInv, EditExternal
    PROVE  ConfInv'
<1>1. ext'.exists \in BOOLEAN
  BY FileType DEF EditExternal
<1> QED BY <1>1 DEF EditExternal, ConfInv, ConfTypeOK, Pending

LEMMA StartInv ==
    ASSUME ConfInv, Start
    PROVE  ConfInv'
<1>1. /\ ~up /\ up' /\ conf = {} /\ task = NoTask
      /\ home \in Files /\ home.exists \in BOOLEAN
      /\ UNCHANGED <<home, ext, newer, chosen, spoilt>>
  BY FileType DEF Start, ConfInv, ConfTypeOK, Pending
<1>2. CASE /\ task' = [NoTask EXCEPT !.what = "sync", !.at = "queued"]
           /\ UNCHANGED conf
  <2>1. /\ task' \in Tasks /\ task'.what = "sync" /\ task'.at = "queued" /\ task'.rest = {}
        /\ task' # NoTask
    BY <1>2 DEF Tasks, NoTask
  <2> QED BY <1>1, <1>2, <2>1 DEF ConfInv, ConfTypeOK, Pending, NoTask
<1>3. CASE FlushDefault
  <2>1. conf' = Defaults
    BY <1>1, <1>3 DEF FlushDefault
  <2>2. CASE home.exists
    <3>1. task' = NoTask
      BY <1>3, <2>2 DEF FlushDefault
    <3> QED BY <1>1, <2>1, <2>2, <3>1, ConfigurationAssumption
            DEF ConfInv, ConfTypeOK, Pending, NoTask, Tasks
  <2>3. CASE ~home.exists
    <3>1. /\ task' \in Tasks /\ task'.what = "flush" /\ task'.at = "read" /\ task'.rest = {}
          /\ task' # NoTask
      BY <1>3, <2>3 DEF FlushDefault, Tasks, NoTask
    <3> QED BY <1>1, <2>1, <2>3, <3>1, ConfigurationAssumption DEF ConfInv, ConfTypeOK, Pending
  <2> QED BY <2>2, <2>3
<1> QED BY <1>2, <1>3 DEF Start

LEMMA TaskFailsInv ==
    ASSUME ConfInv, TaskFails, Pending, task.at \in {"queued", "read"},
           conf' \subseteq Options, UNCHANGED <<ext, up>>
    PROVE  ConfInv'
<1>1. /\ task' = NoTask /\ task'.at = "ended" /\ task'.what = "none" /\ task'.rest = {}
      /\ task' \in Tasks /\ up /\ task.rest = {}
  BY DEF TaskFails, NoTask, Tasks, ConfInv, ConfTypeOK
<1>2. spoilt' \in BOOLEAN /\ (~spoilt' => ~spoilt /\ home.exists)
  BY DEF TaskFails, ConfInv, ConfTypeOK
<1> QED BY <1>1, <1>2 DEF TaskFails, ConfInv, ConfTypeOK, Pending

LEMMA TaskStepInv ==
    ASSUME ConfInv, TaskStep
    PROVE  ConfInv'
<1>0. /\ task \in Tasks /\ home \in Files /\ ext \in Files
      /\ ext.has \subseteq Options /\ home.has \subseteq Options /\ home.exists \in BOOLEAN
  BY FileType DEF ConfInv, ConfTypeOK
<1>1. CASE ReadExternal
  <2>1. Pending /\ up
    BY <1>1 DEF ReadExternal, Pending, NoTask, ConfInv, ConfTypeOK
  <2>2. CASE TaskFails /\ conf' \in SUBSET ext.has
    BY <1>0, <1>1, <2>1, <2>2, TaskFailsInv DEF ReadExternal
  <2>3. CASE /\ ext.exists /\ conf' = ext.has /\ task' = [task EXCEPT !.at = "read"]
             /\ UNCHANGED <<home, newer, chosen, spoilt>>
    <3>1. task.at = "queued" /\ task.rest = {} /\ task.what = "sync"
      BY <1>0, <1>1 DEF ReadExternal, ConfInv
    <3> QED BY <1>0, <1>1, <2>1, <2>3, <3>1 DEF ReadExternal, ConfInv, ConfTypeOK, Pending, Tasks, NoTask
  <2> QED BY <1>1, <2>2, <2>3 DEF ReadExternal
<1>2. CASE OpenHome
  <2>1. Pending /\ up /\ task.at = "read" /\ conf \subseteq Options
    BY <1>2 DEF OpenHome, Pending, NoTask, ConfInv, ConfTypeOK
  <2>2. CASE TaskFails
    BY <1>0, <1>2, <2>1, <2>2, TaskFailsInv DEF OpenHome
  <2>3. CASE /\ home' = File({}) /\ newer' = FALSE
             /\ task' = [task EXCEPT !.at = "writing", !.rest = conf]
             /\ chosen' = IF task.what = "sync" THEN conf ELSE Defaults
             /\ spoilt' = FALSE
    <3>1. /\ task' = [what |-> task.what, at |-> "writing", rest |-> conf]
          /\ task'.at = "writing" /\ task'.rest = conf /\ task'.what = task.what
      BY <1>0, <2>1, <2>3, TaskType DEF Tasks, Pending
    <3>4. task' # NoTask /\ task' \in Tasks /\ task.what \in {"sync", "flush"}
      BY <1>0, <2>1, <3>1, TaskType DEF Tasks, Pending
    <3>2. chosen' = conf
      BY <2>1, <2>3, <3>4 DEF ConfInv
    <3>3. home' \in Files /\ home'.exists = TRUE /\ home'.has = {}
      BY <2>3 DEF Files, File
    <3> QED BY <1>0, <1>2, <2>1, <2>3, <3>1, <3>2, <3>3, <3>4 DEF OpenHome, ConfInv, ConfTypeOK, Pending
  <2> QED BY <1>2, <2>2, <2>3 DEF OpenHome
<1>3. CASE WriteEntry
  <2>1. task.at = "writing" /\ home.exists /\ Pending
    BY <1>3 DEF WriteEntry, ConfInv, Pending, NoTask
  <2>2. UNCHANGED <<ext, newer, up, conf, chosen>>
    BY <1>3 DEF WriteEntry
  <2>3. ASSUME NEW e \in task.rest, home' = File(home.has \cup {e}),
               task' = [task EXCEPT !.rest = @ \ {e}], UNCHANGED spoilt
        PROVE  ConfInv'
    <3>1. /\ task' \in Tasks /\ task'.at = "writing" /\ task'.rest = task.rest \ {e}
          /\ task' # NoTask /\ e \in Options
      BY <1>0, <2>1, <2>3 DEF Tasks, NoTask
    <3>2. home'.exists = TRUE /\ home'.has = home.has \cup {e} /\ home' \in Files
      BY <1>0, <2>3, <3>1 DEF Files, File
    <3>3. home'.has \cup task'.rest = home.has \cup task.rest
      BY <3>1, <3>2
    <3> QED BY <1>0, <2>1, <2>2, <2>3, <3>1, <3>2, <3>3 DEF ConfInv, ConfTypeOK, Pending
  <2>4. CASE task' = [task EXCEPT !.rest = {}] /\ spoilt' = TRUE /\ UNCHANGED home
    <3>1. task' \in Tasks /\ task'.at = "writing" /\ task'.rest = {} /\ task' # NoTask
      BY <1>0, <2>1, <2>4 DEF Tasks, NoTask
    <3> QED BY <1>0, <2>1, <2>2, <2>4, <3>1 DEF ConfInv, ConfTypeOK, Pending
  <2> QED BY <1>3, <2>3, <2>4 DEF WriteEntry
<1>4. CASE CloseHome
  <2>1. /\ task' \in Tasks /\ task'.at = "written" /\ task'.rest = {} /\ task.rest = {}
        /\ task.at = "writing" /\ task' # NoTask /\ task # NoTask
    BY <1>0, <1>4 DEF CloseHome, Tasks, NoTask
  <2> QED BY <1>0, <1>4, <2>1 DEF CloseHome, ConfInv, ConfTypeOK, Pending
<1> QED BY <1>1, <1>2, <1>3, <1>4 DEF TaskStep

LEMMA SucceededInv ==
    ASSUME ConfInv, Succeeded
    PROVE  ConfInv'
<1>1. /\ task' = NoTask /\ task'.at = "ended" /\ task'.what = "none" /\ task'.rest = {}
      /\ task' \in Tasks /\ task.at = "written" /\ task # NoTask /\ task.rest = {}
  BY DEF Succeeded, NoTask, Tasks, ConfInv
<1> QED BY <1>1 DEF Succeeded, ConfInv, ConfTypeOK, Pending

LEMMA KilledInv ==
    ASSUME ConfInv, Killed
    PROVE  ConfInv'
<1>1. /\ task' = NoTask /\ task'.at = "ended" /\ task'.what = "none" /\ task'.rest = {}
      /\ task' \in Tasks /\ conf' = {} /\ ~up'
  BY DEF Killed, NoTask, Tasks
<1>2. spoilt' \in BOOLEAN /\ (~spoilt' => ~spoilt /\ task.rest = {})
  BY DEF Killed, ConfInv, ConfTypeOK
<1> QED BY <1>1, <1>2 DEF Killed, ConfInv, ConfTypeOK, Pending

LEMMA ConfStutter ==
    ASSUME ConfInv, UNCHANGED confVars
    PROVE  ConfInv'
BY DEF confVars, ConfInv, ConfTypeOK, Pending

-------------------------------------------------------------------------------
(***************************************************************************)
(* The session and the file.                                               *)
(***************************************************************************)
LEMMA ResetLoads ==
    ASSUME SessionInv, up, Reset(home), home' = home, up' = up
    PROVE  NativeInv' /\ LoadedInv'
<1>1. home \in Configurations
  BY FileAssumption DEF SessionInv, ConfInv, ConfTypeOK
<1>2. handler' => loaded' = home
  BY DEF Reset, ClientInit, SessionInv, NativeInv, NativeTypeOK
<1> QED BY <1>1, <1>2, ResetInv DEF SessionInv, LoadedInv

(* No call makes or drops a client. *)
LEMMA CallKeepsSession ==
    ASSUME Call
    PROVE  UNCHANGED <<handler, loaded>>
<1>1. PICK u \in Users : TreeCall(u) \/ FolderCall(u) \/ FileCall(u)
  BY DEF Call
<1>2. CASE TreeCall(u)
  BY <1>2 DEF TreeCall, NotInitialised, Stat, CreateFile, Mkdir, Unlink, Rmdir, Rename, Returns, session
<1>3. CASE FolderCall(u)
  BY <1>3 DEF FolderCall, OpenDir, ReadDir, CloseDir, OnHandle, Returns, session
<1>4. CASE FileCall(u)
  BY <1>4 DEF FileCall, OpenFile, Read, Write, Fstat, CloseFile, Seek, OnHandle, Returns, session
<1> QED BY <1>1, <1>2, <1>3, <1>4

LEMMA SessionStep ==
    ASSUME SessionInv, [Next]_vars
    PROVE  SessionInv'
<1>0. NativeInv /\ ConfInv /\ LoadedInv
  BY DEF SessionInv
<1>1. CASE NetworkAvailable
  <2>1. ConfInv' /\ home' = home /\ up' = up /\ up
    BY <1>0, <1>1, ConfStutter DEF NetworkAvailable, confVars
  <2> QED BY <1>1, <2>1, ResetLoads DEF NetworkAvailable, SessionInv
<1>2. CASE ConfigurationChanged
  <2>1. ConfInv'
    BY <1>0, <1>2, SucceededInv DEF ConfigurationChanged
  <2>2. up /\ home' = home /\ up' = up
    BY <1>0, <1>2 DEF ConfigurationChanged, Succeeded, ConfInv, ConfTypeOK, Pending, NoTask
  <2> QED BY <1>2, <2>1, <2>2, ResetLoads DEF ConfigurationChanged, SessionInv
<1>3. CASE Use
  <2>1. ConfInv' /\ UNCHANGED <<home, up, task>>
    BY <1>0, <1>3, ConfStutter DEF Use, confVars
  <2>2. NativeInv'
    BY <1>0, <1>3, CallInv, CredentialInv DEF Use
  <2>3. UNCHANGED <<handler, loaded>>
    BY <1>3, CallKeepsSession DEF Use, PutCredential, RemoveCredential, session
  <2> QED BY <1>0, <2>1, <2>2, <2>3 DEF LoadedInv, SessionInv
<1>4. CASE Dies
  <2>1. NativeInv' /\ ConfInv' /\ ~handler'
    BY <1>0, <1>4, ProcessEndsInv, KilledInv DEF Dies, ProcessEnds
  <2> QED BY <2>1 DEF LoadedInv, SessionInv
<1>5. CASE Configure
  <2>1. NativeInv' /\ UNCHANGED <<handler, loaded>>
    BY <1>0, <1>5, NativeStutter DEF Configure, nativeVars, session
  <2>2. ConfInv'
    BY <1>0, <1>5, EditExternalInv, StartInv, TaskStepInv DEF Configure
  <2>3. CASE EditExternal
    BY <1>0, <2>1, <2>2, <2>3 DEF EditExternal, LoadedInv, SessionInv
  <2>4. CASE Start
    BY <1>0, <2>1, <2>2, <2>4 DEF Start, LoadedInv, SessionInv
  <2>5. CASE TaskStep
    <3>1. up' = up
      BY <2>5 DEF TaskStep, ReadExternal, OpenHome, WriteEntry, CloseHome
    <3>2. task'.at \notin {"writing", "written"} => home' = home /\ task.at \notin {"writing", "written"}
      <4>1. task \in Tasks
        BY <1>0 DEF ConfInv, ConfTypeOK
      <4> QED BY <2>5, <4>1
              DEF TaskStep, ReadExternal, OpenHome, WriteEntry, CloseHome, TaskFails, Tasks, NoTask
    <3> QED BY <1>0, <2>1, <2>2, <3>1, <3>2 DEF LoadedInv, SessionInv
  <2> QED BY <1>5, <2>3, <2>4, <2>5 DEF Configure
<1>6. CASE UNCHANGED vars
  <2>1. NativeInv' /\ ConfInv'
    BY <1>0, <1>6, NativeStutter, ConfStutter DEF vars
  <2> QED BY <1>0, <1>6, <2>1 DEF vars, nativeVars, session, confVars, LoadedInv, SessionInv
<1> QED BY <1>1, <1>2, <1>3, <1>4, <1>5, <1>6 DEF Next

LEMMA SessionInit ==
    ASSUME Init
    PROVE  SessionInv
<1>1. ~handler
  BY DEF Init, NativeInit
<1> QED BY <1>1, NativeInitInv, ConfInitInv DEF Init, SessionInv, LoadedInv

LEMMA SessionInvariant == Spec => []SessionInv
BY SessionInit, SessionStep, PTL DEF Spec

-------------------------------------------------------------------------------
(* Variables keep their types, the client that mNativeHandler stands for   *)
(* works in a live context, and a handle is open only while there is one   *)
(* (NativeSambaFacade.reset, SambaClient.Init and its destructor).         *)
THEOREM TypeCorrect == Spec => []TypeOK
<1>1. SessionInv => TypeOK
  BY DEF SessionInv, NativeInv, ConfInv, TypeOK
<1> QED BY <1>1, SessionInvariant, PTL

(* However calls, resets and credentials are interleaved, SambaClient works*)
(* in freed memory, or frees it again, only in a process in which an Init  *)
(* has failed.                                                             *)
THEOREM MemoryIsSafeAlways == Spec => []MemoryIsSafe
<1>1. SessionInv => MemoryIsSafe
  BY DEF SessionInv, NativeInv, MemoryInv, MemoryIsSafe
<1> QED BY <1>1, SessionInvariant, PTL

(* DocumentMetadata.loadChildren does not return a part of the folder for  *)
(* the whole, although SambaClient.ReadDir reports no error: SambaDir.close*)
(* fails for a handle that a reset has taken away.                         *)
THEOREM TruncationIsAlwaysTold == Spec => []TruncationIsTold
<1>1. SessionInv => TruncationIsTold
  BY DEF SessionInv, NativeInv, ThreadInv, Good, TruncationIsTold
<1> QED BY <1>1, SessionInvariant, PTL

(* The offset that SambaFile keeps, and by which seek decides whether to   *)
(* call the library at all, is that of the descriptor.                     *)
THEOREM SeekKnowsTheOffset == Spec => []OffsetsAgree
<1>1. SessionInv => OffsetsAgree
  BY DEF SessionInv, NativeInv, ThreadInv, Good, OffsetsAgree
<1> QED BY <1>1, SessionInvariant, PTL

(* The client of a process whose configuration task is over has read the   *)
(* smb.conf that is there, whether the network callback or the listener of *)
(* SambaProviderApplication came last.                                     *)
THEOREM TheFileIsLoaded == Spec => []LoadedIsFile
<1>1. SessionInv => LoadedIsFile
  <2>1. ~Pending => task.at \notin {"writing", "written"}
    BY TaskType DEF Pending
  <2> QED BY <2>1 DEF SessionInv, LoadedInv, LoadedIsFile
<1> QED BY <1>1, SessionInvariant, PTL

(* A session that talks SMB1 has been told so by the user's file, unless   *)
(* SambaConfiguration.write failed or was killed (spoilt).                 *)
THEOREM Smb1IsChosen == Spec => []Smb1IsAChoice
<1>1. SessionInv => Smb1IsAChoice
  <2>1. ~Pending => task.rest = {} /\ task.at = "ended"
    BY TaskType DEF Pending
  <2>2. ASSUME SessionInv, handler, ~Pending, ~spoilt
        PROVE  loaded.has = chosen
    <3>1. home.exists /\ home.has = chosen
      BY <2>1, <2>2 DEF SessionInv, ConfInv, LoadedInv
    <3> QED BY <2>1, <2>2, <3>1 DEF SessionInv, LoadedInv
  <2> QED BY <2>2 DEF Smb1IsAChoice
<1> QED BY <1>1, SessionInvariant, PTL
===============================================================================
