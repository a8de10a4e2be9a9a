------------------------------ MODULE NativeSession ------------------------------
(***************************************************************************)
(* The native session: NativeSambaFacade with its SambaDir and SambaFile   *)
(* objects, the JNI functions behind them (JniHelper.cc), and the C++      *)
(* SambaClient they delegate to, on top of libsmbclient.                   *)
(*                                                                         *)
(* Every call runs on the message looper's thread, so a call is one step   *)
(* (see SambaRpc).  What falls between two calls is another thread's call, *)
(* above all a reset: it frees the Samba context, and with it every file   *)
(* and directory that is open, and initialises a new one.  The SambaDir    *)
(* and SambaFile objects live on with their handles.                       *)
(*                                                                         *)
(* A definition named Client... is a method of SambaClient: it relates the *)
(* state to the errno, or "ok", which the method returns as a negative or  *)
(* a non-negative number.  The server is one folder of a share that wants  *)
(* credentials.                                                            *)
(***************************************************************************)
EXTENDS Naturals, FiniteSets

CONSTANTS Users,           \* the threads that use the facade
          Names,           \* the names in the folder
          MaxSize,         \* bound: the size of a file
          Modes,           \* the modes files are opened in
          Configurations,  \* what smb.conf may say
          NoConfiguration  \* ... when there is none

(* NULL is no entry of a folder. *)
ASSUME SessionAssumption ==
    /\ MaxSize \in Nat
    /\ "null" \notin Names
    /\ NoConfiguration \in Configurations
    /\ Modes \subseteq {"r", "rw", "rwt", "w", "wt", "wa", "x"}

NoName == "no name"

VARIABLES handler,     \* is mNativeHandler set?
          context,     \* the context of smbc_set_context: "none", "live" or "freed"
          loaded,      \* the smb.conf that context was initialised with
          initFailed,  \* has an Init failed?
          undefined,   \* the undefined behaviour the process has run into
          credential,  \* what CredentialCache has for the share
          server,      \* server[n]: what the server has under the name n
          size,        \* size[n]: the size of the file n
          thread       \* thread[u]: what u does, or has done last

session == <<handler, context, loaded, initFailed, undefined>>
folder  == <<server, size>>
nativeVars == <<session, credential, folder, thread>>

Larger(a, b) == IF a > b THEN a ELSE b

(* A wrong credential is as good as none, one that does not fit the        *)
(* library's buffers is dropped.                                           *)
Credentials == {"none", "right", "tooLong"}
Undefined   == {"double free", "use after free"}

(* What a server or the network may answer to anything.                    *)
Trouble == {"ENODEV", "EPERM", "other"}

(* What the Java caller sees: AuthFailedException and FileNotFoundException*)
(* are IOExceptions; an ErrnoException becomes the cause of a plain one.   *)
Outcomes == {"none", "ok", "FileNotFoundException", "AuthFailedException", "IOException",
             "IllegalStateException"}

(* handle: the native descriptor, "open", "stale" after a reset, "closed"  *)
(* (-1), or "none".  A listing has yet to read the entries in left, of     *)
(* those in whole; a file has flags, a real offset and one in the object.  *)
Nothing == [what |-> "nothing", at |-> "returned", outcome |-> "none", handle |-> "none",
            left |-> {}, listed |-> {}, whole |-> {},
            name |-> NoName, flags |-> {}, offset |-> 0, mOffset |-> 0]

NativeInit ==
    /\ handler = FALSE
    /\ context = "none"
    /\ loaded = NoConfiguration
    /\ initFailed = FALSE
    /\ undefined = {}
    /\ credential = "none"
    /\ server \in [Names -> {"none", "file", "dir"}]
    /\ size = [n \in Names |-> 0]
    /\ thread = [u \in Users |-> Nothing]

-------------------------------------------------------------------------------
(* Mutation of ClientDestroyed: the descriptors survive the context. *)
KeepsHandles(t) == t

(* SambaClient's destructor: smbc_free_context closes all that is open.    *)
ClientDestroyed(t) == [u \in Users |-> IF t[u].handle = "open"
                                       THEN [t[u] EXCEPT !.handle = "stale"] ELSE t[u]]

(* Mutation of SetsContext: Init leaves out smbc_set_context. *)
SetsNoContext(freed) == context' = freed

SetsContext(freed) == context' = "live"

(* SambaClient.Init: no context, a context that cannot be initialised and  *)
(* is freed here and again by the destructor, or success.                  *)
ClientInit(freed, conf) ==
    \/ /\ handler' = FALSE
       /\ context' = freed
       /\ initFailed' = TRUE
       /\ undefined' \in {undefined, undefined \cup {"double free"}}
       /\ loaded' = NoConfiguration
    \/ /\ handler' = TRUE
       /\ SetsContext(freed)
       /\ loaded' = conf
       /\ UNCHANGED <<initFailed, undefined>>

(* NativeSambaFacade.reset: nativeDestroy if there is a client, and        *)
(* nativeInit.  conf is what $HOME/.smb/smb.conf says now.                 *)
Reset(conf) ==
    /\ thread' = IF handler THEN ClientDestroyed(thread) ELSE thread
    /\ ClientInit(IF handler THEN "freed" ELSE context, conf)
    /\ UNCHANGED <<credential, folder>>

(* The process ends: killed, or exit(1) when the context cannot be freed.  *)
ProcessEnds ==
    /\ handler' = FALSE
    /\ context' = "none"
    /\ initFailed' = FALSE
    /\ undefined' = {}
    /\ credential' = "none"
    /\ thread' = [u \in Users |-> Nothing]
    /\ loaded' = NoConfiguration
    /\ UNCHANGED folder

-------------------------------------------------------------------------------
(* putCredential and removeCredential. *)
PutCredential ==
    /\ credential' \in Credentials
    /\ UNCHANGED <<session, folder, thread>>

RemoveCredential ==
    /\ credential' = "none"
    /\ UNCHANGED <<session, folder, thread>>

(* GetAuthData: without an entry the library gets empty strings, and an    *)
(* entry that does not fit its buffers is as good as none.                 *)
AuthData == IF credential = "tooLong" THEN "none" ELSE credential
Granted  == AuthData = "right"

(* The errnos of a call that does nothing; missing: it is about something  *)
(* that is not there.                                                      *)
Refusals(missing) ==
    Trouble \cup (IF ~Granted THEN {"EACCES"} ELSE IF missing THEN {"ENOENT"} ELSE {})

Errnos == Trouble \cup {"ok", "EACCES", "ENOENT"}

(* The exception for an errno, with those the function takes for a denial. *)
Seen(err, denials) ==
    CASE err = "ok"                  -> "ok"
      [] err \in {"ENODEV", "ENOENT"} -> "FileNotFoundException"
      [] err \in denials             -> "AuthFailedException"
      [] OTHER                       -> "IOException"

(* checkNativeHandler: a call of the facade needs a client.                *)
Ready(u) == thread[u].at = "returned"
Calls(u) == Ready(u) /\ handler

NotInitialised(u) ==
    /\ Ready(u)
    /\ ~handler
    /\ thread' = [thread EXCEPT ![u] = [Nothing EXCEPT !.outcome = "IllegalStateException"]]
    /\ UNCHANGED <<session, credential, folder>>

Returns(u, outcome) ==
    /\ thread' = [thread EXCEPT ![u] = [Nothing EXCEPT !.outcome = outcome]]
    /\ UNCHANGED <<session, credential>>

ClientStat(n, err) ==
    /\ \/ err = "ok" /\ Granted /\ server[n] # "none"
       \/ err \in Refusals(server[n] = "none")
    /\ UNCHANGED folder

Stat(u, n) ==
    /\ Calls(u)
    /\ \E err \in Errnos : ClientStat(n, err) /\ Returns(u, Seen(err, {"EACCES"}))

(* smbc_creat truncates a file that is there; whether the new file can be  *)
(* closed is not looked at.                                                *)
ClientCreateFile(n, err) ==
    \/ /\ err = "ok" /\ Granted /\ server[n] # "dir"
       /\ server' = [server EXCEPT ![n] = "file"]
       /\ size' = [size EXCEPT ![n] = 0]
    \/ err \in Refusals(TRUE) /\ UNCHANGED folder

CreateFile(u, n) ==
    /\ Calls(u)
    /\ \E err \in Errnos : ClientCreateFile(n, err) /\ Returns(u, Seen(err, {"EACCES"}))

ClientMkdir(n, err) ==
    \/ /\ err = "ok" /\ Granted /\ server[n] = "none"
       /\ server' = [server EXCEPT ![n] = "dir"]
       /\ UNCHANGED size
    \/ err \in Refusals(TRUE) /\ UNCHANGED folder

Mkdir(u, n) ==
    /\ Calls(u)
    /\ \E err \in Errnos : ClientMkdir(n, err) /\ Returns(u, Seen(err, {"EACCES"}))

(* The server refuses a target that is there.                              *)
ClientRename(n, to, err) ==
    \/ /\ err = "ok" /\ Granted /\ server[n] # "none" /\ server[to] = "none"
       /\ server' = [server EXCEPT ![n] = "none", ![to] = server[n]]
       /\ size' = [size EXCEPT ![n] = 0, ![to] = size[n]]
    \/ err \in Refusals(server[n] = "none") /\ UNCHANGED folder

Rename(u, n, to) ==
    /\ Calls(u)
    /\ \E err \in Errnos : ClientRename(n, to, err) /\ Returns(u, Seen(err, {"EACCES", "EPERM"}))

ClientUnlink(n, err) ==
    \/ /\ err = "ok" /\ Granted /\ server[n] = "file"
       /\ server' = [server EXCEPT ![n] = "none"]
       /\ size' = [size EXCEPT ![n] = 0]
    \/ err \in Refusals(server[n] = "none") /\ UNCHANGED folder

Unlink(u, n) ==
    /\ Calls(u)
    /\ \E err \in Errnos : ClientUnlink(n, err) /\ Returns(u, Seen(err, {"EACCES", "EPERM"}))

ClientRmdir(n, err) ==
    \/ /\ err = "ok" /\ Granted /\ server[n] = "dir"
       /\ server' = [server EXCEPT ![n] = "none"]
       /\ UNCHANGED size
    \/ err \in Refusals(server[n] = "none") /\ UNCHANGED folder

Rmdir(u, n) ==
    /\ Calls(u)
    /\ \E err \in Errnos : ClientRmdir(n, err) /\ Returns(u, Seen(err, {"EACCES", "EPERM"}))

-------------------------------------------------------------------------------
(* An operation on a handle does not ask whether there is a client: after  *)
(* a reset whose Init failed it works in a context that has been freed.    *)
Uses(u) == undefined' = IF context = "freed" THEN undefined \cup {"use after free"}
                                             ELSE undefined

OnHandle(u) == Uses(u) /\ UNCHANGED <<handler, context, loaded, initFailed, credential>>

(* openDir; the library reads the whole folder now.                        *)
Children == {n \in Names : server[n] # "none"}

ClientOpenDir(err) ==
    /\ \/ err = "ok" /\ Granted
       \/ err \in Refusals(FALSE)
    /\ UNCHANGED folder

(* loadChildren reads the folder and closes it, NetworkBrowser reads it    *)
(* and forgets it.                                                         *)
OpenDir(u, what) ==
    /\ Calls(u)
    /\ \E err \in Errnos :
          /\ ClientOpenDir(err)
          /\ IF err = "ok"
             THEN /\ thread' = [thread EXCEPT ![u] = [Nothing EXCEPT !.what = what, !.at = "reading",
                                    !.handle = "open", !.left = Children, !.whole = Children]]
                  /\ UNCHANGED <<session, credential>>
             ELSE Returns(u, Seen(err, {"EACCES", "EPERM"}))

(* SambaClient.ReadDir returns 0 whatever happens, and NULL for an entry   *)
(* at the end as well as for a handle that is not valid.                   *)
ClientReadDir(u, entry) ==
    IF thread[u].handle = "open" /\ thread[u].left # {}
    THEN entry \in thread[u].left
    ELSE entry = "null"

(* readDir: NULL is "a normal case", the end; loadChildren takes what it   *)
(* has read for the children then, and the browser returns it.             *)
ReadDir(u) ==
    /\ thread[u].at = "reading"
    /\ OnHandle(u)
    /\ \E entry \in Names \cup {"null"} :
          /\ ClientReadDir(u, entry)
          /\ thread' = [thread EXCEPT ![u] =
                IF entry # "null"
                THEN [thread[u] EXCEPT !.left = @ \ {entry}, !.listed = @ \cup {entry}]
                ELSE IF thread[u].what = "load"
                THEN [thread[u] EXCEPT !.at = "listed"]
                ELSE [thread[u] EXCEPT !.at = "returned", !.outcome = "ok", !.handle = "none"]]
    /\ UNCHANGED folder

(* Mutation of ClientCloseDir: its result is not looked at. *)
CloseDirAnyway(u, err) == err = "ok"

ClientCloseDir(u, err) == err = IF thread[u].handle = "open" THEN "ok" ELSE "EBADF"

(* The try statement of loadChildren closes the folder after its children  *)
(* have been set; an exception of close is that of loadChildren.           *)
CloseDir(u) ==
    /\ thread[u].at = "listed"
    /\ OnHandle(u)
    /\ \E err \in {"ok", "EBADF"} :
          /\ ClientCloseDir(u, err)
          /\ thread' = [thread EXCEPT ![u].at = "returned", ![u].handle = "closed",
                                      ![u].outcome = Seen(err, {})]
    /\ UNCHANGED folder

-------------------------------------------------------------------------------
(* openFile: a mode it cannot parse gives flag -1, which is not opened.    *)
(* "wt" is write-only without O_TRUNC.                                     *)
Flags(mode) ==
    CASE mode = "r"   -> {"read"}
      [] mode = "rw"  -> {"read", "write"}
      [] mode = "rwt" -> {"read", "write", "trunc"}
      [] mode = "w"   -> {"write", "trunc"}
      [] mode = "wa"  -> {"write", "append"}
      [] mode = "wt"  -> {"write"}
      [] OTHER        -> {}

ClientOpenFile(n, flags, err) ==
    \/ /\ err = "ok" /\ Granted /\ server[n] = "file"
       /\ size' = IF "trunc" \in flags THEN [size EXCEPT ![n] = 0] ELSE size
       /\ UNCHANGED server
    \/ err \in Refusals(server[n] = "none") /\ UNCHANGED folder

(* Without a flag the descriptor stays -1, that is EPERM.                  *)
OpenFile(u, n, mode) ==
    /\ Calls(u)
    /\ \E err \in Errnos :
          /\ IF Flags(mode) = {} THEN err = "EPERM" /\ UNCHANGED folder
                                 ELSE ClientOpenFile(n, Flags(mode), err)
          /\ IF err = "ok"
             THEN /\ thread' = [thread EXCEPT ![u] = [Nothing EXCEPT !.what = "file", !.at = "using",
                                    !.handle = "open", !.name = n, !.flags = Flags(mode),
                                    !.offset = IF "append" \in Flags(mode) THEN size[n] ELSE 0]]
                  /\ UNCHANGED <<session, credential>>
             ELSE Returns(u, Seen(err, {"EACCES"}))

(* How a call on the file u has open can fail: always, if it is stale.     *)
Using(u)   == thread[u].at = "using"
Valid(u)   == Using(u) /\ thread[u].handle = "open"
Fails(u)   == /\ Using(u)
              /\ thread' = [thread EXCEPT ![u].outcome = "IOException"]
              /\ UNCHANGED folder

(* Mutation of Advances: the object's offset is set to the bytes of this   *)
(* call.                                                                   *)
AdvancesFrom0(u, n) == [thread EXCEPT ![u].offset = @ + n, ![u].mOffset = n,
                                      ![u].outcome = "ok"]

(* n bytes have been read or written.                                      *)
Advances(u, n) == [thread EXCEPT ![u].offset = @ + n, ![u].mOffset = @ + n,
                                 ![u].outcome = "ok"]

(* SambaFile.read: some of the bytes that are left, or none at the end.    *)
ClientReadFile(u, n) ==
    IF thread[u].offset >= size[thread[u].name] THEN n = 0
    ELSE n \in 1..(size[thread[u].name] - thread[u].offset)

Read(u) ==
    /\ OnHandle(u)
    /\ \/ /\ Valid(u)
          /\ "read" \in thread[u].flags
          /\ \E n \in 0..MaxSize : ClientReadFile(u, n) /\ thread' = Advances(u, n)
          /\ UNCHANGED folder
       \/ Fails(u)

(* SambaFile.write: at the offset, which append has moved to the end.      *)
ClientWriteFile(u, n) ==
    /\ thread[u].offset + n <= MaxSize
    /\ size' = [size EXCEPT ![thread[u].name] = Larger(@, thread[u].offset + n)]

Write(u) ==
    /\ OnHandle(u)
    /\ \/ /\ Valid(u)
          /\ "write" \in thread[u].flags
          /\ server[thread[u].name] = "file"
          /\ \E n \in 1..MaxSize : ClientWriteFile(u, n) /\ thread' = Advances(u, n)
          /\ UNCHANGED server
       \/ Fails(u)

(* SambaFile.seek does not call the library if the object is already there.*)
ClientSeekFile(u, to) ==
    thread' = [thread EXCEPT ![u].offset = to, ![u].mOffset = to, ![u].outcome = "ok"]

Seek(u, to) ==
    /\ UNCHANGED folder
    /\ IF thread[u].mOffset = to
       THEN /\ Using(u)
            /\ thread' = [thread EXCEPT ![u].outcome = "ok"]
            /\ UNCHANGED <<session, credential>>
       ELSE /\ OnHandle(u)
            /\ \/ Valid(u) /\ ClientSeekFile(u, to)
               \/ Fails(u)

Fstat(u) ==
    /\ OnHandle(u)
    /\ \/ /\ Valid(u)
          /\ thread' = [thread EXCEPT ![u].outcome = "ok"]
          /\ UNCHANGED folder
       \/ Fails(u)

(* SambaFile.close forgets the descriptor whatever the library says.       *)
ClientCloseFile(u, err) ==
    \/ err = "ok" /\ Valid(u)
    \/ err \in {"EBADF", "other"}

CloseFile(u) ==
    /\ Using(u)
    /\ OnHandle(u)
    /\ \E err \in {"ok", "EBADF", "other"} :
          /\ ClientCloseFile(u, err)
          /\ thread' = [thread EXCEPT ![u] = [Nothing EXCEPT !.outcome = Seen(err, {})]]
    /\ UNCHANGED folder

-------------------------------------------------------------------------------
(* A thread's call on the tree, on a folder and on a file.                 *)
TreeCall(u) ==
    \/ NotInitialised(u)
    \/ \E n \in Names : Stat(u, n) \/ CreateFile(u, n) \/ Mkdir(u, n) \/ Unlink(u, n) \/ Rmdir(u, n)
    \/ \E n, to \in Names : n # to /\ Rename(u, n, to)

FolderCall(u) == (\E what \in {"load", "browse"} : OpenDir(u, what)) \/ ReadDir(u) \/ CloseDir(u)

FileCall(u) ==
    \/ \E n \in Names, mode \in Modes : OpenFile(u, n, mode)
    \/ Read(u) \/ Write(u) \/ Fstat(u) \/ CloseFile(u)
    \/ \E to \in 0..MaxSize : Seek(u, to)

Call == \E u \in Users : TreeCall(u) \/ FolderCall(u) \/ FileCall(u)

-------------------------------------------------------------------------------
Threads == [what : {"nothing", "load", "browse", "file"},
            at : {"returned", "reading", "listed", "using"}, outcome : Outcomes,
            handle : {"none", "open", "stale", "closed"}, left : SUBSET Names,
            listed : SUBSET Names, whole : SUBSET Names, name : Names \cup {NoName},
            flags : SUBSET {"read", "write", "append", "trunc"},
            offset : 0..MaxSize, mOffset : 0..MaxSize]

(* The variables have their types; the client that mNativeHandler stands   *)
(* for works in a live context, and a handle is open only while there is   *)
(* one (NativeSambaFacade.reset, SambaClient.Init and its destructor).     *)
NativeTypeOK ==
    /\ handler \in BOOLEAN
    /\ context \in {"none", "live", "freed"}
    /\ loaded \in Configurations
    /\ initFailed \in BOOLEAN
    /\ undefined \subseteq Undefined
    /\ credential \in Credentials
    /\ server \in [Names -> {"none", "file", "dir"}]
    /\ size \in [Names -> 0..MaxSize]
    /\ thread \in [Users -> Threads]
    /\ handler => context = "live"
    /\ \A u \in Users : thread[u].handle = "open" => handler

(* Memory is used after it was freed, or freed twice, only in a process in *)
(* which SambaClient.Init has failed: resets under open files and folders, *)
(* in any order with the calls on them, are harmless otherwise.            *)
MemoryIsSafe == undefined # {} => initFailed

(* A listing that misses entries is never passed off as a good one by      *)
(* loadChildren: when a reset has fallen between openDir and readDir, whose*)
(* failure nobody sees, the close that follows throws.                     *)
TruncationIsTold ==
    \A u \in Users : /\ thread[u].what = "load"
                     /\ thread[u].at = "returned"
                     /\ thread[u].outcome = "ok"
                     => thread[u].listed = thread[u].whole

(* SambaFile.seek trusts mOffset instead of asking the library: it is the  *)
(* offset of the descriptor, through short, failed and stale calls, unless *)
(* the file was opened to append.                                          *)
OffsetsAgree ==
    \A u \in Users : /\ thread[u].at = "using"
                     /\ "append" \notin thread[u].flags
                     => thread[u].mOffset = thread[u].offset
===============================================================================
