# A TLA+ development of the Samba documents provider

The repository is an Android application that shows SMB shares through the
Storage Access Framework.  Its own code is Java under
`src/app/src/main/java/com/evideo/sambaprovider` (called `J/` here) and a small
JNI layer under `src/app/src/main/cpp` (`C/`); libsmbclient, whose headers are
vendored in `C/samba_includes`, does the protocol.  The repository has no
documentation and only generated test stubs, so the code and its comments are
the only reference.

## 1. Inventory

| Part | Code | State it keeps | Operations | What makes it hard |
|---|---|---|---|---|
| Message looper | `J/nativefacade/BaseClient`, `MessageValues`, `Samba*Client`, `SambaMessageLooper` | pool of `MessageValues`, message queue, one monitor per `MessageValues` | every client method; `handleMessage` | any thread may call; objects are shared and recycled; one `wait()` per call |
| Native session | `NativeSambaFacade`, `SambaFile`, `SambaDir`, `C/samba_client`, `C/jni_helper` | native client handle, open descriptors, cached file offset | `reset`, open/read/write/seek/close, directory iteration | `reset` frees the context while files are open; cached offset versus real one |
| Share manager | `J/ShareManager`, `J/nativefacade/NativeCredentialCache`, `C/credential_cache` | persisted set of share strings, map uri to string, mounted set, native credential cache, listeners | add, add or update, unmount, restart | persisted and in-memory state must agree; credentials are installed before they are checked |
| Task manager | `J/TaskManager` | map uri to the task last started | `runTask`, `runIoTask` | a task for a busy uri is dropped |
| Document cache and loading | `J/cache`, `J/document`, `J/provider/SambaDocumentsProvider` queries, `J/base/DocumentCursor` | cache entries with time stamps and exceptions, children maps, cursors | queries, load tasks, completion, cancellation | binder threads, main thread and background threads share it without locks |
| Document operations | `SambaDocumentsProvider` create, rename, delete, move | cache plus remote tree | RPC followed by cache update | cache and remote tree can diverge, partial failure |
| File transfer | `J/provider/ReadFileTask`, `WriteFileTask`, `SambaProxyFileCallback`, `ByteBufferPool` | buffer pool, offset of the file, progress of a copy | read, write, release | short reads and writes, cancellation, buffers that are not recycled |
| Mounting and authentication UI | `J/mount`, `J/auth` | dialogs, tasks | mount, authenticate, cancel | cancellation races with completion |
| Cancellable threads | `J/thread` | per thread id: info, task, lock object | register, unregister, cancel; pools | the lock object is removed while others wait on it |
| Network discovery | `J/browsing` | map ip to device and services, transaction ids | broadcast query, sweep of 254 addresses, master browser | replies to several queries on shared maps |
| HTTP streaming | `J/nativefacade/httpd` (NanoHTTPD derived), `StreamService` | connections, temp files, stream position | start, stop, serve ranges | concurrent connections, range arithmetic |
| CyberGarage HTTP | `J/http` | server list, sockets | not used by the rest of the application | third-party import |
| Samba configuration | `J/SambaConfiguration`, `J/SambaProviderApplication` | `smb.conf` on disk and in memory | flush defaults, sync from external file, reset | truncating writes, two asynchronous triggers of `reset` |

The parts meet as follows.  The provider and the share manager call libsmbclient
only through the message looper, which serialises every call on one thread.  The
share manager keeps the native credential cache in step with the mounted shares
and tells the provider to notify its roots, which it does in a name nobody
listens to (section 6).  The provider answers a query from the document cache
and starts load tasks through the task manager; tasks call the looper, and their
completion, on the main thread, fills the cache and notifies the cursor's uri.
Mounting and authentication run the share manager's checks in tasks of their
own.  A network or configuration event resets the native session under whatever
is in flight.

What makes each part correct, in one line: a call through the looper behaves as
if it were executed alone; the share tables, the preferences and the credential
cache tell the same story at every moment and after a restart; a list of roots
shows what was mounted while it was made; a folder is loaded by one task at a
time and whoever waits for it is told how it ended; a transfer delivers every
block once and in order and leaves nothing open; the cached tree is the remote
tree as it was at some moment since it last changed through the provider; a
cancelled thread leaves no registration behind; a machine that answered a search
is in the list, under its own name; the configuration in use is the last one
written.

## 2. Plan

Modules, in the order in which they are written.  A module that is done has its
own section below.

| # | Module | Question | State |
|---|---|---|---|
| 1 | `RpcData`, `SambaRpc`, `SambaLooper` | is a client call atomic? | modelled, checked, proved |
| 2 | `ShareStore`, `ShareManager` | do tables, preferences and credentials agree, also after a crash? | modelled, checked, proved |
| 3 | `DocumentLoading` | who is told of the end of a load, and can two loads collide? | modelled, checked, proved |
| 4 | `DocumentStreams`, `FileTransfer` | what happens to blocks, buffers, files and pipes when steps fail? | modelled, checked, proved |
| 5 | `DocumentOps` | create, rename, delete, move and `queryDocument` against the remote tree, with the loads of 3 reduced to their effect on the cache | modelled, checked, proved |
| 6 | `NativeSession`, `SambaConfiguration`, composed by `SambaSession` | the C++ session under resets that may fail; `smb.conf`, written and read again across deaths of the process | modelled, checked, proved |
| 7 | `CancellableThreads`, extended by `Discovery` | registration, cancellation and the lock objects of `AsyncTaskManage`; the searches, the service table and the screen | modelled, checked, proved |

Abstract specifications: `SambaRpc` (a call is one atomic step) is written and
implemented by `SambaLooper`; `ShareStore` (a set of shares, a saved copy of it,
and lists of it) is implemented by `ShareManager`, in the application as wired;
`DocumentStreams` (a queue of blocks between a client and a file, which may
break) by `FileTransfer`, if the server accepts all it is given.  A cache-free
provider that answers from the remote tree is no abstraction of `DocumentOps`:
the listings that the code spoils are too many; `ListingExact` says instead
which ones it does not.

The plan is carried out: every safety invariant of the runs and every refinement
is a theorem.  What could still be added lies in the parts that are modelled
partly (section 7), not in the ones proved about.

## 3. The modules

### `RpcData`, `SambaRpc`, `SambaLooper`

`SambaRpc` is the promise of the interfaces `SmbClient`, `SmbFile`, `SmbDir` and
`CredentialCache`: a call is invoked, executed once at some moment, and returns
what that execution produced.  `SambaLooper` is the machinery behind it:

| Module | Code |
|---|---|
| `pc[c]`, `call[c]`, `held[c]`, `reply[c]` | the thread inside a client method, its `MessageValues` local, what the method returned |
| `cell[v]`, `pool` | the fields of a `MessageValues` and the `SynchronizedPool` |
| `monitor[v]` | `synchronized (msg.obj)` in `enqueue` and `handleMessage` |
| `queue`, `current`, `stage` | the `MessageQueue` and `handleMessage` of the looper thread |
| `Obtain`, `Send`, `Wait`, `Leave`, `Return` | `MessageValues.obtain`, `enqueue` up to `wait`, `wait`, its return, the getters and `close` |
| `WakeSpuriously`, `spurious` | `wait()` that returns early, which the language allows, and a history of how often it has |
| `Take`, `Enter`, `Process`, `Notify` | `Looper.loop`, entering the monitor, `processMessage`, `notify` |

Three kinds of operation stand for all methods, because they differ in what goes
through the values: `silent` ones (`reset`, credentials) do not look at the
outcome, `facade` ones carry their arguments in the `Message`, and `file` ones
carry an argument in the `MessageValues` itself, where an exception left from an
earlier call would be found first.

### `ShareStore`, `ShareManager`

`ShareStore` is what the rest of the application may take `ShareManager` for: a
set of mounted shares, each with credentials its server has accepted, which
`Mount` and `Eject` change one at a time; a copy of it, which `SaveShares`
writes at any time and `StartAgain` loads; and the roots the UI shows, which are
right about every share that was neither mounted nor ejected between `Ask` and
`Show`.  `ShareManager` is the code:

| Module | Code |
|---|---|
| `strings`, `stringOf`, `mounted` | `mServerStringSet`, `mServerStringMap`, `mMountedServerSet` |
| `cred` | the native credential cache, by share |
| `pref`, `disk` | the `SharedPreferences` in memory and the file that `apply()` writes later |
| `job[t]`, `checking` | what a mount or authorization task was started for; the one inside the monitor, waiting for the server |
| `querying`, `listing`, `rows`, `roots` | `queryRoots`, row by row, and what the documents UI shows |
| `TryMount`, `TryAuth`, `AlreadyMounted`, `StartCheck`, `CheckFails`, `CheckSucceeds` | `tryMount`, `tryAuth`, and `addServer`/`addOrUpdateServer` split at the call to the server |
| `Unmount`, `QueryRoots`, `AddRow`, `ShowRoots` | `unmountServer`, `queryRoots` |
| `Flush`, `Restart` | the delayed write, and a process that is killed and loads the file |

The text of a share is the pair of its uri and its tuple; encoding and decoding
JSON is the pair's construction and projection, with `EMPTY_TUPLE` for shares
without a password.  `AuthReachable` says whether anything starts
`AuthActivity`; in the repository nothing does.  The UI asks for the roots
whenever it likes; `kept` and `seen` are history variables, the shares mounted
all the time since it asked and those mounted at some moment since.
`ImplementsStore` takes for the shares those mounted, with the credentials in
the native cache, which file operations use, and for the copy the strings of the
file.

### `DocumentLoading`

One folder, its files, several clients that list it.  `doc` is the folder's
`DocumentMetadata` in the cache (listed, fresh, for which children a stat or an
exception is known), `docError` the exception cache, `task[t]` the `AsyncTask`s
of the three kinds with their framework status, `latest` the entry of
`TaskManager.mTasks`.  `Query`, `QueryThrows`, `RunTask` and `Return` are the
steps of `queryChildDocuments` between which other threads come; `Start`,
`RunDocument`, `RunChildren`, `RunStat`, `Report` and `Finish` are the life of a
task; `Leave`, `Change` and `Expire` come from outside, at any moment.  `Finish`
is a step of its own since `AsyncTask` assigns `FINISHED` only after the
callback, so that a client which queries again at once finds the task not
finished and its own is ignored.  `RunChildren` may set the children and then
fail to close the folder.

### `DocumentStreams`, `FileTransfer`

`DocumentStreams` is what `openDocument` gives to a client: a stream that is opened,
runs, and finishes or breaks, with a queue of blocks in it.  `Fill` reads the file
behind what it has read, `Deliver` hands out the first block; `Supply` takes a block
in, `Store` writes the first blocks of the queue behind those it has written;
`Finish` needs the end of the file, or an empty queue and a client that has hung up.

`FileTransfer` is the code: `openDocument` and the two transfer tasks.  A
transfer is a program counter (`task[t].phase`) through `doInBackground`: read
the server into the buffer, get it into the byte array, push the array into the
pipe; or pull, put, write; then the closes of the `try` statement in reverse
order, the `catch` clause, and `onPostExecute` on the main thread.  Every step
may fail, a read of the pipe too: it is a reliable pipe, whose end tells of a
client that has died.  A `ByteBuffer` keeps its memory and its position, because
the code relies on both; `due[t]` is a history variable with the blocks that
went in and have not come out.  `Reset` makes the descriptor of every open file
stale, `ProcessDies` ends everything but the files, `OpenFileDies` is the
exception of `checkNativeHandler` that no task catches.  `ImplementsStreams`
takes for the queue of a stream what is in the pipe, the array and the buffer,
in that order for a reader and in the reverse order for a writer, unless the
reader's client has gone or the writer has failed.

### `DocumentOps`

A small tree of documents (`Paths`), on the server (`remote`) and in the
`DocumentCache` (`cache`).  Every operation is split at its calls to the server:

| Module | Code |
|---|---|
| `Put`, `Drop` | `DocumentCache.put` and `remove`, with the listing of the parent |
| `CreateOnServer`, `CreateInCache` | `createDocument` up to `mkdir` or `createFile`, and the rest |
| `QueryOnServer`, `QueryInCache` | `queryDocument` and `LoadDocumentTask`: the stat, and the entry |
| `RenameOnServer`, `RenameInCache` | `renameDocument` and `moveDocument`, which differ in the new uri only |
| `DeleteLooks`, `DeleteEnters`, `DeleteOnServer`, `DeleteInCache`, `DeleteFails`, `DeleteCatches` | `deleteDocument`: the stat, `openDir`, `unlink` or `rmdir`, `mCache.remove`, the two catch clauses; `GoingOn` is the loop of `recursiveDeleteFolder` |
| `LoadStarts`, `LoadReads`, `LoadSets`, `LoadReports`, `LoadFails`, `LoadCannotClose` | `LoadChildrenTask`: the children read, set in the metadata object, and put into the cache on the main thread; it may fail before it reads, or when it closes the folder, after the children are set |
| `OtherMachine` | whoever else uses the share |

`Trees` says of a server that what is not a folder has nothing below it, at any
depth, and `Renamed` moves a folder with all that is in it.  A load works on a
metadata *object*: `on` says whether that is still the one in
the cache, and `uri` follows it when it is renamed.  `excused` is a history
variable, the folders whose listing the code is known to spoil (section 6), and
`late` another, in a job: since it talked to the server, somebody has changed
what it was told.

### `NativeSession`, `SambaConfiguration`, `SambaSession`

What is on the other side of the looper.  Every call runs on the looper's thread,
so a call is one step; what comes between two calls on the same folder or file
is another thread's call, above all `reset`.

| Module | Code |
|---|---|
| `handler`, `context` | `mNativeHandler`, and the context `SambaClient` gave to `smbc_set_context`, which may have been freed |
| `Reset`, `ClientDestroyed`, `ClientInit` | `NativeSambaFacade.reset`, `~SambaClient`, `SambaClient::Init` with its three ways out |
| `Client...` | the other methods of `SambaClient`: the errno they return |
| `Stat`, `Mkdir`, `OpenDir`, `Read`, ... | the functions of `JniHelper.cc`: the exception the caller sees |
| `thread[u]` | the caller's `SambaDir` or `SambaFile`: its descriptor, the entries left to read, its real offset and `mOffset` |
| `undefined` | the undefined behaviour the process has run into, "double free" or "use after free"; it is not followed further |
| `credential` | the entry of `CredentialCache`; one that does not fit the library's buffers is dropped by `GetAuthData` |

libsmbclient is external and known by how the code uses it: `opendir` reads the
whole folder, freeing a context closes what is open, a descriptor of a context
that is gone is not valid and its number is not given out again, `rename` does
not replace a document, and anything may fail at any time.

`SambaConfiguration` is `smb.conf` (`home`), the user's own copy in the external
folder (`ext`, `newer`), and the one task of a process that writes the file,
`SyncTask` or `FlushTask`: `ReadExternal`, `OpenHome`, which truncates,
`WriteEntry`, `CloseHome`, `Succeeded`.  `chosen` and `spoilt` are history
variables: what the file was last meant to say, and whether it was left otherwise.

`SambaSession` composes them: `NetworkAvailable` and `ConfigurationChanged` are
the two triggers of `reset` in `SambaProviderApplication`; each `Init` reads
the file as it is at that moment; `Dies` ends the process and keeps the files.
`FileAssumption` says that what a session loads is such a file.

### `CancellableThreads`, `Discovery`

| Module | Code |
|---|---|
| `phase[o]`, `isCancel[o]`, `mThread[o]` | an `AbsTerminableThread`: started, running or ended; its flag; its `mThreadInfo` |
| `pool[t]` | a thread of the pool: the task it runs and where it is in it.  Threads are reused and stand for their ids |
| `infoMap`, `stopped`, `told`, `taskMap`, `lockMap` | `mThreadInfoMap` and the two flags of a `ThreadInfo`, `mAsyncTaskMap`, `mLockMap` |
| `call[a]` | the method of `AsyncTaskManage` a thread is in: it obtains the lock object (`ObtainLock`), waits, enters and reads (`Look...`), writes and leaves |
| `cast` | who is started, by which threads, and who cancels: one of `Casts`, fixed by `Init` |
| `search[o]`, `air` | a search: its place in the list of addresses, or of `Networks` if it broadcasts, and what it waits for; the UDP answers on their way |
| `table`, `adding` | `ServiceHelper.mMap`, and who is inside `addServiceData` |
| `Names`, `Extract` | what `extractServers` makes of the answer of a machine: a list, in which a name may come twice |
| `screen`, `pending`, `shown` | `refreshServiceData` on the main thread, a posted refresh, `mDevices` |

A lock object is dropped by `unlock` while others wait for it, so `Enters` lets
two threads be inside for one id, each in the monitor of an object of its own.
`lost` and `overlapped` are history variables: cancels that found no
`ThreadInfo`, and ids of which two threads were inside at once. `serial` is too:
the table that the calls of `addServiceData` make one after the other. `Arrives`
says which answers reach a socket: those to its own query, and late ones to a
socket that has been closed, whose port it may have got.  `ScreenDies` is the
`ConcurrentModificationException` of the iteration.  `Confused(ip, other)` says
that a sweep asks `ip` with the transaction id of a query of another search
which reaches `other`: their answers cannot be told apart.

## 4. What TLC checks

| Run | Instance | What it shows |
|---|---|---|
| `looper` | 2 callers, 3 values, pool of 1, all kinds of operation, 1 early return of `wait()` | types; values are never shared nor pooled while held, whoever waits has a message that will wake it and someone can always go on, every call comes back; until a `wait()` returns early, the inductive invariant of the proofs, by which a woken caller's call is done, the pool holds only cleared values and every queued message has its caller; `AnswersItsCall`; the refinement of `SambaRpc` |
| `shares_app` | 2 shares, good and bad credentials, 2 tasks, no authorization | a restart restores tables and credentials; the refinement of `ShareStore`, hence the file holds only shares that were checked and mounted together |
| `shares_auth` | 1 share, authorization too | ejecting never throws; no orphaned and no rejected credential; a list of roots is right about what was mounted all the time it was made |
| `loading_any` | 2 clients, 1 file, 2 tasks; clients that leave, changes, expiry and queries that overtake the end of a task, all at any moment | one update at a time; who holds the task that does the work hears of its end; every started task becomes `FINISHED` |
| `loading_failure` | that of `loading_any` | finding, see 6 |
| `transfers` | 2 transfers of both kinds on 1 file, 2 kinds of block, pool of 1 | buffers exclusive, positions right, blocks in order, nothing stays open, changes announced |
| `transfers_live` | 1 transfer, arrays and pipe of 2 blocks, files of 3 | the refinement of `DocumentStreams` when arrays are filled in part; a closed transfer ends |
| `transfer_failure` | 1 reader | finding, see 6 |
| `documents` | 2 threads, 2 folders or files with room for one document each, 2 changes, every tree at the start, other machines | a listing nobody works on is that of the server, unless excused |
| `documents_delete` | the same without another machine | finding, see 6 |
| `samba_session` | 1 thread, a folder with 2 names, files of 1 unit, 4 modes, 1 setting; resets, failing `Init`s, edits and deaths at any moment | memory is safe unless an `Init` failed; a truncated listing is told of; cached offsets are right; the session has the configuration of the file; SMB1 only by choice |
| `discovery` | a sweep of 2 addresses beside a broadcast, or 2 tasks with 2 HTTP requests each, one of them cancelled by 2 threads, on one pool thread, or a sweep that is cancelled; 2 machines with 3 services | a cancel is felt, once; searches that add at once lose nothing of each other's; services are listed under their own machine; the screen ends up with the table; every started task ends |

Bounds. Two callers, with a pool smaller than their number, make every
interesting case of the looper happen: contention for the values, a pool that is
full or empty, a queue in which a message can be overtaken if the order were
wrong. `QueueBound` only keeps a call from starting behind that many messages.
`SpuriousBound` is 1: one early return leaves a message behind whose values
another call already uses, and the third value is for a call that begins
meanwhile; the theorems cover any number.  The shares are independent but for
the tables they are in, so two show the interference; the second task is the one
that comes between.  In `loading_any` two tasks are enough for two clients to
collide, the one cancelled while it runs and the other ignored; a query that
finds no free object waits, since `Tasks` are the objects the heap may hold, and
a task that nobody refers to is free again. One file is enough since the stats
of files are independent. In `FileTransfer` blocks stand for bytes: a buffer of
one block makes every read fill the buffer, one of two makes partial reads and a
position between the ends happen, and a file of three needs more than one round.
In `DocumentOps` the share, two folders and one document in each are the least
in which a folder can be renamed with something in it, a document be moved and a
deletion go down two levels; `Depth` keeps folders out of the lowest level,
where nothing could be in them, and `Changes` bounds how many documents are
created, renamed or deleted in all: two let one operation fall between the two
halves of another, and queries and loads, which are not counted, meet what they
left.  What happens to a folder *in* a folder that is renamed needs a third
level, which TLC covers with one thread and two changes only; the theorem covers
every depth. `MaxLength` bounds the files, `PipeSize` and `Capacity` exist in
the code. In `samba_session` the names are interchangeable: the second is what a
document can be renamed to and what a listing can miss; a file of one unit is
read, reaches its end and is written past what the object has seen; the second
configuration is the one without the setting.  Sharing a file between threads is
left to `FileTransfer`, so one thread and a reset are enough here.  In
`discovery` the two addresses give answers that come one query late, one of the
machines has two services, so a list is taken out and put back, the other names
its service twice in one packet, and the transaction ids of the two searches
meet; of the tasks with requests (`MaxRequests`) the second inherits the thread,
and the first is cancelled by two threads.  `Locks` is one more than the threads
that may hold one.

Fairness.  The looper thread runs and a thread inside a call goes on with it;
nothing is assumed about a caller's next call, nor about early returns of
`wait()`.  The executor starts every task, operations on the server end
(libsmbclient has timeouts), the main thread handles its messages, a binder
thread goes on with its query; clients owe nothing and no fairness is assumed of
restarts, resets, expiry or the writes of the preferences.  The executor of the
cancellable threads gives every task a thread, since it has more core threads
than the application has searches; such a thread and one that is in `cancel()`
go on, and sockets time out; nothing is assumed of starts, cancels and the
screen.  All of it is weak fairness of single tasks or threads.

`CHECK_DEADLOCK FALSE` stands where the system may stop: in `samba_session`,
when undefined behaviour ends what can be said of a process; in `discovery`,
when every search has ended or the process has died.

## 5. What is proved

TLAPS proves every safety invariant of the passing runs for every value of the
constants: any number of threads, tasks, shares, files, addresses, any depth of
the tree, any size of pool, pipe and queue.

| Module | Theorems | Assumptions |
|---|---|---|
| `SambaLooperProofs` | `TypeCorrect`, `ValuesExclusive`, `NoWakeupIsLost`, `CallersServed`, `CallsAreConsistent`, `AnswersOwnCall`, `LooperImplementsRpc` | `LooperAssumption`; the last four speak of the time before a `wait()` returns early |
| `ShareManagerProofs` | `TypeCorrect`, `RootsAreRight`, `EjectFindsItsString`, `NoOrphanedCredential`, `NoRejectedCredential`, `FileIsChecked`, `RestartRestores`, `ManagerImplementsStore` | `ShareAssumption`; the last three with `~AuthReachable` |
| `DocumentLoadingProofs` | `TypeCorrect`, `OneTaskAtATime`, `HoldersHear` | `LoadingAssumption` |
| `FileTransferProofs` | `TypeCorrect`, `NoBufferIsShared`, `GetAndPutSucceed`, `BlocksStayInOrder`, `NothingIsLeftOpen`, `EveryChangeIsAnnounced`, `TransferImplementsStreams` | `TransferAssumption`; `BlocksStayInOrder` and the last without short writes |
| `DocumentOpsProofs` | `TypeCorrect`, `ListingsAreExact` | `PathsAssumption` |
| `SambaSessionProofs` | `TypeCorrect`, `MemoryIsSafeAlways`, `TruncationIsAlwaysTold`, `SeekKnowsTheOffset`, `TheFileIsLoaded`, `Smb1IsChosen` | `SessionAssumption`, `ConfigurationAssumption`, `FileAssumption` |
| `CancellableThreadsProofs`, `DiscoveryProofs` | `TypeCorrect`, `EveryCancelIsFelt`, `SearchesAddInTurn`, `MachinesKeepTheirNames`, `ScreenCatchesUp` | `ThreadsAssumption`, `DiscoveryAssumption` |

The assumptions say what the constants are: null values lie outside their sets,
a buffer and a pipe have room for something, paths come with all their prefixes,
a query of a sweep reaches no machine but the one it asks, and there is one lock
object more than there are threads that may hold one.  The conditions beyond
them are facts of the world, not of the code: a virtual machine that wakes
nobody without reason (the `spurious = 0` in the statements), an application in
which nothing starts `AuthActivity` (as in the repository), and a server that
accepts all it is given.  TLC evaluates the assumptions in every run, and has
checked every invariant below on the runs' instances before it was proved.

*Looper.* `TypeCorrect` and `ValuesExclusive` hold however often `wait()`
returns early, from `HoldInv`: the types, and that held values are disjoint from
each other and from the pool.  So does `NoWakeupIsLost`, the part of
`EveryCallReturns` that is a fact of states: a caller in `wait()` has a message
on its way, and while a call is under way the looper or a caller can go on.
`ServeInv` adds to `HoldInv` who is inside which monitor (`MonitorsHeld`): when
the looper lets a message go, the caller that has posted it waits already, since
before that it was inside the monitor the looper is in.  The other theorems hold
up to the first early return; they need `CallInv`, inductive until then
(`LoopSoFar`), which ties the parts together: a message, in the queue or
current, belongs to the one caller that is in the call it was sent for, and no
values are in two of them; the cell holds the arguments before `Process` and the
outcome after it; a woken or returning caller has no message left; pooled values
are clean.  From it follow `CallersServed`, `AnswersOwnCall` and
`LooperImplementsRpc`, whose refinement mapping takes a call as executed when
the looper is past `Process` for it; every other step is a stutter of
`SambaRpc`.

*Shares.*  `ShareInv` joins the types, the agreement of the tables and the two
facts on the credential cache with what they need: the credentials under check
are in the cache (`CheckedCredential`), and no string, in memory or on disk,
holds credentials that were refused (`StringsWereChecked`).  It is inductive
whether or not `AuthReachable`, and gives `EjectFindsItsString`,
`NoOrphanedCredential` and `NoRejectedCredential`.  `RootsAreRight` has an
invariant of its own, also whether or not `AuthReachable`: what a running query
has still to ask about or has answered contains what was mounted all the time,
and its rows are among what was mounted at some moment. With `~AuthReachable`,
`AppInv` adds that every stored share is mounted, that there is one string for
each uri in the tables, in the preferences and on disk, that these were
accepted, and that outside a check the cache holds the stored credentials; it
gives `FileIsChecked` and `RestartRestores`.  Without the assumption the latter
is false (see 6), so it is needed.  `ManagerImplementsStore` adds nothing to
these: `StringsAreShares` reads it as "the strings in memory are the mounted
shares", so that `CheckSucceeds` is a `Mount`, `Unmount` an `Eject`, `Flush` a
`SaveShares`, `QueryRoots` an `Ask`, `ShowRoots` a `Show` and `Restart` a
`StartAgain`; all other steps are stutters.  What is delicate is the cache while
a check is under way: it already holds the credentials of a share that is not
mounted, which the mapping does not see.

*Loading.*  `LoadingInv` says of tasks, calls and cursors what keeps two tasks
apart: no two of them refer to the same unfinished task, a task that somebody
has decided on is new, and of those on the executor only the latest one is
queued or runs, since the `TaskManager` ignores a task while the latest has not
finished. `OneTaskAtATime` follows. So does `HoldersHear`: since no two cursors
refer to the same task, the close of another client cannot have cancelled the
one a cursor holds, so its callback is not held back when the listing failed.

*Transfers.*  `TypeInv` joins the types with the phase each transfer is in
(`PhaseOf`) and how far it has come (`RoomOf`): without the latter a file or a
pipe could outgrow its bound.  `NothingIsLeftOpen` and `EveryChangeIsAnnounced`
follow from it and one case per step.  `BufferInv` adds that no buffer has two
holders and that the position is 0 in the pool and at the beginning of each
round. `TransferInv` adds where the blocks are: what is due of a reader is what
is in the pipe, in its array and in its buffer, in that order, and the reverse
for a writer. It needs lemmas about sequences that are cut and joined (`CutSeq`,
`DropFirst`, `TailOfConcat`, `MoveFirst`).  `TransferImplementsStreams` rests on
the same invariant: since the queue of a stream is what is due, a step that
moves blocks between buffer, array and pipe changes no stream, and there is one
lemma for each other step.  The one with substance is `WritesWhatIsDue`, that
the memory of a recycled buffer begins with the blocks at the head of the queue
when it goes to the server.

*Documents.*  `ListingsAreExact` is the deepest of the theorems: every operation
does one half on the server and the other in the cache, and any others may come
in between.  `OpsInv` accounts for that with debts.  `HeardInv` says that what a job
has heard from the server is still so unless the job is `late`.  `ListInv` says that
each way in which a listing that is not excused differs from the server is owed
by a job under way, which will put the child into the listing, take it out,
drop the listing or excuse it (`OwesFolder`, `OwesChild`, `LateLoad`).  When no job
has anything to do with the folder, nothing is owed and the listing is exact.
The tree needs no induction: `Trees` speaks of all prefixes at once, and
`TreeCreated`, `TreeDeleted` and `TreeRenamed` show that the server's operations
keep a tree a tree.  The attempt to prove the invariant corrected the model twice:
folders inside a folder that is renamed are bounded by `Depth` too, and they keep
their listings under the old uris even if the folder is not in the cache
(section 6).

*Session.*  Of each thread, `Good` says that the cached offset is never ahead of
the real one, and the same unless the file is appended to, and that a listing is
whole as long as its handle is valid.  `MemoryInv` says that freed memory is in
reach only after an `Init` has failed.  `ConfInv` says that a file which was not
spoilt holds what was chosen, but for what the task has yet to write, and
`LoadedInv` that the session knows the file as it was before that task began.

*Threads and discovery.*  `ThreadsInv` ties a task to the one thread that runs
it, its `ThreadInfo` to the time between `registerThread` and
`unregisterThread`, and a lock object in the map to a call that holds it; that
`lock()` always finds a fresh object is a counting argument.  Of ids of which no
two threads were inside at once it says that who is inside has read what is
still there, and that a stopped object which has not been told has no HTTP task
to tell.  `SearchInv` keeps to the answers on their way what they are answers
to, `TableInv` accounts for the list that `addServiceData` has taken out of the
table (`SerialOK`: it is what the calls before have made of the machine),
`ScreenOK` for what the screen has still to read.  `NamesAreTheirs` had to be
stated for each name before it could be proved, which made it stronger: it used
to excuse all that is listed for an address whose transaction id is shared.

Only model-checked: the liveness properties `EveryCallReturns`, `TasksFinish`,
`ClosedTransfersEnd` and `StartedEnds`, since the prover has no rule for fairness,
and the three violated properties.  What is not proved of a bound is that the
interesting cases happen: that is what the runs and their mutants show.

## 6. Findings and remarks

*A failed read looks like the end of the file* (`transfer_failure`).  In
`ReadFileTask` the `try` statement closes the `AutoCloseOutputStream`, and with
it the pipe, before the `catch` clause calls `closeWithError`
(`ReadFileTask.java:66`), which does nothing any more.

*A folder is forgotten that is still there* (`documents_delete`).  A child that
is gone when `recursiveDeleteFolder` comes to it throws `FileNotFoundException`;
`deleteDocument` takes that for the document itself being gone
(`SambaDocumentsProvider.java:499`), drops it from the cache and returns as if
all was well.

*A failed load tells nobody* (`loading_failure`).  A task that is ignored relies
on another client's, and that client's close cancels it.  If the listing then
fails, `BiResultTask` hands `null` to `LoadChildrenTask.onCancelled`, which calls
back only if there are children (`:71`): "If it failed we still should notify
the remote side that the loading failed" (`SambaDocumentsProvider.java:106`) is
not kept, and the other client says that it is loading until it queries again.

Listings that are known to differ from the server, which `ListingExact` excuses
until the folder is loaded again.  Without any one of these excuses TLC finds the
difference (the one about folders in an uncached folder takes a tree of three
levels):

- another machine has changed the share; the cache lives for a minute;
- another operation or a load came between the answer of the server and the
  change of the cache: the later of the two cache updates wins.  A document that
  was deleted while its folder was being listed comes back;
- a folder that was in the cache has been renamed or moved
  (`DocumentMetadata.java:207`): it keeps its children under their old uris, so
  `getChildren`, "Gets children of this document", returns documents that do not
  exist, and their entries stay in the cache.  So do the entries and listings of
  the folders in it, also when the folder itself was not in the cache: nothing
  looks for what lies below a document that is renamed;
- `createDocument` has found an entry that nobody removed from the cache, such as
  those: it takes it for "the file is truncated" (`:425`), and the new document is
  not in the listing of its parent;
- a document that was not in the cache has been moved or renamed: the listing of
  its new folder is not told.  Nor is that of its old folder, which shows such a
  document when a load has set its children and then failed to close the folder
  (`DocumentMetadata.java:222`), so that `onFinish` never put them into the cache;
- `deleteDocument` has forgotten a folder that is still there.

Remarks that no run is about:

- *Nobody is told of a mount.* `onShareMounted` and `onShareUnmounted` notify
  the roots uri of `com.evideo.sambaprovider`
  (`SambaDocumentsProvider.java:132`, `:70`); the provider is registered as
  `com.evideo.sambaproviderm` (`AndroidManifest.xml:31`). A documents UI shows
  the roots of its last query until it queries again for a reason of its own, so
  `ShareManager` has no notification of the roots, and no property relies on
  one: what holds is that each list is right when it is made
  (`RootsWereMounted`). Notifications of folders do arrive, since the cursors
  are given uris of the same wrong name (`setNotificationUri`, `:333`) as the
  notifications use; `notifyChange` does not require a provider of that name.
- *A machine that is found again is gone.* `addServiceData`, "add the data and
  notify the receiver" by its javadoc (`ServiceHelper.java:56`), takes the
  machine out of the table when it is given a service the table has (`:67`), as
  when the sweep and the broadcast both find it, or when one packet names a
  service twice; one service after that brings the machine back with that
  service only. `serial` does the same, so that `AddsAreSerial` says that
  nothing else loses a service.

- `addServer` refuses a share only if it is mounted (`ShareManager.java:105`); its
  javadoc (`:99`) says "already present".  The two differ for shares stored with
  `mount = false`, which only `AuthActivity` can store.
- With `AuthReachable = TRUE`, `RestartChangesNothing` fails:
  `updateServersData` leaves the old string of a uri in the set.  And
  un-mounting by update does not even try to notify.
- A cursor may say that it is loading with nobody left who would tell it, in two
  more ways for which no text of the repository says otherwise: the task it waits
  for is cancelled before it started, and calls nobody; or the callback of that
  task comes between the query that saw it unfinished and the registration of the
  cursor.  `HolderHears` is what is left: who holds the task hears of its end.
- With `ShortWrites = TRUE`, `BlocksInOrder` fails: `WriteFileTask` does not look
  at the number of blocks written.  `smbc_write` is expected to write all or fail.
- `createDocument`, `renameDocument` and `moveDocument` notify before they change
  the cache: a client that is quick lists what was there before and is not
  notified again.  A deletion that fails half way changes the cache and notifies
  nobody.
- A document opened before the first `reset` ends the process (`OpenFileDies`).
- When `smbc_init_context` fails, `SambaClient::Init` frees the context but keeps
  the pointer (`SambaClient.cc:64`), so the destructor frees it again; and after an
  `Init` that failed in a reset, the `SambaDir` and `SambaFile` objects, which do
  not ask for the handler, work in a context that has been freed.  `MemoryIsSafe`
  says that nothing else does this.
- `SambaClient.ReadDir` returns 0 whatever `smbc_readdir` says.  A NULL entry is "a
  normal case, indicating that we finished reading this directory"
  (`JniHelper.cc:495`), but it is also what a descriptor gives that a reset has made
  invalid.  `loadChildren` notices when it closes the folder, after it has put
  the short list and a fresh time stamp into the metadata: the error is told once
  and the short list is shown until it expires.  `NetworkBrowser` never closes its
  `SmbDir`, so there nobody notices.
- The mode "wt" does not truncate (`JniHelper.cc:444`), a mode that is not known
  becomes `EPERM` and an `IOException`; `EPERM` is a denial of access for some
  functions and not for others.
- A `SyncTask` that fails leaves a first start without the default file, although
  the log at `SambaProviderApplication.java:89` says "No need to try flushing
  default config"; a process that is killed while the file is written leaves part of
  it, which no later start repairs.  `Smb1IsAChoice` excuses both (`spoilt`).
- `unlock` drops the lock object others wait for, and `cancel()` may come before
  `mThreadInfo` is assigned: a cancel may be lost, or told twice.  `CancelIsFelt`
  excuses these two, so it covers neither hazard; without either excuse TLC finds
  it violated.  A cancel that comes late stops the next task of the pool thread,
  because `cancelAsyncTask` is given the hash code and does not compare it.
- Nothing calls `registerHttpTask`, which `AsyncTaskManage` exists for, and no
  search asks whether it has been cancelled: `cancelLoadTask`, which has no
  caller either, would keep searches from beginning but not stop them.
- The screen iterates over the table while the searches change it, and dies if they
  meet (`TestActivity.java:171`).
- A sweep takes a stale packet for the one answer it waits for and then misses the
  machine.  With transaction ids that two searches share it may list services under
  the address of another machine; `NamesAreTheirs` excuses those services, and no
  others of that address.

## 7. What is not modelled

- User interface (`VideoActivity`, dialogs, input fields), and with it a mount task
  that the `TaskManager` ignores because its share is being listed: its progress
  dialog stays.
- `J/nativefacade/httpd` and `StreamService`: nothing starts the service, its
  source of data is a stub (a file of length 0, no stream), and the server is
  derived from NanoHTTPD.  There is no behaviour of the application to be
  faithful to yet.
- `J/http`, an import without callers; `UrlUtils`, parsing of strings without state;
  `MasterBrowsingProvider`, whose only call is commented out.
- `SambaProxyFileCallback`, whose users are commented out; `seek` is an
  operation of `NativeSession` all the same.  `releaseRes` and `destroy` of the
  thread pools and `LifoTerminableThreadPool`, which nothing uses.  Cancellation
  of `MountServerTask`, which nothing cancels.
- The byte layout of NetBIOS replies: a packet names services or none.  The
  counts in a reply are signed bytes, and a reply that ends early is taken for
  one that names nothing.
- `CacheResult`, a holder confined to one `try` statement.  Its pool has ten
  places: in a debug build the eleventh of as many queries at once throws when
  it is recycled.
- The map of children is a set that changes in one step: a query that iterates over
  the `HashMap` while another thread changes it may fail with
  `ConcurrentModificationException`.  `throwLastExceptionIfAny` is one step too.
- Visibility of unsynchronised fields between Java threads: a read sees the last
  write.  `cancel()` reads `mThreadInfo` twice, for its check and for the call; the
  model takes one step for both, since the field becomes null once and for all and
  `cancelAsyncTask(null)` returns as the check would.
- Exceptions that are not checked in the credential calls of the looper:
  `CredentialCacheClient.processMessage` does not catch a `RuntimeException`, the
  other clients do.  `RpcData` has these calls among the `silent` ones, which
  always return; the native methods behind them throw nothing.
- A stat that a load has fetched before a write ended and stores after it, which
  makes the old size stay until the entry expires: `FileTransfer` has no loads and
  `DocumentOps` no sizes.
- An activity that is created anew over the table of services, which survives it.
- The SMB protocol and libsmbclient, which appear as the outcomes of single
  operations; 32 bit offsets on `armeabi-v7a`.

Nearly all lines of C and C++ in the repository, 40,218 of 41,714, are the vendored
headers of libsmbclient in `C/samba_includes`, which contain no code of the
application.  `NativeSession` models the other 1,500 as far as they do not copy
structures, write logs or register classes; the rest of the model is about Java.
