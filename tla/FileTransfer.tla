------------------------------- MODULE FileTransfer -------------------------------
(***************************************************************************)
(* The content of documents: openDocument hands the client one end of a    *)
(* pipe and starts an AsyncTask that copies between the other end and the  *)
(* file on the server, block by block, through a ByteBuffer from a shared  *)
(* pool.  Every operation on the server is one call through the message    *)
(* looper, hence one step here (see SambaRpc).                             *)
(*                                                                         *)
(* Transfers run concurrently, to the same file if the clients say so.     *)
(* Clients may close their end at any time, the server may fail any        *)
(* operation, a network event resets the native session under the open     *)
(* files, and the process may be killed.                                   *)
(***************************************************************************)
EXTENDS Naturals, FiniteSets, SequencesExt

CONSTANTS Transfers,    \* the transfers that may be under way at once
          Files,        \* the files on the server
          Blocks,       \* what a file consists of
          Modes,        \* the modes clients open files in, of "r" and "w"
          Buffers,      \* the ByteBuffers the heap may hold
          PoolSize,     \* the capacity of the pool (16 in the code)
          Capacity,     \* blocks in a ByteBuffer (BUFFER_CAPACITY)
          PipeSize,     \* blocks in a pipe
          MaxLength,    \* bound: blocks in a file
          ShortWrites   \* may smbc_write accept fewer blocks than it was given?

VARIABLES content,    \* content[f]: the file on the server
          unannounced,\* files changed since their cached stat was last dropped
          session,    \* is the native client initialised?
          pool,       \* the ByteBuffers in the pool
          buffer,     \* buffer[b]: the memory and the position of a ByteBuffer
          task,       \* task[t]: the ReadFileTask or WriteFileTask, or Idle
          pipe,       \* pipe[t]: its pipe
          due         \* due[t]: what has gone into the transfer and not come out

vars == <<content, unannounced, session, pool, buffer, task, pipe, due>>

NoBuffer == "no buffer"
NoFile   == "no file"
Zero     == "zero"

ASSUME TransferAssumption ==
    /\ Modes \subseteq {"r", "w"}
    /\ NoBuffer \notin Buffers
    /\ NoFile \notin Files
    /\ Zero \notin Blocks
    /\ {PoolSize, Capacity, PipeSize, MaxLength} \subseteq Nat
    /\ Capacity > 0 /\ PipeSize > 0
    /\ ShortWrites \in BOOLEAN

Data == Blocks \cup {Zero}
Cleared == [memory |-> [i \in 1..Capacity |-> Zero], position |-> 0]

(* The steps of doInBackground.  A reader: read the server into the        *)
(* buffer, get it into the byte array, write the array to the pipe.  A     *)
(* writer: read the pipe into the array, put it into the buffer, write the *)
(* buffer to the server.  Both then close the file and the pipe, and the   *)
(* main thread runs onPostExecute.                                         *)
Phases == {"idle", "queued", "reading", "filled", "pushing", "pulling", "pulled",
           "closeFile", "closePipe", "catch", "posted", "ended"}

(* descriptor: the native file is "none", "open", or "stale" after reset;  *)
(* size: the blocks of the buffer in use; array: the byte array.           *)
Idle == [phase |-> "idle", mode |-> "r", file |-> NoFile, held |-> NoBuffer,
         descriptor |-> "none", offset |-> 0, size |-> 0, array |-> <<>>, failed |-> FALSE]

(* end: what the provider's end of the pipe is, or how it was closed.      *)
NoPipe   == [blocks |-> <<>>, end |-> "none", client |-> FALSE]
OpenPipe == [blocks |-> <<>>, end |-> "open", client |-> TRUE]

Is(t, phase, mode) == task[t].phase = phase /\ task[t].mode = mode

-------------------------------------------------------------------------------
Init ==
    /\ content \in [Files -> BoundedSeq(Blocks, MaxLength)]
    /\ unannounced = {}
    /\ session = FALSE
    /\ pool = {}
    /\ buffer = [b \in Buffers |-> Cleared]
    /\ task = [t \in Transfers |-> Idle]
    /\ pipe = [t \in Transfers |-> NoPipe]
    /\ due = [t \in Transfers |-> <<>>]

(* obtainBuffer: one from the pool, or else a new one.                     *)
Held == {task[t].held : t \in Transfers}
Obtainable == IF pool # {} THEN pool ELSE Buffers \ Held

(* Mutation of Acquire: the buffer stays in the pool. *)
AcquireKeeps(b) == UNCHANGED pool

Acquire(b) == pool' = pool \ {b}

(* openDocument: the reader's buffer is obtained in onPreExecute, the      *)
(* writer's in its constructor, both on this binder thread.                *)
OpenDocument(t) ==
    /\ task[t].phase = "idle"
    /\ \E f \in Files, mode \in Modes, b \in Obtainable :
          /\ task' = [task EXCEPT ![t] = [Idle EXCEPT !.phase = "queued", !.mode = mode,
                                                      !.file = f, !.held = b]]
          /\ buffer' = IF b \in pool THEN buffer ELSE [buffer EXCEPT ![b] = Cleared]
          /\ Acquire(b)
    /\ pipe' = [pipe EXCEPT ![t] = OpenPipe]
    /\ due' = [due EXCEPT ![t] = <<>>]
    /\ UNCHANGED <<content, unannounced, session>>

(* Mutation of Fail: after an error the loop goes on. *)
FailAndGoOn(t, phase) == [task EXCEPT ![t].failed = TRUE]

(* An IOException leaves the loop; the resources are closed from phase on. *)
Fail(t, phase) == [task EXCEPT ![t].phase = phase, ![t].failed = TRUE]

(* openFile; mode "w" truncates the file.                                  *)
OpenFile(t) ==
    /\ task[t].phase = "queued"
    /\ session
    /\ \/ /\ task' = [task EXCEPT ![t].descriptor = "open",
                                  ![t].phase = IF task[t].mode = "r" THEN "reading"
                                                                     ELSE "pulling"]
          /\ IF task[t].mode = "w"
             THEN /\ content' = [content EXCEPT ![task[t].file] = <<>>]
                  /\ unannounced' = unannounced \cup {task[t].file}
             ELSE UNCHANGED <<content, unannounced>>
       \/ /\ task' = Fail(t, "closePipe")
          /\ UNCHANGED <<content, unannounced>>
    /\ UNCHANGED <<session, pool, buffer, pipe, due>>

-------------------------------------------------------------------------------
(* SambaFile.read: up to Capacity blocks from the offset, none at the end  *)
(* of the file.                                                            *)
ReadServer(t) ==
    /\ Is(t, "reading", "r")
    /\ LET c == content[task[t].file]
           o == task[t].offset IN
       \/ /\ task[t].descriptor = "open"
          /\ \E n \in 1..Capacity :
                /\ o + n <= Len(c)
                /\ buffer' = [buffer EXCEPT ![task[t].held].memory =
                                 [i \in 1..Capacity |-> IF i <= n THEN c[o + i] ELSE @[i]]]
                /\ due' = [due EXCEPT ![t] = @ \o SubSeq(c, o + 1, o + n)]
                /\ task' = [task EXCEPT ![t].phase = "filled", ![t].size = n,
                                        ![t].offset = o + n]
       \/ /\ task[t].descriptor = "open"
          /\ o >= Len(c)
          /\ task' = [task EXCEPT ![t].phase = "closeFile"]
          /\ UNCHANGED <<buffer, due>>
       \/ /\ task' = Fail(t, "closeFile")
          /\ UNCHANGED <<buffer, due>>
    /\ UNCHANGED <<content, unannounced, session, pool, pipe>>

(* mBuffer.get: size blocks from the position on (see NoBufferException).  *)
Get(t) ==
    /\ Is(t, "filled", "r")
    /\ LET b == buffer[task[t].held] IN
       /\ b.position + task[t].size <= Capacity
       /\ task' = [task EXCEPT ![t].phase = "pushing", ![t].size = 0,
                               ![t].array = [i \in 1..task[t].size |->
                                                b.memory[b.position + i]]]
       /\ buffer' = [buffer EXCEPT ![task[t].held].position = @ + task[t].size]
    /\ UNCHANGED <<content, unannounced, session, pool, pipe, due>>

(* os.write blocks while the pipe is full and fails once the client has    *)
(* closed its end.  After the last block the buffer is cleared.            *)
Push(t) ==
    /\ Is(t, "pushing", "r")
    /\ \/ /\ pipe[t].client
          /\ Len(pipe[t].blocks) < PipeSize
          /\ pipe' = [pipe EXCEPT ![t].blocks = Append(@, Head(task[t].array))]
          /\ task' = [task EXCEPT ![t].array = Tail(@),
                                  ![t].phase = IF Len(task[t].array) = 1 THEN "reading" ELSE @]
          /\ buffer' = IF Len(task[t].array) = 1
                       THEN [buffer EXCEPT ![task[t].held].position = 0] ELSE buffer
       \/ /\ ~pipe[t].client
          /\ task' = Fail(t, "closeFile")
          /\ UNCHANGED <<pipe, buffer>>
    /\ UNCHANGED <<content, unannounced, session, pool, due>>

-------------------------------------------------------------------------------
(* is.read: what the pipe holds, up to the length of the array; the end of *)
(* the stream once the client has closed its end.  A read that returns may *)
(* fail instead, and does if the client has closed with an error or died.  *)
Pull(t) ==
    /\ Is(t, "pulling", "w")
    /\ \/ \E n \in 1..Capacity :
             /\ n <= Len(pipe[t].blocks)
             /\ task' = [task EXCEPT ![t].phase = "pulled",
                                     ![t].array = SubSeq(pipe[t].blocks, 1, n)]
             /\ pipe' = [pipe EXCEPT ![t].blocks = SubSeq(@, n + 1, Len(@))]
       \/ /\ pipe[t].blocks = <<>>
          /\ ~pipe[t].client
          /\ task' = [task EXCEPT ![t].phase = "closeFile"]
          /\ UNCHANGED pipe
       \/ /\ pipe[t].blocks # <<>> \/ ~pipe[t].client
          /\ task' = Fail(t, "closeFile")
          /\ UNCHANGED pipe
    /\ UNCHANGED <<content, unannounced, session, pool, buffer, due>>

(* mBuffer.put: the array goes into the buffer from the position on.       *)
Put(t) ==
    /\ Is(t, "pulled", "w")
    /\ LET b == buffer[task[t].held]
           n == Len(task[t].array) IN
       /\ b.position + n <= Capacity
       /\ buffer' = [buffer EXCEPT ![task[t].held] =
                        [position |-> b.position + n,
                         memory |-> [i \in 1..Capacity |->
                                        IF i > b.position /\ i <= b.position + n
                                        THEN task[t].array[i - b.position]
                                        ELSE b.memory[i]]]]
       /\ task' = [task EXCEPT ![t].phase = "filled", ![t].size = n, ![t].array = <<>>]
    /\ UNCHANGED <<content, unannounced, session, pool, pipe, due>>

(* The file after the blocks of s were written at an offset; a gap left by *)
(* another transfer's truncation reads as zeros.                           *)
Written(c, offset, s) ==
    [i \in 1..(IF offset + Len(s) > Len(c) THEN offset + Len(s) ELSE Len(c)) |->
        IF i > offset /\ i <= offset + Len(s) THEN s[i - offset]
        ELSE IF i <= Len(c) THEN c[i] ELSE Zero]

(* SambaFile.write from the start of the buffer.  The task does not look   *)
(* at how much was written; it clears the buffer and goes on.              *)
WriteServer(t) ==
    /\ Is(t, "filled", "w")
    /\ \/ /\ task[t].descriptor = "open"
          /\ \E n \in 1..task[t].size :
                /\ n = task[t].size \/ ShortWrites
                /\ content' = [content EXCEPT ![task[t].file] =
                                  Written(@, task[t].offset,
                                          SubSeq(buffer[task[t].held].memory, 1, n))]
                /\ due' = [due EXCEPT ![t] = SubSeq(@, n + 1, Len(@))]
                /\ task' = [task EXCEPT ![t].phase = "pulling", ![t].size = 0,
                                        ![t].offset = @ + n]
          /\ unannounced' = unannounced \cup {task[t].file}
          /\ buffer' = [buffer EXCEPT ![task[t].held].position = 0]
       \/ /\ task' = Fail(t, "closeFile")
          /\ UNCHANGED <<content, unannounced, buffer, due>>
    /\ UNCHANGED <<session, pool, pipe>>

-------------------------------------------------------------------------------
(* Mutation of CloseFile: an error skips the file. *)
CloseFileIfSucceeded(t) ==
    /\ task[t].phase = "closeFile"
    /\ task' = IF task[t].failed
               THEN Fail(t, "closePipe")
               ELSE [task EXCEPT ![t].phase = "closePipe", ![t].descriptor = "none"]
    /\ UNCHANGED <<content, unannounced, session, pool, buffer, pipe, due>>

(* The try statement closes the file first, which may fail as well, also   *)
(* because the descriptor is stale; libsmbclient forgets the file anyway   *)
(* (external).                                                             *)
CloseFile(t) ==
    /\ task[t].phase = "closeFile"
    /\ \/ /\ task[t].descriptor = "open"
          /\ task' = [task EXCEPT ![t].phase = "closePipe", ![t].descriptor = "none"]
       \/ task' = [Fail(t, "closePipe") EXCEPT ![t].descriptor = "none"]
    /\ UNCHANGED <<content, unannounced, session, pool, buffer, pipe, due>>

(* ... and then the pipe, like at the end of a transfer that succeeded.    *)
ClosePipe(t) ==
    /\ task[t].phase = "closePipe"
    /\ pipe' = [pipe EXCEPT ![t].end = "clean"]
    /\ task' = [task EXCEPT ![t].phase = IF task[t].failed THEN "catch" ELSE "posted"]
    /\ UNCHANGED <<content, unannounced, session, pool, buffer, due>>

(* closeWithError does nothing with a descriptor that is closed (external).*)
Catch(t) ==
    /\ task[t].phase = "catch"
    /\ pipe' = [pipe EXCEPT ![t].end = IF @ = "open" THEN "error" ELSE @]
    /\ task' = [task EXCEPT ![t].phase = "posted"]
    /\ UNCHANGED <<content, unannounced, session, pool, buffer, due>>

(* Mutations of Recycle: the buffer is not cleared; the pool grows. *)
RecycleAsItIs(b) ==
    /\ pool' = IF Cardinality(pool) < PoolSize THEN pool \cup {b} ELSE pool
    /\ UNCHANGED buffer
RecycleAlways(b) ==
    /\ pool' = pool \cup {b}
    /\ buffer' = [buffer EXCEPT ![b].position = 0]

(* recycleBuffer: the buffer is cleared; a full pool drops it.             *)
Recycle(b) ==
    /\ pool' = IF Cardinality(pool) < PoolSize THEN pool \cup {b} ELSE pool
    /\ buffer' = [buffer EXCEPT ![b].position = 0]

(* Mutation of Announced: a transfer that failed is not reported. *)
AnnouncedIfSucceeded(t) ==
    IF task[t].mode = "w" /\ ~task[t].failed THEN unannounced \ {task[t].file} ELSE unannounced

(* The writer's callback is always told SUCCEEDED: it drops the cached     *)
(* stat of the file and notifies its folder.                               *)
Announced(t) ==
    IF task[t].mode = "w" THEN unannounced \ {task[t].file} ELSE unannounced

(* onPostExecute on the main thread. *)
PostExecute(t) ==
    /\ task[t].phase = "posted"
    /\ Recycle(task[t].held)
    /\ unannounced' = Announced(t)
    /\ task' = [task EXCEPT ![t] = [Idle EXCEPT !.phase = "ended", !.mode = task[t].mode,
                                                !.failed = task[t].failed,
                                                !.descriptor = task[t].descriptor]]
    /\ UNCHANGED <<content, session, pipe, due>>

Work(t) == \/ OpenFile(t)    \/ ReadServer(t) \/ Get(t)         \/ Push(t)
           \/ Pull(t)        \/ Put(t)        \/ WriteServer(t)
           \/ CloseFile(t)   \/ ClosePipe(t)  \/ Catch(t)       \/ PostExecute(t)

-------------------------------------------------------------------------------
(* The client reads its end of the pipe (external). *)
Receive(t) ==
    /\ task[t].mode = "r"
    /\ pipe[t].client
    /\ pipe[t].blocks # <<>>
    /\ pipe' = [pipe EXCEPT ![t].blocks = Tail(@)]
    /\ due' = [due EXCEPT ![t] = Tail(@)]
    /\ UNCHANGED <<content, unannounced, session, pool, buffer, task>>

(* The client writes to its end (external). *)
Send(t) ==
    /\ task[t].mode = "w"
    /\ pipe[t].client
    /\ pipe[t].end = "open"
    /\ Len(pipe[t].blocks) < PipeSize
    /\ task[t].offset + Len(due[t]) < MaxLength
    /\ \E block \in Blocks :
          /\ pipe' = [pipe EXCEPT ![t].blocks = Append(@, block)]
          /\ due' = [due EXCEPT ![t] = Append(@, block)]
    /\ UNCHANGED <<content, unannounced, session, pool, buffer, task>>

(* The client closes its end, at the end of the file or at any other time; *)
(* what a reader has not taken out of the pipe is gone (external).         *)
CloseClient(t) ==
    /\ pipe[t].client
    /\ pipe' = [pipe EXCEPT ![t].client = FALSE,
                            ![t].blocks = IF task[t].mode = "r" THEN <<>> ELSE @]
    /\ due' = IF task[t].mode = "r" THEN [due EXCEPT ![t] = <<>>] ELSE due
    /\ UNCHANGED <<content, unannounced, session, pool, buffer, task>>

(* Both ends are closed; the model may use t for another transfer.         *)
Forget(t) ==
    /\ task[t].phase = "ended"
    /\ ~pipe[t].client
    /\ task' = [task EXCEPT ![t] = Idle]
    /\ pipe' = [pipe EXCEPT ![t] = NoPipe]
    /\ due' = [due EXCEPT ![t] = <<>>]
    /\ UNCHANGED <<content, unannounced, session, pool, buffer>>

(* The network has come up, or smb.conf has changed: the client is         *)
(* destroyed, which closes its files, and built again, which may fail.     *)
Reset ==
    /\ session' \in BOOLEAN
    /\ task' = [t \in Transfers |->
                  IF task[t].descriptor = "open" THEN [task[t] EXCEPT !.descriptor = "stale"]
                                                 ELSE task[t]]
    /\ UNCHANGED <<content, unannounced, pool, buffer, pipe, due>>

(* The process ends, and with it everything but the files; the next one    *)
(* starts without a session and with an empty document cache.              *)
ProcessDies ==
    /\ session' = FALSE
    /\ unannounced' = {}
    /\ pool' = {}
    /\ buffer' = [b \in Buffers |-> Cleared]
    /\ task' = [t \in Transfers |-> Idle]
    /\ pipe' = [t \in Transfers |-> NoPipe]
    /\ due' = [t \in Transfers |-> <<>>]
    /\ UNCHANGED content

(* openFile without a session throws IllegalStateException, which          *)
(* doInBackground does not catch.                                          *)
OpenFileDies(t) ==
    /\ task[t].phase = "queued"
    /\ ~session
    /\ ProcessDies

Next ==
    \/ \E t \in Transfers :
          \/ OpenDocument(t)
          \/ OpenFile(t)
          \/ ReadServer(t)
          \/ Get(t)
          \/ Push(t)
          \/ Pull(t)
          \/ Put(t)
          \/ WriteServer(t)
          \/ CloseFile(t)
          \/ ClosePipe(t)
          \/ Catch(t)
          \/ PostExecute(t)
          \/ Receive(t)
          \/ Send(t)
          \/ CloseClient(t)
          \/ Forget(t)
          \/ OpenFileDies(t)
    \/ Reset
    \/ ProcessDies

Spec == Init /\ [][Next]_vars

(* The pool of threads is unbounded and every operation on the server      *)
(* ends, so every task goes on; clients owe the provider nothing.          *)
Fairness == \A t \in Transfers : WF_vars(Work(t) \/ OpenFileDies(t))
FairSpec == Spec /\ Fairness

-------------------------------------------------------------------------------
Tasks == [phase : Phases, mode : {"r", "w"}, file : Files \cup {NoFile},
          held : Buffers \cup {NoBuffer}, descriptor : {"none", "open", "stale"},
          offset : 0..MaxLength, size : 0..Capacity, array : BoundedSeq(Data, Capacity),
          failed : BOOLEAN]
Pipes == [blocks : BoundedSeq(Data, PipeSize), end : {"none", "open", "clean", "error"},
          client : BOOLEAN]

TypeOK ==
    /\ content \in [Files -> BoundedSeq(Data, MaxLength)]
    /\ unannounced \subseteq Files
    /\ session \in BOOLEAN
    /\ pool \subseteq Buffers
    /\ Cardinality(pool) <= PoolSize
    /\ buffer \in [Buffers -> [memory : [1..Capacity -> Data], position : 0..Capacity]]
    /\ task \in [Transfers -> Tasks]
    /\ pipe \in [Transfers -> Pipes]
    /\ due \in [Transfers -> BoundedSeq(Data, MaxLength)]

(* A ByteBuffer belongs to one unfinished transfer or to the pool, whether *)
(* the transfer succeeds, fails or loses its session.                      *)
BuffersExclusive ==
    \A t \in Transfers : task[t].held # NoBuffer =>
        /\ task[t].held \notin pool
        /\ \A u \in Transfers \ {t} : task[u].held # task[t].held

(* The position is 0 whenever get or put begins: neither throws            *)
(* BufferUnderflowException or BufferOverflowException, which nothing      *)
(* would catch, however the buffer's former user has left it.              *)
NoBufferException ==
    \A t \in Transfers :
        Is(t, "filled", "r") \/ Is(t, "pulled", "w") =>
            buffer[task[t].held].position = 0

(* What t has in its buffer: got from the server, or on its way there.     *)
InBuffer(t) ==
    IF task[t].phase = "filled"
    THEN LET b == buffer[task[t].held]
             from == IF task[t].mode = "r" THEN b.position ELSE 0 IN
         [i \in 1..task[t].size |->
             IF from + i <= Capacity THEN b.memory[from + i] ELSE Zero]
    ELSE <<>>

(* No transfer loses, repeats or reorders a block or delivers one of       *)
(* another transfer: what went in and has not come out is, in this order,  *)
(* in the pipe, the array and the buffer, until an operation fails.        *)
BlocksInOrder ==
    \A t \in Transfers :
        /\ task[t].mode = "r" /\ pipe[t].client =>
              due[t] = pipe[t].blocks \o task[t].array \o InBuffer(t)
        /\ task[t].mode = "w" /\ ~task[t].failed =>
              due[t] = InBuffer(t) \o task[t].array \o pipe[t].blocks

(* Whichever operation failed, a transfer that has ended has no file open  *)
(* on the server and has closed its end of the pipe.                       *)
NothingStaysOpen ==
    \A t \in Transfers : task[t].phase = "ended" =>
        task[t].descriptor # "open" /\ pipe[t].end \in {"clean", "error"}

(* A file that was changed and whose cached stat was not dropped since is  *)
(* still being written: its writer will announce the change, whatever      *)
(* happens to the transfer.                                                *)
ChangesAreAnnounced ==
    \A f \in unannounced : \E t \in Transfers :
        /\ task[t].mode = "w"
        /\ task[t].file = f
        /\ task[t].phase \notin {"idle", "queued", "ended"}

(* Once the client has closed its end, the transfer ends, and its buffer   *)
(* and its thread are free.                                                *)
ClosedTransfersEnd ==
    \A t \in Transfers :
        task[t].phase \notin {"idle", "ended"} /\ ~pipe[t].client
            ~> task[t].phase \in {"idle", "ended"}

(* "Can't even close PFD with error.": a client whose read failed is told  *)
(* so at its end of the pipe.                                              *)
FailureReachesReader ==
    \A t \in Transfers :
        Is(t, "ended", "r") /\ task[t].failed /\ pipe[t].client => pipe[t].end = "error"

(* If smbc_write accepts all it is given, a transfer implements a stream   *)
(* of DocumentStreams.  What is between its ends is in the pipe, the array *)
(* and the buffer, as long as somebody is interested in it.                *)
Interesting(t) == IF task[t].mode = "r" THEN pipe[t].client ELSE ~task[t].failed

Between(t) ==
    IF ~Interesting(t) THEN <<>>
    ELSE IF task[t].mode = "r" THEN pipe[t].blocks \o task[t].array \o InBuffer(t)
                               ELSE InBuffer(t) \o task[t].array \o pipe[t].blocks

Place(t) ==
    CASE task[t].phase = "idle"    -> "idle"
      [] task[t].phase = "queued"  -> "opened"
      [] task[t].phase \in {"reading", "filled", "pushing", "pulling", "pulled"} -> "running"
      [] OTHER                     -> IF task[t].failed THEN "broken" ELSE "finished"

IsOpen(t)   == Place(t) \in {"opened", "running"}
FileOf(t)   == IF IsOpen(t) THEN task[t].file ELSE NoFile
OffsetOf(t) == IF IsOpen(t) THEN task[t].offset ELSE 0

AtPlace  == [t \in Transfers |-> Place(t)]
InMode   == [t \in Transfers |-> task[t].mode]
OfFile   == [t \in Transfers |-> FileOf(t)]
AtOffset == [t \in Transfers |-> OffsetOf(t)]
InQueue  == [t \in Transfers |-> Between(t)]
HasEnd   == [t \in Transfers |-> pipe[t].client]

Streams == INSTANCE DocumentStreams WITH
               at <- AtPlace, mode <- InMode, file <- OfFile, offset <- AtOffset,
               queue <- InQueue, client <- HasEnd

ImplementsStreams == Streams!StreamsSpec
===============================================================================
