----------------------------- MODULE DocumentStreams -----------------------------
(***************************************************************************)
(* What openDocument promises: a stream between a client and a file.  The  *)
(* blocks of the file come out of a reader's stream in the order they were *)
(* read in, those put into a writer's are stored one behind the other.  A  *)
(* stream may break at any moment, which leaves the file as it is then.    *)
(* Buffers, arrays, pipes and descriptors do not appear; FileTransfer is   *)
(* shown to implement this module.                                         *)
(***************************************************************************)
EXTENDS Naturals, Sequences

CONSTANTS Transfers,  \* the streams there may be at once
          Files,      \* the files on the server
          Blocks,     \* what clients write
          Modes,      \* the modes clients open files in, of "r" and "w"
          NoFile,     \* the file of a stream that is not open
          Zero        \* what a gap in a file reads as

VARIABLES content,  \* content[f]: the file on the server
          at,       \* at[t]: is the stream idle, opened, running, finished, or broken?
          mode,     \* mode[t]: does the client read or write?
          file,     \* file[t], offset[t]: the file it is a stream of, and the place
          offset,   \*   in the file at which it goes on
          queue,    \* queue[t]: the blocks that are in it
          client    \* client[t]: does the client hold its end?

position   == <<file, offset>>
streamVars == <<content, at, mode, position, queue, client>>

StreamsInit ==
    /\ content \in [Files -> Seq(Blocks)]
    /\ at = [t \in Transfers |-> "idle"]
    /\ mode = [t \in Transfers |-> "r"]
    /\ file = [t \in Transfers |-> NoFile]
    /\ offset = [t \in Transfers |-> 0]
    /\ queue = [t \in Transfers |-> <<>>]
    /\ client = [t \in Transfers |-> FALSE]

Open(t) ==
    /\ at[t] = "idle"
    /\ at' = [at EXCEPT ![t] = "opened"]
    /\ \E m \in Modes : mode' = [mode EXCEPT ![t] = m]
    /\ \E f \in Files : file' = [file EXCEPT ![t] = f]
    /\ offset' = [offset EXCEPT ![t] = 0]
    /\ queue' = [queue EXCEPT ![t] = <<>>]
    /\ client' = [client EXCEPT ![t] = TRUE]
    /\ UNCHANGED content

(* The file is open; a writer begins with an empty one. *)
Start(t) ==
    /\ at[t] = "opened"
    /\ at' = [at EXCEPT ![t] = "running"]
    /\ content' = IF mode[t] = "w" THEN [content EXCEPT ![file[t]] = <<>>] ELSE content
    /\ UNCHANGED <<mode, position, queue, client>>

(* Some blocks of the file go into the stream, unless nobody listens. *)
Fill(t) ==
    /\ at[t] = "running" /\ mode[t] = "r"
    /\ \E n \in 1..Len(content[file[t]]) :
          /\ offset[t] + n <= Len(content[file[t]])
          /\ offset' = [offset EXCEPT ![t] = @ + n]
          /\ queue' = IF client[t]
                      THEN [queue EXCEPT ![t] =
                               @ \o SubSeq(content[file[t]], offset[t] + 1, offset[t] + n)]
                      ELSE queue
    /\ UNCHANGED <<content, at, mode, file, client>>

(* The client of a reader takes a block out. *)
Deliver(t) ==
    /\ mode[t] = "r"
    /\ client[t]
    /\ queue[t] # <<>>
    /\ queue' = [queue EXCEPT ![t] = Tail(@)]
    /\ UNCHANGED <<content, at, mode, position, client>>

(* The client of a writer puts a block in. *)
Supply(t) ==
    /\ mode[t] = "w"
    /\ client[t]
    /\ at[t] # "broken"
    /\ \E block \in Blocks : queue' = [queue EXCEPT ![t] = Append(@, block)]
    /\ UNCHANGED <<content, at, mode, position, client>>

Overwritten(c, o, s) ==
    [i \in 1..(IF o + Len(s) > Len(c) THEN o + Len(s) ELSE Len(c)) |->
        IF i > o /\ i <= o + Len(s) THEN s[i - o]
        ELSE IF i <= Len(c) THEN c[i] ELSE Zero]

(* The first blocks of the stream are written behind those before them. *)
Store(t) ==
    /\ at[t] = "running" /\ mode[t] = "w"
    /\ \E n \in 1..Len(queue[t]) :
          /\ content' = [content EXCEPT ![file[t]] =
                            Overwritten(@, offset[t], SubSeq(queue[t], 1, n))]
          /\ offset' = [offset EXCEPT ![t] = @ + n]
          /\ queue' = [queue EXCEPT ![t] = SubSeq(@, n + 1, Len(@))]
    /\ UNCHANGED <<at, mode, file, client>>

LetGo(t) ==
    /\ file' = [file EXCEPT ![t] = NoFile]
    /\ offset' = [offset EXCEPT ![t] = 0]

(* All has been read, or all that the client put in before it hung up is stored. *)
Finish(t) ==
    /\ at[t] = "running"
    /\ \/ mode[t] = "r" /\ offset[t] >= Len(content[file[t]])
       \/ mode[t] = "w" /\ queue[t] = <<>> /\ ~client[t]
    /\ at' = [at EXCEPT ![t] = "finished"]
    /\ LetGo(t)
    /\ UNCHANGED <<content, mode, queue, client>>

(* Something failed.  What a writer's client had put in is lost, what a    *)
(* reader's client has not taken out is still there.                       *)
Break(t) ==
    /\ at[t] \in {"opened", "running", "finished"}
    /\ at' = [at EXCEPT ![t] = "broken"]
    /\ LetGo(t)
    /\ queue' = IF mode[t] = "w" THEN [queue EXCEPT ![t] = <<>>] ELSE queue
    /\ UNCHANGED <<content, mode, client>>

HangUp(t) ==
    /\ client[t]
    /\ client' = [client EXCEPT ![t] = FALSE]
    /\ queue' = IF mode[t] = "r" THEN [queue EXCEPT ![t] = <<>>] ELSE queue
    /\ UNCHANGED <<content, at, mode, position>>

End(t) ==
    /\ at[t] \in {"finished", "broken"}
    /\ ~client[t]
    /\ at' = [at EXCEPT ![t] = "idle"]
    /\ mode' = [mode EXCEPT ![t] = "r"]
    /\ queue' = [queue EXCEPT ![t] = <<>>]
    /\ UNCHANGED <<content, position, client>>

(* The process dies, and with it every stream. *)
Die ==
    /\ at' = [t \in Transfers |-> "idle"]
    /\ mode' = [t \in Transfers |-> "r"]
    /\ file' = [t \in Transfers |-> NoFile]
    /\ offset' = [t \in Transfers |-> 0]
    /\ queue' = [t \in Transfers |-> <<>>]
    /\ client' = [t \in Transfers |-> FALSE]
    /\ UNCHANGED content

StreamsNext ==
    \/ \E t \in Transfers :
          \/ Open(t)
          \/ Start(t)
          \/ Fill(t)
          \/ Deliver(t)
          \/ Supply(t)
          \/ Store(t)
          \/ Finish(t)
          \/ Break(t)
          \/ HangUp(t)
          \/ End(t)
    \/ Die

StreamsSpec == StreamsInit /\ [][StreamsNext]_streamVars
===============================================================================
