------------------------------- MODULE RpcData --------------------------------
(***************************************************************************)
(* Calls into the native facade and what comes back from them: the data    *)
(* that the abstract SambaRpc and the detailed SambaLooper share.          *)
(***************************************************************************)
CONSTANTS Callers,   \* the threads that call the client interfaces
          Requests,  \* the arguments a call may carry
          Ops        \* the kinds of operation they use

(* The operations differ in how the client passes its arguments and treats *)
(* the outcome.  "silent" ones (reset, putCredential, removeCredential) do *)
(* not look at it; "facade" ones (openDir, stat, createFile, mkdir, rename,*)
(* unlink, rmdir, openFile, readDir, fstat, close) carry their arguments   *)
(* in the Message; "file" ones (read, write, seek) in the MessageValues,   *)
(* the object that also brings the outcome back.                           *)
ASSUME OpsAssumption == Ops \subseteq {"silent", "facade", "file"}

Calls  == [by : Callers, op : Ops, req : Requests]
NoCall == [by |-> "nobody", op |-> "none", req |-> "none"]

(* The content of a field: null, an argument, a result, an IOException or a *)
(* RuntimeException, with the call it belongs to.  Void is what a client    *)
(* method that looks at nothing returns.                                    *)
Datum(tag, cl) == [tag |-> tag, of |-> cl]
Data == [tag : {"null", "arg", "ok", "io", "rt", "void"}, of : Calls \cup {NoCall}]
Null == Datum("null", NoCall)
Void == Datum("void", NoCall)

(* How the execution of an operation can end: reset and the credential     *)
(* operations declare no IOException.                                      *)
Endings(op) == IF op = "silent" THEN {"ok", "rt"} ELSE {"ok", "io", "rt"}

(* What the client method makes of an outcome. *)
Seen(op, out) == IF op = "silent" THEN Void ELSE out
===============================================================================
