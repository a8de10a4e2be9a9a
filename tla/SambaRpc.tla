------------------------------- MODULE SambaRpc -------------------------------
(***************************************************************************)
(* What the native facade promises to the threads that use it: a call into *)
(* libsmbclient is executed once, at one instant between its invocation    *)
(* and its return, on the arguments the caller gave, and the caller gets   *)
(* the outcome of that execution.  The threads, the message queue, the     *)
(* monitors and the pooled MessageValues of the code do not appear here;   *)
(* SambaLooper is the machinery, and it is shown to implement this module. *)
(***************************************************************************)
EXTENDS RpcData

VARIABLES call,      \* call[c]: the call thread c is in, or NoCall
          outcome,   \* outcome[c]: what its execution produced, or Null
          reply      \* reply[c]: what its latest call returned or threw, Null in a call

rpcVars == <<call, outcome, reply>>

RpcInit ==
    /\ call    = [c \in Callers |-> NoCall]
    /\ outcome = [c \in Callers |-> Null]
    /\ reply   = [c \in Callers |-> Null]

Invoke(c) ==
    /\ call[c] = NoCall
    /\ \E op \in Ops, r \in Requests :
          call' = [call EXCEPT ![c] = [by |-> c, op |-> op, req |-> r]]
    /\ reply' = [reply EXCEPT ![c] = Null]
    /\ UNCHANGED outcome

Execute(c) ==
    /\ call[c] # NoCall
    /\ outcome[c] = Null
    /\ \E tag \in Endings(call[c].op) :
          outcome' = [outcome EXCEPT ![c] = Datum(tag, call[c])]
    /\ UNCHANGED <<call, reply>>

Answer(c) ==
    /\ outcome[c] # Null
    /\ reply'   = [reply EXCEPT ![c] = Seen(call[c].op, outcome[c])]
    /\ call'    = [call EXCEPT ![c] = NoCall]
    /\ outcome' = [outcome EXCEPT ![c] = Null]

RpcNext == \E c \in Callers : Invoke(c) \/ Execute(c) \/ Answer(c)

RpcSpec == RpcInit /\ [][RpcNext]_rpcVars
===============================================================================
