-------------------------------- MODULE Discovery --------------------------------
(***************************************************************************)
(* Network discovery: the searches of NetworkBrowser.getServers, which run *)
(* as cancellable tasks in the pool, the UDP answers they wait for, the    *)
(* table of services they fill (ServiceHelper), and the screen that lists  *)
(* it.  A sweep (IpSearchBrowsingProvider) asks one address after the      *)
(* other, waits half a second and takes the first packet; the broadcast    *)
(* search (BroadcastBrowsingProvider) asks every network and takes packets *)
(* for three seconds.                                                      *)
(*                                                                         *)
(* The screen's main thread iterates over the table without its monitor.   *)
(***************************************************************************)
EXTENDS CancellableThreads, Sequences, Functions

CONSTANTS Sweeps,      \* the searches that sweep; the others broadcast
          Machines,    \* the addresses
          Networks,    \* what a broadcast is sent to
          Asks,        \* Asks[o]: the addresses or networks o asks, in order
          Names,       \* Names[ip]: the services of the file server there, as it answers
                       \* them: in order, and a name may come twice
          Reached,     \* Reached[o][i]: the machines the i-th query of o reaches
          Casts        \* what is started, who runs it and who cancels what

Searches == Terminables \ Requests
Services == UNION {Range(Names[ip]) : ip \in Machines}

(* A query of a sweep reaches the address it is sent to, if anything.      *)
ASSUME DiscoveryAssumption ==
    /\ Sweeps \subseteq Searches
    /\ \A o \in Searches : /\ Asks[o] \in Seq(Machines \cup Networks)
                           /\ Reached[o] \in Seq(SUBSET Machines)
                           /\ Len(Reached[o]) = Len(Asks[o])
    /\ \A o \in Sweeps : /\ Asks[o] \in Seq(Machines)
                         /\ \A i \in DOMAIN Asks[o] : Reached[o][i] \subseteq {Asks[o][i]}
    /\ \A ip \in Machines : Names[ip] \in Seq(Range(Names[ip]))
    /\ NoTask \notin Machines
    /\ Casts \subseteq [starts : SUBSET Terminables, threads : SUBSET PoolThreads,
                       cancels : SUBSET (Cancellers \X Terminables)]

VARIABLES cast,        \* who takes part
          search,      \* search[o]: where the search is
          air,         \* the answers on their way
          table,       \* mMap: ip to services, {} for an ip that is not in it
          adding,      \* who is inside addServiceData, and the list it has taken out
          screen,      \* refreshServiceData on the main thread
          pending,     \* has dataChange posted a refresh?
          shown,       \* mDevices
          serial       \* history: the table that the calls of addServiceData make
                       \* one after the other

netVars == <<search, air>>
tableVars == <<table, adding, serial>>
screenVars == <<screen, pending, shown>>
vars == <<cast, threadVars, netVars, tableVars, screenVars>>

NoSearch == [at |-> "ask", pos |-> 1, ip |-> NoTask, todo |-> <<>>]
Nobody == [who |-> NoTask, ip |-> NoTask, list |-> {}]
Resting == [at |-> "resting", left |-> {}, stale |-> FALSE]

Init ==
    /\ cast \in Casts
    /\ ThreadsInit
    /\ search = [o \in Searches |-> NoSearch]
    /\ air = {}
    /\ table = [ip \in Machines |-> {}]
    /\ adding = Nobody
    /\ screen = Resting
    /\ pending = FALSE
    /\ shown = {}
    /\ serial = [ip \in Machines |-> {}]

-------------------------------------------------------------------------------
(* The transaction id of a query: the index in the sweep, or mTransId.     *)
TransId(o, pos) == IF o \in Sweeps THEN pos - 1 ELSE pos

Searching(t, o, at) == InTask(t, o) /\ o \in Searches /\ search[o].at = at

NextQuery(o) ==
    search' = [search EXCEPT ![o] = [NoSearch EXCEPT !.pos = search[o].pos + 1]]

(* Sending fails: a sweep goes on with the next address, the broadcast     *)
(* search gives up.                                                        *)
Query(t, o) ==
    /\ Searching(t, o, "ask")
    /\ search[o].pos <= Len(Asks[o])
    /\ \/ /\ search' = [search EXCEPT ![o].at = "listen"]
          /\ air' = air \cup {[trans |-> TransId(o, search[o].pos), from |-> ip, to |-> o,
                               pos |-> search[o].pos] : ip \in Reached[o][search[o].pos]}
       \/ /\ IF o \in Sweeps THEN NextQuery(o)
             ELSE search' = [search EXCEPT ![o].pos = Len(Asks[o]) + 1]
          /\ UNCHANGED air
    /\ UNCHANGED <<cast, threadVars, tableVars, screenVars>>

(* The socket a query waits at gets its answers, and late answers to one   *)
(* that is closed and had the same port.                                   *)
Arrives(p, o) == \/ p.to = o /\ p.pos = search[o].pos
                 \/ /\ p.to # o \/ p.pos # search[o].pos
                    /\ search[p.to].at # "listen" \/ search[p.to].pos # p.pos

(* Mutation of Extract: the transaction id is not compared. *)
ExtractAny(p, o) == Names[p.from]

(* extractServers: nothing if the answer is to another query.              *)
Extract(p, o) == IF p.trans = TransId(o, search[o].pos) THEN Names[p.from] ELSE <<>>

(* A packet is taken.  A sweep takes the names for those of the address it *)
(* has asked, and takes no other packet.                                   *)
Receive(t, o) ==
    /\ Searching(t, o, "listen")
    /\ \E p \in air :
          /\ Arrives(p, o)
          /\ air' = air \ {p}
          /\ IF Extract(p, o) # <<>>
             THEN search' = [search EXCEPT ![o].at = "add", ![o].todo = Extract(p, o),
                                ![o].ip = IF o \in Sweeps THEN Asks[o][search[o].pos] ELSE p.from]
             ELSE IF o \in Sweeps THEN NextQuery(o) ELSE UNCHANGED search
    /\ UNCHANGED <<cast, threadVars, tableVars, screenVars>>

(* Mutation of StopListening: no timeout for the socket of the broadcast. *)
ListensForever(t, o) ==
    /\ Searching(t, o, "listen")
    /\ o \in Sweeps
    /\ NextQuery(o)
    /\ UNCHANGED <<cast, threadVars, air, tableVars, screenVars>>

(* The time is over, or the answer is negative.                            *)
StopListening(t, o) ==
    /\ Searching(t, o, "listen")
    /\ NextQuery(o)
    /\ UNCHANGED <<cast, threadVars, air, tableVars, screenVars>>

-------------------------------------------------------------------------------
(* addServiceData, inside the monitor: a list that is there is taken out,  *)
(* ...                                                                     *)
EnterAdd(t, o) ==
    /\ Searching(t, o, "add")
    /\ adding = Nobody
    /\ adding' = [who |-> o, ip |-> search[o].ip, list |-> table[search[o].ip]]
    /\ table' = [table EXCEPT ![search[o].ip] = {}]
    /\ screen' = [screen EXCEPT !.stale = screen.at = "reading" /\ (@ \/ table # table')]
    /\ UNCHANGED <<cast, threadVars, netVars, serial, pending, shown>>

(* Mutation of PutBack: a list of its own for every name. *)
PutBackAlone(name) == IF name \in adding.list THEN {} ELSE {name}

(* ... and put back with the name, unless the name was in it.              *)
PutBack(name) == IF name \in adding.list THEN {} ELSE adding.list \cup {name}

(* Mutation of DataChange: only new machines are announced. *)
DataChangeUnlessKnown(name) == pending' = (pending \/ adding.list = {})

(* dataChange posts a refresh.                                             *)
DataChange(name) == pending' = TRUE

AfterAdd(o) ==
    IF Len(search[o].todo) > 1 THEN search' = [search EXCEPT ![o].todo = Tail(@)]
    ELSE IF o \in Sweeps THEN NextQuery(o)
    ELSE search' = [search EXCEPT ![o].at = "listen", ![o].todo = <<>>, ![o].ip = NoTask]

LeaveAdd(t, o) ==
    LET ip == adding.ip
        name == Head(search[o].todo)
    IN  /\ Searching(t, o, "add")
        /\ adding.who = o
        /\ table' = [table EXCEPT ![ip] = PutBack(name)]
        /\ serial' = [serial EXCEPT ![ip] = IF name \in @ THEN {} ELSE @ \cup {name}]
        /\ DataChange(name)
        /\ AfterAdd(o)
        /\ screen' = [screen EXCEPT !.stale = screen.at = "reading" /\ (@ \/ table # table')]
        /\ adding' = Nobody
        /\ UNCHANGED <<cast, threadVars, air, shown>>

(* The addresses are done.                                                 *)
EndSearch(t, o) ==
    /\ Searching(t, o, "ask")
    /\ search[o].pos > Len(Asks[o])
    /\ End(t)
    /\ UNCHANGED <<cast, netVars, tableVars, screenVars>>

-------------------------------------------------------------------------------
(* refreshServiceData: the iterator over the table ...                     *)
Refresh ==
    /\ screen = Resting
    /\ pending
    /\ pending' = FALSE
    /\ shown' = {}
    /\ screen' = [at |-> "reading", left |-> {ip \in Machines : table[ip] # {}}, stale |-> FALSE]
    /\ UNCHANGED <<cast, threadVars, netVars, tableVars>>

(* ... and its entries, while the table does not change.                   *)
ShowEntry ==
    /\ screen.at = "reading"
    /\ ~screen.stale
    /\ \E ip \in screen.left :
          /\ shown' = shown \cup {<<ip, name>> : name \in table[ip]}
          /\ screen' = [screen EXCEPT !.left = @ \ {ip}]
    /\ UNCHANGED <<cast, threadVars, netVars, tableVars, pending>>

ShowList ==
    /\ screen.at = "reading"
    /\ screen.left = {}
    /\ screen' = Resting
    /\ UNCHANGED <<cast, threadVars, netVars, tableVars, pending, shown>>

(* ConcurrentModificationException on the main thread, from the map or     *)
(* from a list: the process ends.                                          *)
ScreenDies ==
    /\ screen.at = "reading"
    /\ screen.stale
    /\ screen' = [Resting EXCEPT !.at = "dead"]
    /\ UNCHANGED <<cast, threadVars, netVars, tableVars, pending, shown>>

-------------------------------------------------------------------------------
Alive == screen.at # "dead"

OthersStay == UNCHANGED <<cast, netVars, tableVars, screenVars>>

(* getServers and whoever else starts a task; cancelLoadTask.              *)
StartSome == \E o \in cast.starts : Start(o) /\ OthersStay
CancelSome == \E pair \in cast.cancels : Cancel(pair[1], pair[2]) /\ OthersStay

SearchStep(t, o) == \/ Query(t, o) \/ Receive(t, o) \/ StopListening(t, o)
                    \/ EnterAdd(t, o) \/ LeaveAdd(t, o) \/ EndSearch(t, o)

ThreadStep(t) == \/ (PoolStep(t) \/ RequestStep(t)) /\ OthersStay
                 \/ \E o \in Searches : SearchStep(t, o)

Cancelling(c) == CancelStep(c) /\ OthersStay

ScreenStep == Refresh \/ ShowEntry \/ ShowList \/ ScreenDies

Next == /\ Alive
        /\ \/ StartSome
           \/ CancelSome
           \/ \E c \in Cancellers : Cancelling(c)
           \/ \E t \in cast.threads : ThreadStep(t)
           \/ ScreenStep

(* A thread goes on with what it does, the executor gives every task a     *)
(* thread, and sockets time out.                                           *)
Spec == /\ Init /\ [][Next]_vars
        /\ \A t \in PoolThreads : WF_vars(Alive /\ t \in cast.threads /\ ThreadStep(t))
        /\ \A c \in Cancellers : WF_vars(Alive /\ Cancelling(c))

-------------------------------------------------------------------------------
TypeOK ==
    /\ ThreadsTypeOK
    /\ cast \in Casts
    /\ search \in [Searches -> [at : {"ask", "listen", "add"}, pos : Nat,
                                ip : Machines \cup {NoTask}, todo : Seq(Services)]]
    /\ table \in [Machines -> SUBSET Services]
    /\ adding.who # NoTask => table[adding.ip] = {}
    /\ screen.at \in {"resting", "reading", "dead"}
    /\ pending \in BOOLEAN

(* Searches that add to the table at once make what their calls make one   *)
(* after the other (synchronized addServiceData), in which the list of a   *)
(* machine is for a while in no table: no service is lost or comes back    *)
(* but by a name that comes again, which takes the machine out.            *)
AddsAreSerial ==
    \A ip \in Machines : table[ip] = serial[ip] \/ adding.ip = ip

(* The answer of other may be taken for that of ip: a sweep asks ip with   *)
(* the transaction id of a query of another search that reaches other.     *)
Confused(ip, other) ==
    \E o \in Sweeps : \E i \in DOMAIN Asks[o], p \in Searches \ {o} : \E j \in DOMAIN Asks[p] :
        Asks[o][i] = ip /\ other \in Reached[p][j] /\ TransId(o, i) = TransId(p, j)

(* A machine is listed with its own services only, although sweeps take    *)
(* the answer of anybody for that of the address they have asked.  Excused *)
(* are services of a machine whose answer the transaction id, which is all *)
(* that is compared, does not tell apart.                                  *)
NamesAreTheirs ==
    \A ip \in Machines : \A name \in table[ip] :
        \/ name \in Range(Names[ip])
        \/ \E other \in Machines : name \in Range(Names[other]) /\ Confused(ip, other)

(* When nothing is left to be done, the screen shows the table: the        *)
(* refresh that reads it while it changes is followed by another, if the   *)
(* process survives it (ServiceHelper.addServiceData, TestActivity).       *)
ScreenShowsTable ==
    screen = Resting /\ ~pending /\ adding = Nobody
    => shown = UNION {{<<ip, name>> : name \in table[ip]} : ip \in Machines}

(* Again and again every task that was started has come to its end, and    *)
(* its thread back to the pool, however it is cancelled, and although lock *)
(* objects are dropped while threads wait for them.                        *)
StartedEnds == []<>(Alive => \A o \in Terminables : phase[o] \in {"new", "ended"})
===============================================================================
